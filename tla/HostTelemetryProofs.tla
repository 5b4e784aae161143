------------------------- MODULE HostTelemetryProofs -------------------------
(* Theorems about HostTelemetry and the keys it is built on, for any number *)
(* of keys, administrators, ingests, snapshots, signals and breaches.       *)
EXTENDS HostTelemetry, FiniteSetTheorems, WellFoundedInduction, TLAPS

-----------------------------------------------------------------------------
(* Versions                                                                 *)

Less == {pair \in Nat \X Nat : pair[1] < pair[2]}

LEMMA LessIsWellFounded == IsWellFoundedOn(Less, Nat)
BY NatLessThanWellFounded DEF OpToRel, Less

LEMMA Least ==
  ASSUME NEW S \in SUBSET Nat, S # {}
  PROVE  \E n \in S : \A m \in S : n <= m
<1>1. PICK n \in S : \A m \in S : <<m, n>> \notin Less
  BY LessIsWellFounded, WFMin
<1>2. \A m \in S : ~(m < n)
  BY <1>1 DEF Less
<1>3. QED
  BY <1>1, <1>2

(* A bounded set of versions has a greatest one.                            *)
LEMMA MaxIsGreatest ==
  ASSUME NEW bound \in Nat, NEW S \in SUBSET (0..bound), S # {}
  PROVE  Max(S) \in S /\ \A n \in S : Max(S) >= n
<1> DEFINE T == {bound - n : n \in S}
<1>1. T \in SUBSET Nat /\ T # {}
  <2>1. \A n \in S : bound - n \in Nat
    OBVIOUS
  <2>2. PICK n \in S : TRUE
    OBVIOUS
  <2>3. bound - n \in T
    OBVIOUS
  <2>4. QED
    BY <2>1, <2>3
<1>2. PICK t \in T : \A u \in T : t <= u
  BY <1>1, Least
<1>3. PICK m \in S : t = bound - m
  OBVIOUS
<1>4. \A n \in S : m >= n
  <2>1. ASSUME NEW n \in S PROVE m >= n
    <3>1. bound - n \in T
      OBVIOUS
    <3>2. bound - m <= bound - n
      BY <1>2, <1>3, <3>1
    <3>3. QED
      BY <3>2
  <2>2. QED
    BY <2>1
<1>5. QED
  BY <1>4 DEF Max

LEMMA SafeVersion ==
  ASSUME NEW n \in Int
  PROVE  /\ toSafeVersion(n) \in 0..MaxVersion
         /\ toSafeVersion(n) = MaxVersion \/ toSafeVersion(n) >= n
BY KeysAssumption DEF KeysAssumption, toSafeVersion

LEMMA NextVersionType ==
  ASSUME keys \in [Keys -> KeyRow]
  PROVE  nextHostKeyVersion \in 0..MaxVersion
<1> DEFINE S == {0} \cup {keys[k].version : k \in Live}
<1>1. S \in SUBSET (0..MaxVersion) /\ S # {} /\ MaxVersion \in Nat
  BY KeysAssumption DEF KeysAssumption, Live, KeyRow
<1>2. Max(S) \in 0..MaxVersion
  BY <1>1, MaxIsGreatest
<1>3. Max(S) + 1 \in Int
  BY <1>2
<1>4. QED
  BY <1>3, SafeVersion DEF nextHostKeyVersion

(* One version is above another, unless versions are used up.               *)
Newer(v, w) == v = MaxVersion \/ v > w

LEMMA SuccessorFacts ==
  ASSUME keys \in [Keys -> KeyRow], NEW own \in 0..MaxVersion
  PROVE  SuccessorVersion(own) \in 0..MaxVersion /\ Newer(SuccessorVersion(own), own)
<1> DEFINE S == {own + 1, nextHostKeyVersion}
<1>1. MaxVersion + 1 \in Nat /\ MaxVersion \in Nat /\ own \in Nat
  BY KeysAssumption DEF KeysAssumption
<1>2. S \in SUBSET (0..(MaxVersion + 1)) /\ S # {} /\ own + 1 \in S
  BY <1>1, NextVersionType
<1>3. Max(S) \in 0..(MaxVersion + 1) /\ Max(S) >= own + 1
  BY <1>1, <1>2, MaxIsGreatest
<1> HIDE DEF S
<1>4. Max(S) \in Int
  BY <1>3
<1>5. /\ toSafeVersion(Max(S)) \in 0..MaxVersion
      /\ toSafeVersion(Max(S)) = MaxVersion \/ toSafeVersion(Max(S)) >= Max(S)
  BY <1>4, SafeVersion
<1>6. SuccessorVersion(own) = toSafeVersion(Max(S))
  BY DEF SuccessorVersion, S
<1>7. QED
  BY <1>1, <1>3, <1>5, <1>6 DEF Newer

-----------------------------------------------------------------------------
(* What a step does to the keys                                             *)

(* A key keeps what it was created with.                                    *)
KeysStay ==
  \A k \in Keys : keys[k].live =>
    /\ keys'[k].live /\ keys'[k].version = keys[k].version
    /\ keys'[k].scopes = keys[k].scopes /\ keys'[k].expires = keys[k].expires
    /\ keys'[k].from = keys[k].from
    /\ keys[k].revoked => keys'[k].revoked

(* And a key that is not revoked by the step stays as active as it was.     *)
OnlyRevokes(S) ==
  \A k \in Keys \ S : keys[k].live => (keys'[k].revoked <=> keys[k].revoked)

KeysWritten == keys' \in [Keys -> KeyRow] /\ KeysStay

LEMMA Defaults ==
  Scopes \in ScopeSets /\ Never \in Expiries /\ 0 \in 0..MaxVersion
<1>1. Scopes # {} /\ MaxVersion \in Nat /\ MaxTime + 1 \in Expiries
  BY KeysAssumption DEF KeysAssumption
<1>2. Scopes \in ScopeSets
  BY <1>1 DEF ScopeSets
<1>3. QED
  BY <1>1, <1>2 DEF Never

LEMMA NoKeyTyped == NoKey \in KeyRow /\ ~NoKey.live
BY Defaults DEF NoKey, KeyRow

LEMMA NewKeyFacts ==
  ASSUME NEW version \in 0..MaxVersion, NEW scopes \in ScopeSets, NEW expires \in Expiries,
         NEW from \in Keys \cup {None}
  PROVE  LET row == NewKey(version, scopes, expires, from)
         IN /\ row \in KeyRow /\ row.live /\ ~row.revoked /\ row.version = version
            /\ row.expires = expires /\ row.from = from
BY NoKeyTyped DEF NewKey, KeyRow, NoKey

LEMMA SameKeys ==
  ASSUME keys \in [Keys -> KeyRow], UNCHANGED keys
  PROVE  KeysWritten /\ OnlyRevokes({}) /\ \A k \in Keys : keys'[k].live => keys[k].live
BY DEF KeysWritten, KeysStay, OnlyRevokes

LEMMA TouchFacts ==
  ASSUME keys \in [Keys -> KeyRow], NEW k \in Keys,
         keys' = [keys EXCEPT ![k] = Touched(keys[k])]
  PROVE  KeysWritten /\ OnlyRevokes({}) /\ \A q \in Keys : keys'[q].live => keys[q].live
<1> DEFINE row == Touched(keys[k])
<1>1. /\ row \in KeyRow /\ row.live = keys[k].live /\ row.version = keys[k].version
      /\ row.scopes = keys[k].scopes /\ row.expires = keys[k].expires
      /\ row.from = keys[k].from /\ row.revoked = keys[k].revoked
  BY DEF Touched, KeyRow
<1>2. keys' = [keys EXCEPT ![k] = row]
  OBVIOUS
<1> HIDE DEF row
<1>3. keys'[k] = row /\ (\A q \in Keys \ {k} : keys'[q] = keys[q]) /\ keys' \in [Keys -> KeyRow]
  BY <1>1, <1>2
<1>4. KeysStay
  BY <1>1, <1>3 DEF KeysStay
<1>5. OnlyRevokes({})
  BY <1>1, <1>3 DEF OnlyRevokes
<1>6. \A q \in Keys : keys'[q].live => keys[q].live
  BY <1>1, <1>3
<1>7. QED
  BY <1>3, <1>4, <1>5, <1>6 DEF KeysWritten

LEMMA RevokedFacts ==
  ASSUME keys \in [Keys -> KeyRow], NEW k \in Keys
  PROVE  LET row == Revoked(keys[k])
         IN /\ row \in KeyRow /\ row.live = keys[k].live /\ row.version = keys[k].version
            /\ row.scopes = keys[k].scopes /\ row.expires = keys[k].expires
            /\ row.from = keys[k].from /\ row.revoked
BY DEF Revoked, KeyRow

LEMMA RevokeFacts ==
  ASSUME keys \in [Keys -> KeyRow], NEW k \in Keys,
         keys' = [keys EXCEPT ![k] = Revoked(keys[k])]
  PROVE  KeysWritten /\ OnlyRevokes({k}) /\ \A q \in Keys : keys'[q].live => keys[q].live
<1> DEFINE row == Revoked(keys[k])
<1>1. /\ row \in KeyRow /\ row.live = keys[k].live /\ row.version = keys[k].version
      /\ row.scopes = keys[k].scopes /\ row.expires = keys[k].expires
      /\ row.from = keys[k].from /\ row.revoked
  BY RevokedFacts
<1>2. keys' = [keys EXCEPT ![k] = row]
  OBVIOUS
<1> HIDE DEF row
<1>3. keys'[k] = row /\ (\A q \in Keys \ {k} : keys'[q] = keys[q]) /\ keys' \in [Keys -> KeyRow]
  BY <1>1, <1>2
<1>4. KeysStay
  BY <1>1, <1>3 DEF KeysStay
<1>5. OnlyRevokes({k})
  BY <1>1, <1>3 DEF OnlyRevokes
<1>6. \A q \in Keys : keys'[q].live => keys[q].live
  BY <1>1, <1>3
<1>7. QED
  BY <1>3, <1>4, <1>5, <1>6 DEF KeysWritten

(* A key is created in a row that was free, with or without a source that   *)
(* is revoked at once.                                                      *)
LEMMA CreateFacts ==
  ASSUME keys \in [Keys -> KeyRow], NEW k \in Keys, ~keys[k].live, NEW row \in KeyRow,
         keys' = [keys EXCEPT ![k] = row]
  PROVE  /\ KeysWritten /\ OnlyRevokes({}) /\ keys'[k] = row
         /\ \A q \in Keys \ {k} : keys'[q].live => keys[q].live
<1>1. keys'[k] = row /\ (\A q \in Keys \ {k} : keys'[q] = keys[q]) /\ keys' \in [Keys -> KeyRow]
  OBVIOUS
<1>2. KeysStay
  BY <1>1 DEF KeysStay
<1>3. OnlyRevokes({})
  BY <1>1 DEF OnlyRevokes
<1>4. QED
  BY <1>1, <1>2, <1>3 DEF KeysWritten

LEMMA RotateFacts ==
  ASSUME keys \in [Keys -> KeyRow], NEW k \in Keys, ~keys[k].live, NEW row \in KeyRow,
         NEW src \in Keys, keys[src].live,
         keys' = [keys EXCEPT ![k] = row, ![src] = Revoked(keys[src])]
  PROVE  /\ KeysWritten /\ OnlyRevokes({src}) /\ keys'[k] = row
         /\ \A q \in Keys \ {k} : keys'[q].live => keys[q].live
<1> DEFINE old == Revoked(keys[src])
<1>1. /\ old \in KeyRow /\ old.live = keys[src].live /\ old.version = keys[src].version
      /\ old.scopes = keys[src].scopes /\ old.expires = keys[src].expires
      /\ old.from = keys[src].from /\ old.revoked
  BY RevokedFacts
<1>2. keys' = [keys EXCEPT ![k] = row, ![src] = old] /\ k # src
  OBVIOUS
<1> HIDE DEF old
<1>3. /\ keys'[k] = row /\ keys'[src] = old /\ keys' \in [Keys -> KeyRow]
      /\ \A q \in Keys \ {k, src} : keys'[q] = keys[q]
  BY <1>1, <1>2
<1>4. KeysStay
  BY <1>1, <1>2, <1>3 DEF KeysStay
<1>5. OnlyRevokes({src})
  BY <1>1, <1>3 DEF OnlyRevokes
<1>6. \A q \in Keys \ {k} : keys'[q].live => keys[q].live
  BY <1>1, <1>3
<1>7. QED
  BY <1>3, <1>4, <1>5, <1>6 DEF KeysWritten

-----------------------------------------------------------------------------
(* The administrators' calls                                                *)

(* What a call that is under way knows of its source.                       *)
AdminOk(call, table) ==
  /\ call.pc \in {"versions", "commit", "revoke"} => call.src \in Keys /\ table[call.src].live
  /\ call.pc = "versions" => call.version = table[call.src].version
  /\ call.pc = "commit" => Newer(call.version, table[call.src].version)
  /\ call.pc \in {"versions", "commit"} /\ ~call.given =>
       call.expires = table[call.src].expires

(* A key's source is a key, and an older one.                               *)
Lineage(table) ==
  \A k \in Keys : table[k].live /\ table[k].from # None =>
    /\ table[k].from \in Keys /\ table[table[k].from].live
    /\ Newer(table[k].version, table[table[k].from].version)

KeysInv == KeysTypeOK /\ Lineage(keys) /\ \A c \in Admins : AdminOk(adm[c], keys)

LEMMA AdminOkStays ==
  ASSUME KeysStay, NEW call, AdminOk(call, keys)
  PROVE  AdminOk(call, keys')
BY DEF AdminOk, KeysStay

LEMMA LineageStays ==
  ASSUME KeysStay, Lineage(keys), \A k \in Keys : keys'[k].live => keys[k].live
  PROVE  Lineage(keys')
BY DEF Lineage, KeysStay

LEMMA LineageGrows ==
  ASSUME KeysStay, Lineage(keys), NEW k \in Keys,
         \A q \in Keys \ {k} : keys'[q].live => keys[q].live,
         keys'[k].from # None =>
           /\ keys'[k].from \in Keys /\ keys[keys'[k].from].live
           /\ Newer(keys'[k].version, keys[keys'[k].from].version)
  PROVE  Lineage(keys')
<1>1. ASSUME NEW q \in Keys \ {k}, keys'[q].live, keys'[q].from # None
      PROVE  /\ keys'[q].from \in Keys /\ keys'[keys'[q].from].live
             /\ Newer(keys'[q].version, keys'[keys'[q].from].version)
  BY <1>1 DEF Lineage, KeysStay
<1>2. ASSUME keys'[k].live, keys'[k].from # None
      PROVE  /\ keys'[k].from \in Keys /\ keys'[keys'[k].from].live
             /\ Newer(keys'[k].version, keys'[keys'[k].from].version)
  BY <1>2 DEF KeysStay
<1>3. QED
  BY <1>1, <1>2 DEF Lineage

AdminEdited(c, rec) ==
  adm' \in [Admins -> AdminState] /\ adm'[c] = rec /\ \A d \in Admins \ {c} : adm'[d] = adm[d]

LEMMA AdminEdit ==
  ASSUME KeysTypeOK, NEW c \in Admins, NEW rec \in AdminState, adm' = [adm EXCEPT ![c] = rec]
  PROVE  AdminEdited(c, rec)
BY DEF KeysTypeOK, AdminEdited

LEMMA IdleAdminTyped == IdleAdmin \in AdminState /\ IdleAdmin.pc = "idle"
BY Defaults DEF IdleAdmin, AdminState

LEMMA BeginFacts ==
  ASSUME KeysTypeOK, Begin
  PROVE  calls' \in Nat /\ calls' # calls
BY DEF KeysTypeOK, Begin

LEMMA ScopesNormal ==
  ASSUME NEW S \in SUBSET Scopes
  PROVE  normalizeHostKeyScopes(S, Scopes) \in ScopeSets
BY Defaults DEF normalizeHostKeyScopes, ScopeSets

LEMMA BeginCreateFacts ==
  ASSUME KeysInv, NEW c \in Admins, BeginCreate(c)
  PROVE  /\ UNCHANGED <<keys, now>> /\ calls' \in Nat
         /\ \E rec \in AdminState : AdminEdited(c, rec) /\ AdminOk(rec, keys)
<1>1. PICK asked \in SUBSET Scopes, expires \in Expiries :
       adm' = [adm EXCEPT ![c] =
                 [IdleAdmin EXCEPT !.pc = "insert", !.version = nextHostKeyVersion,
                    !.scopes = normalizeHostKeyScopes(asked, Scopes),
                    !.expires = expires, !.given = TRUE]]
  BY DEF BeginCreate
<1> DEFINE version == nextHostKeyVersion
           scopes  == normalizeHostKeyScopes(asked, Scopes)
           given   == TRUE
<1>2. version \in 0..MaxVersion /\ scopes \in ScopeSets /\ given \in BOOLEAN
  BY NextVersionType, ScopesNormal DEF KeysInv, KeysTypeOK
<1>3. adm' = [adm EXCEPT ![c] = [IdleAdmin EXCEPT !.pc = "insert", !.version = version,
                    !.scopes = scopes, !.expires = expires, !.given = given]]
  BY <1>1
<1> HIDE DEF version, scopes, given
<1> DEFINE rec == [IdleAdmin EXCEPT !.pc = "insert", !.version = version,
                    !.scopes = scopes, !.expires = expires, !.given = given]
<1>4. rec \in AdminState /\ rec.pc = "insert"
  BY <1>2, IdleAdminTyped DEF AdminState
<1>5. adm' = [adm EXCEPT ![c] = rec]
  BY <1>3
<1> HIDE DEF rec
<1>6. AdminEdited(c, rec)
  BY <1>4, <1>5, AdminEdit DEF KeysInv
<1>7. AdminOk(rec, keys)
  BY <1>4 DEF AdminOk
<1>8. UNCHANGED <<keys, now>> /\ calls' \in Nat
  BY BeginFacts DEF BeginCreate, KeysInv
<1>9. QED
  BY <1>4, <1>6, <1>7, <1>8

LEMMA InsertKeyFacts ==
  ASSUME KeysInv, NEW c \in Admins, InsertKey(c)
  PROVE  /\ UNCHANGED <<now, calls>> /\ AdminEdited(c, IdleAdmin)
         /\ KeysWritten /\ OnlyRevokes({}) /\ Lineage(keys')
<1>1. UNCHANGED <<now, calls>> /\ AdminEdited(c, IdleAdmin)
  BY AdminEdit, IdleAdminTyped DEF InsertKey, KeysInv
<1>2. keys \in [Keys -> KeyRow] /\ adm[c] \in AdminState
  BY DEF KeysInv, KeysTypeOK
<1> DEFINE row == NewKey(adm[c].version, adm[c].scopes, adm[c].expires, None)
<1>3. PICK k \in Keys \ Live : keys' = [keys EXCEPT ![k] = row]
  BY DEF InsertKey
<1>4. row \in KeyRow /\ row.from = None
  BY <1>2, NewKeyFacts DEF AdminState
<1> HIDE DEF row
<1>5. ~keys[k].live
  BY DEF Live
<1>6. /\ KeysWritten /\ OnlyRevokes({}) /\ keys'[k] = row
      /\ \A q \in Keys \ {k} : keys'[q].live => keys[q].live
  BY <1>2, <1>3, <1>4, <1>5, CreateFacts
<1>7. Lineage(keys')
  BY <1>4, <1>6, LineageGrows DEF KeysWritten, KeysInv
<1>8. QED
  BY <1>1, <1>6, <1>7

LEMMA BeginRotateFacts ==
  ASSUME KeysInv, NEW c \in Admins, BeginRotate(c)
  PROVE  /\ UNCHANGED <<keys, now>> /\ calls' \in Nat
         /\ \E rec \in AdminState : AdminEdited(c, rec) /\ AdminOk(rec, keys)
<1>1. PICK src \in Live, asked \in SUBSET Scopes, explicit \in BOOLEAN,
           expires \in Expiries, given \in BOOLEAN :
       adm' = [adm EXCEPT ![c] =
                 [pc |-> "versions", src |-> src, version |-> keys[src].version,
                  scopes |-> IF explicit THEN normalizeHostKeyScopes(asked, Scopes)
                             ELSE keys[src].scopes,
                  expires |-> IF given THEN expires ELSE keys[src].expires,
                  given |-> given]]
  BY DEF BeginRotate
<1>2. src \in Keys /\ keys[src].live /\ keys[src] \in KeyRow
  BY DEF Live, KeysInv, KeysTypeOK
<1> DEFINE scopes == IF explicit THEN normalizeHostKeyScopes(asked, Scopes)
                     ELSE keys[src].scopes
           expiry == IF given THEN expires ELSE keys[src].expires
<1>3. /\ scopes \in ScopeSets /\ expiry \in Expiries
      /\ ~given => expiry = keys[src].expires
  BY <1>2, ScopesNormal DEF KeyRow
<1>4. keys[src].version \in 0..MaxVersion
  BY <1>2 DEF KeyRow
<1> HIDE DEF scopes, expiry
<1> DEFINE rec == [pc |-> "versions", src |-> src, version |-> keys[src].version,
                   scopes |-> scopes, expires |-> expiry, given |-> given]
<1>5. /\ rec \in AdminState /\ rec.pc = "versions" /\ rec.src = src /\ rec.given = given
      /\ rec.version = keys[src].version /\ rec.expires = expiry
  BY <1>2, <1>3, <1>4 DEF AdminState
<1>6. adm' = [adm EXCEPT ![c] = rec]
  BY <1>1 DEF scopes, expiry
<1> HIDE DEF rec
<1>7. AdminEdited(c, rec)
  BY <1>5, <1>6, AdminEdit DEF KeysInv
<1>8. AdminOk(rec, keys)
  BY <1>2, <1>3, <1>5 DEF AdminOk
<1>9. UNCHANGED <<keys, now>> /\ calls' \in Nat
  BY BeginFacts DEF BeginRotate, KeysInv
<1>10. QED
  BY <1>5, <1>7, <1>8, <1>9

LEMMA ReadVersionsFacts ==
  ASSUME KeysInv, NEW c \in Admins, ReadVersions(c)
  PROVE  /\ UNCHANGED <<keys, now, calls>>
         /\ \E rec \in AdminState : AdminEdited(c, rec) /\ AdminOk(rec, keys)
<1>1. adm \in [Admins -> AdminState] /\ adm[c] \in AdminState /\ adm[c].pc = "versions"
  BY DEF ReadVersions, KeysInv, KeysTypeOK
<1>2. AdminOk(adm[c], keys)
  BY DEF KeysInv
<1> DEFINE version == SuccessorVersion(adm[c].version)
           rec     == [adm[c] EXCEPT !.pc = "commit", !.version = version]
<1>3. version \in 0..MaxVersion /\ Newer(version, adm[c].version)
  BY <1>1, SuccessorFacts DEF AdminState, KeysInv, KeysTypeOK
<1>4. adm' = [adm EXCEPT ![c] = rec]
  BY <1>1 DEF ReadVersions
<1> HIDE DEF version
<1>5. /\ rec \in AdminState /\ rec.pc = "commit" /\ rec.src = adm[c].src
      /\ rec.version = version /\ rec.expires = adm[c].expires /\ rec.given = adm[c].given
  BY <1>1, <1>3 DEF AdminState
<1> HIDE DEF rec
<1>6. AdminEdited(c, rec)
  BY <1>4, <1>5, AdminEdit DEF KeysInv
<1>7. AdminOk(rec, keys)
  BY <1>1, <1>2, <1>3, <1>5 DEF AdminOk
<1>8. QED
  BY <1>5, <1>6, <1>7 DEF ReadVersions

LEMMA CommitFacts ==
  ASSUME KeysInv, NEW c \in Admins, CommitRotation(c)
  PROVE  /\ UNCHANGED <<now, calls>> /\ AdminEdited(c, IdleAdmin) /\ adm[c].pc = "commit"
         /\ KeysWritten /\ OnlyRevokes({adm[c].src}) /\ Lineage(keys')
         /\ \E k \in Keys : /\ keys'[k].live /\ ~keys'[k].revoked
                             /\ keys'[k].expires = adm[c].expires
<1>1. UNCHANGED <<now, calls>> /\ AdminEdited(c, IdleAdmin) /\ adm[c].pc = "commit"
  BY AdminEdit, IdleAdminTyped DEF CommitRotation, KeysInv
<1>2. keys \in [Keys -> KeyRow] /\ adm[c] \in AdminState
  BY DEF KeysInv, KeysTypeOK
<1>3. /\ adm[c].src \in Keys /\ keys[adm[c].src].live
      /\ Newer(adm[c].version, keys[adm[c].src].version)
  BY <1>1 DEF KeysInv, AdminOk
<1> DEFINE row == NewKey(adm[c].version, adm[c].scopes, adm[c].expires, adm[c].src)
<1>4. PICK k \in Keys \ Live :
        keys' = [keys EXCEPT ![k] = row, ![adm[c].src] = Revoked(keys[adm[c].src])]
  BY DEF CommitRotation
<1>5. /\ row \in KeyRow /\ row.live /\ ~row.revoked /\ row.version = adm[c].version
      /\ row.expires = adm[c].expires /\ row.from = adm[c].src
  BY <1>2, NewKeyFacts DEF AdminState
<1> HIDE DEF row
<1>6. ~keys[k].live
  BY DEF Live
<1>7. /\ KeysWritten /\ OnlyRevokes({adm[c].src}) /\ keys'[k] = row
      /\ \A q \in Keys \ {k} : keys'[q].live => keys[q].live
  BY <1>2, <1>3, <1>4, <1>5, <1>6, RotateFacts
<1>8. Lineage(keys')
  BY <1>3, <1>5, <1>7, LineageGrows DEF KeysWritten, KeysInv
<1>9. QED
  BY <1>1, <1>5, <1>7, <1>8

LEMMA BeginRevokeFacts ==
  ASSUME KeysInv, NEW c \in Admins, BeginRevoke(c)
  PROVE  /\ UNCHANGED <<keys, now>> /\ calls' \in Nat
         /\ \/ UNCHANGED adm
            \/ \E rec \in AdminState : AdminEdited(c, rec) /\ AdminOk(rec, keys)
<1>1. PICK k \in Live :
        adm' = IF keys[k].revoked THEN adm
               ELSE [adm EXCEPT ![c] = [IdleAdmin EXCEPT !.pc = "revoke", !.src = k]]
  BY DEF BeginRevoke
<1> DEFINE rec == [IdleAdmin EXCEPT !.pc = "revoke", !.src = k]
<1>2. k \in Keys /\ keys[k].live
  BY DEF Live
<1>3. rec \in AdminState /\ rec.pc = "revoke" /\ rec.src = k
  BY <1>2, IdleAdminTyped DEF AdminState
<1>4. adm' = adm \/ adm' = [adm EXCEPT ![c] = rec]
  BY <1>1
<1> HIDE DEF rec
<1>5. adm' = adm \/ AdminEdited(c, rec)
  BY <1>3, <1>4, AdminEdit DEF KeysInv
<1>6. AdminOk(rec, keys)
  BY <1>2, <1>3 DEF AdminOk
<1>7. UNCHANGED <<keys, now>> /\ calls' \in Nat
  BY BeginFacts DEF BeginRevoke, KeysInv
<1>8. QED
  BY <1>3, <1>5, <1>6, <1>7

LEMMA RevokeCallFacts ==
  ASSUME KeysInv, NEW c \in Admins, Revoke(c)
  PROVE  /\ UNCHANGED <<now, calls>> /\ AdminEdited(c, IdleAdmin) /\ adm[c].pc = "revoke"
         /\ KeysWritten /\ Lineage(keys')
<1>1. UNCHANGED <<now, calls>> /\ AdminEdited(c, IdleAdmin) /\ adm[c].pc = "revoke"
  BY AdminEdit, IdleAdminTyped DEF Revoke, KeysInv
<1>2. adm[c].src \in Keys /\ keys \in [Keys -> KeyRow]
  BY <1>1 DEF KeysInv, KeysTypeOK, AdminOk
<1>3. KeysWritten /\ \A q \in Keys : keys'[q].live => keys[q].live
  BY <1>2, RevokeFacts DEF Revoke
<1>4. QED
  BY <1>1, <1>3, LineageStays DEF KeysInv, KeysWritten

LEMMA AdminsEdited ==
  ASSUME KeysInv, KeysStay, NEW c \in Admins, NEW rec, AdminEdited(c, rec), AdminOk(rec, keys)
  PROVE  adm' \in [Admins -> AdminState] /\ \A d \in Admins : AdminOk(adm'[d], keys')
<1>1. /\ adm' \in [Admins -> AdminState] /\ adm'[c] = rec
      /\ \A d \in Admins \ {c} : adm'[d] = adm[d]
  BY DEF AdminEdited
<1>2. ASSUME NEW d \in Admins PROVE AdminOk(adm'[d], keys)
  BY <1>1 DEF KeysInv
<1>3. QED
  BY <1>1, <1>2, AdminOkStays

LEMMA AdminsStay ==
  ASSUME KeysInv, KeysStay, UNCHANGED adm
  PROVE  adm' \in [Admins -> AdminState] /\ \A d \in Admins : AdminOk(adm'[d], keys')
BY AdminOkStays DEF KeysInv, KeysTypeOK

LEMMA IdleAdminOk == ASSUME NEW table PROVE AdminOk(IdleAdmin, table)
BY IdleAdminTyped DEF AdminOk

LEMMA AdminStepFacts ==
  ASSUME KeysInv, NEW c \in Admins, AdminStep(c)
  PROVE  KeysInv' /\ KeysWritten /\ UNCHANGED now
<1> DEFINE AdminsOk == adm' \in [Admins -> AdminState] /\ \A d \in Admins : AdminOk(adm'[d], keys')
<1>1. SUFFICES /\ KeysWritten /\ UNCHANGED now /\ calls' \in Nat
               /\ AdminsOk /\ Lineage(keys')
  BY DEF KeysInv, KeysTypeOK, KeysWritten
<1>2. keys \in [Keys -> KeyRow] /\ calls \in Nat
  BY DEF KeysInv, KeysTypeOK
<1>3. ASSUME UNCHANGED keys PROVE KeysWritten /\ KeysStay /\ Lineage(keys')
  <2>1. KeysWritten /\ \A k \in Keys : keys'[k].live => keys[k].live
    BY <1>2, <1>3, SameKeys
  <2>2. QED
    BY <2>1, LineageStays DEF KeysInv, KeysWritten
<1>4. CASE BeginCreate(c)
  BY <1>3, <1>4, BeginCreateFacts, AdminsEdited
<1>5. CASE InsertKey(c)
  BY <1>2, <1>5, InsertKeyFacts, AdminsEdited, IdleAdminOk DEF KeysWritten
<1>6. CASE BeginRotate(c)
  BY <1>3, <1>6, BeginRotateFacts, AdminsEdited
<1>7. CASE ReadVersions(c)
  BY <1>2, <1>3, <1>7, ReadVersionsFacts, AdminsEdited
<1>8. CASE CommitRotation(c)
  BY <1>2, <1>8, CommitFacts, AdminsEdited, IdleAdminOk DEF KeysWritten
<1>9. CASE BeginRevoke(c)
  BY <1>3, <1>9, BeginRevokeFacts, AdminsEdited, AdminsStay
<1>10. CASE Revoke(c)
  BY <1>2, <1>10, RevokeCallFacts, AdminsEdited, IdleAdminOk DEF KeysWritten
<1>11. QED
  BY <1>4, <1>5, <1>6, <1>7, <1>8, <1>9, <1>10 DEF AdminStep

(* The use of a key is noted, or nothing is done to the keys.               *)
LEMMA KeysOnlyTouched ==
  ASSUME KeysInv, UNCHANGED adm, now' \in 0..MaxTime, calls' \in Nat,
         \/ UNCHANGED keys
         \/ \E k \in Keys : keys' = [keys EXCEPT ![k] = Touched(keys[k])]
  PROVE  KeysInv' /\ KeysWritten /\ OnlyRevokes({})
<1>1. keys \in [Keys -> KeyRow]
  BY DEF KeysInv, KeysTypeOK
<1>2. KeysWritten /\ OnlyRevokes({}) /\ \A k \in Keys : keys'[k].live => keys[k].live
  BY <1>1, SameKeys, TouchFacts
<1>3. Lineage(keys')
  BY <1>2, LineageStays DEF KeysInv, KeysWritten
<1>4. adm' \in [Admins -> AdminState] /\ \A d \in Admins : AdminOk(adm'[d], keys')
  BY <1>2, AdminsStay DEF KeysWritten
<1>5. QED
  BY <1>2, <1>3, <1>4 DEF KeysInv, KeysTypeOK, KeysWritten

-----------------------------------------------------------------------------
(* The ingests                                                              *)

(* A call that is under way has a snapshot, and a key that is not deleted.  *)
IngestOk(call, table) ==
  /\ call.pc # "idle" => /\ call.key \in Keys /\ table[call.key].live
                          /\ call.msg \in Msgs
  /\ call.pc # "write" => ~call.alone

LedgerTypeOK ==
  /\ stored \in Seq(Msgs)
  /\ breach \in [Breaches -> BreachRow]
  /\ ing \in [Ingests -> IngestState]
  /\ seen \in 0..NeverSeen
  /\ reopened \subseteq Breaches

TypeInv ==
  /\ KeysInv /\ LedgerTypeOK
  /\ \A i \in Ingests : IngestOk(ing[i], keys)

LEMMA IngestOkStays ==
  ASSUME KeysStay, NEW call, IngestOk(call, keys)
  PROVE  IngestOk(call, keys')
BY DEF IngestOk, KeysStay

LEMMA IdleIngestTyped ==
  IdleIngest \in IngestState /\ IdleIngest.pc = "idle" /\ ~IdleIngest.alone
  /\ IdleIngest.todo = {} /\ \A table : IngestOk(IdleIngest, table)
BY DEF IdleIngest, IngestState, IngestOk

IngestEdited(i, rec) ==
  /\ ing' \in [Ingests -> IngestState] /\ ing'[i] = rec
  /\ \A j \in Ingests \ {i} : ing'[j] = ing[j]

LEMMA IngestEdit ==
  ASSUME LedgerTypeOK, NEW i \in Ingests, NEW rec \in IngestState,
         ing' = [ing EXCEPT ![i] = rec]
  PROVE  IngestEdited(i, rec)
BY DEF LedgerTypeOK, IngestEdited

LEMMA AuthenticateFacts ==
  ASSUME TypeInv, NEW i \in Ingests, Authenticate(i)
  PROVE  /\ UNCHANGED <<keys, adm, now, stored, breach, seen, reopened>>
         /\ calls' \in Nat /\ calls' # calls /\ ing[i].pc = "idle"
         /\ \E rec \in IngestState : /\ IngestEdited(i, rec) /\ IngestOk(rec, keys)
                                     /\ rec.pc = "latest" /\ rec.todo = {}
<1>1. PICK k \in Keys, m \in Msgs :
       /\ Verified(k, WriteScope)
       /\ ing' = [ing EXCEPT ![i] = [IdleIngest EXCEPT !.pc = "latest", !.key = k, !.msg = m]]
  BY DEF Authenticate
<1> DEFINE rec == [IdleIngest EXCEPT !.pc = "latest", !.key = k, !.msg = m]
<1>2. /\ rec \in IngestState /\ rec.pc = "latest" /\ rec.key = k /\ rec.msg = m
      /\ rec.todo = {} /\ ~rec.alone
  BY DEF IdleIngest, IngestState
<1>3. keys[k].live
  BY <1>1 DEF Verified, ActiveKey
<1>4. ing' = [ing EXCEPT ![i] = rec]
  BY <1>1
<1> HIDE DEF rec
<1>5. IngestEdited(i, rec)
  BY <1>2, <1>4, IngestEdit DEF TypeInv
<1>6. IngestOk(rec, keys)
  BY <1>2, <1>3 DEF IngestOk
<1>7. calls' \in Nat /\ calls' # calls
  BY BeginFacts DEF Authenticate, TypeInv, KeysInv
<1>8. QED
  BY <1>2, <1>5, <1>6, <1>7 DEF Authenticate

LEMMA ReadLatestFacts ==
  ASSUME TypeInv, NEW i \in Ingests, ReadLatest(i)
  PROVE  /\ UNCHANGED <<keys, adm, now, calls, stored, breach, seen, reopened>>
         /\ ing[i].pc = "latest"
         /\ \E rec \in IngestState :
              /\ IngestEdited(i, rec) /\ IngestOk(rec, keys) /\ rec.todo = ing[i].todo
              /\ rec.msg = ing[i].msg
              /\ rec.pc = (IF Duplicate(ing[i].msg) THEN "duplicate" ELSE "store")
<1>1. /\ ing \in [Ingests -> IngestState] /\ ing[i] \in IngestState /\ ing[i].pc = "latest"
      /\ IngestOk(ing[i], keys)
  BY DEF ReadLatest, TypeInv, LedgerTypeOK
<1> DEFINE pc  == IF Duplicate(ing[i].msg) THEN "duplicate" ELSE "store"
           rec == [ing[i] EXCEPT !.pc = pc]
<1>2. pc \in {"duplicate", "store"}
  OBVIOUS
<1>3. ing' = [ing EXCEPT ![i] = rec]
  BY <1>1 DEF ReadLatest
<1> HIDE DEF pc
<1>4. /\ rec \in IngestState /\ rec.pc = pc /\ rec.key = ing[i].key /\ rec.msg = ing[i].msg
      /\ rec.todo = ing[i].todo /\ rec.alone = ing[i].alone
  BY <1>1, <1>2 DEF IngestState
<1> HIDE DEF rec
<1>5. IngestEdited(i, rec)
  BY <1>3, <1>4, IngestEdit DEF TypeInv
<1>6. IngestOk(rec, keys)
  BY <1>1, <1>2, <1>4 DEF IngestOk
<1>7. QED
  BY <1>1, <1>4, <1>5, <1>6 DEF ReadLatest, pc

LEMMA NowTyped ==
  ASSUME TypeInv
  PROVE  now \in 0..MaxTime /\ now \in Nat /\ MaxTime \in Nat /\ now \in 0..NeverSeen
         /\ calls \in Nat
BY KeysAssumption DEF KeysAssumption, TypeInv, KeysInv, KeysTypeOK, NeverSeen

LEMMA DropFacts ==
  ASSUME TypeInv, NEW i \in Ingests, DropDuplicate(i)
  PROVE  /\ UNCHANGED <<adm, now, calls, stored, breach, reopened>> /\ seen' = now
         /\ \E k \in Keys : keys' = [keys EXCEPT ![k] = Touched(keys[k])]
         /\ IngestEdited(i, IdleIngest) /\ ing[i].pc = "duplicate"
<1>1. ing[i].key \in Keys
  BY DEF DropDuplicate, TypeInv, IngestOk
<1>2. IngestEdited(i, IdleIngest)
  BY IngestEdit, IdleIngestTyped DEF DropDuplicate, TypeInv
<1>3. QED
  BY <1>1, <1>2 DEF DropDuplicate, NoteContact

LEMMA StoreFacts ==
  ASSUME TypeInv, NEW i \in Ingests, Store(i)
  PROVE  /\ UNCHANGED <<adm, now, calls, breach, reopened>> /\ seen' = now
         /\ \E k \in Keys : keys' = [keys EXCEPT ![k] = Touched(keys[k])]
         /\ ing[i].pc = "store" /\ ing[i].msg \in Msgs
         /\ stored' = Append(stored, ing[i].msg) /\ stored' \in Seq(Msgs)
         /\ \E rec \in IngestState : /\ IngestEdited(i, rec) /\ IngestOk(rec, keys)
                                     /\ rec.pc = "ledger" /\ rec.todo = ing[i].todo
<1>1. /\ ing \in [Ingests -> IngestState] /\ ing[i] \in IngestState /\ ing[i].pc = "store"
      /\ IngestOk(ing[i], keys)
  BY DEF Store, TypeInv, LedgerTypeOK
<1>2. ing[i].key \in Keys /\ ing[i].msg \in Msgs
  BY <1>1 DEF IngestOk
<1> DEFINE rec == [ing[i] EXCEPT !.pc = "ledger"]
<1>3. /\ rec \in IngestState /\ rec.pc = "ledger" /\ rec.key = ing[i].key
      /\ rec.msg = ing[i].msg /\ rec.todo = ing[i].todo /\ rec.alone = ing[i].alone
  BY <1>1 DEF IngestState
<1>4. ing' = [ing EXCEPT ![i] = rec]
  BY <1>1 DEF Store
<1> HIDE DEF rec
<1>5. IngestEdited(i, rec)
  BY <1>3, <1>4, IngestEdit DEF TypeInv
<1>6. IngestOk(rec, keys)
  BY <1>1, <1>3 DEF IngestOk
<1>7. stored' = Append(stored, ing[i].msg) /\ stored' \in Seq(Msgs)
  BY <1>2 DEF Store, TypeInv, LedgerTypeOK
<1>8. QED
  BY <1>1, <1>2, <1>3, <1>5, <1>6, <1>7 DEF Store, NoteContact

-----------------------------------------------------------------------------
(* What a reconciliation decides                                            *)

CreateOf(s)    == [kind |-> "create", signal |-> s]
UpdateOf(s, b) == [kind |-> "update", signal |-> s, row |-> b]
FixOf(s, b)    == [kind |-> "fix", signal |-> s, row |-> b]

LEMMA WriteTypes ==
  ASSUME NEW s \in Signals, NEW b \in Breaches
  PROVE  /\ CreateOf(s) \in Writes /\ CreateOf(s).kind = "create" /\ CreateOf(s).signal = s
         /\ UpdateOf(s, b) \in Writes /\ UpdateOf(s, b).kind = "update"
         /\ UpdateOf(s, b).signal = s /\ UpdateOf(s, b).row = b
         /\ FixOf(s, b) \in Writes /\ FixOf(s, b).kind = "fix"
         /\ FixOf(s, b).signal = s /\ FixOf(s, b).row = b
BY DEF CreateOf, UpdateOf, FixOf, Writes

LEMMA CreateType ==
  ASSUME NEW s \in Signals
  PROVE  CreateOf(s) \in Writes /\ CreateOf(s).kind = "create" /\ CreateOf(s).signal = s
BY DEF CreateOf, Writes

LEMMA WriteShape ==
  ASSUME NEW x \in Writes
  PROVE  /\ x.signal \in Signals /\ x.kind \in {"create", "update", "fix"}
         /\ x.kind \in {"update", "fix"} => x.row \in Breaches
BY DEF Writes

(* The ledger says of a signal what the snapshot says.                      *)
Settled(table, s, m) ==
  LET open == {b \in Breaches : table[b].state = "open" /\ table[b].auto /\ table[b].signal = s}
  IN IF Level[m][s] = 0 THEN open = {}
     ELSE open # {} \/ \E b \in Breaches : /\ table[b].state = "ignored" /\ table[b].auto
                                          /\ table[b].signal = s

LEMMA SettledMeaning ==
  ASSUME NEW s, NEW m
  PROVE  Settled(breach, s, m) <=>
           IF Level[m][s] = 0 THEN OpenRows(s) = {} ELSE Ignored(s) \/ OpenRows(s) # {}
BY DEF Settled, OpenRows, Ignored, Managed

(* A write that has been decided on fits the ledger it was decided on.      *)
Planned(x, m) ==
  /\ x.kind = "create" => Level[m][x.signal] # 0 /\ OpenRows(x.signal) = {}
  /\ x.kind = "update" => Level[m][x.signal] # 0 /\ x.row \in OpenRows(x.signal)
  /\ x.kind = "fix" => Level[m][x.signal] = 0 /\ x.row \in OpenRows(x.signal)

LEMMA LevelType ==
  ASSUME NEW m \in Msgs, NEW s \in Signals
  PROVE  Level[m][s] \in Nat /\ Level[m][s] \in Levels
BY TelemetryAssumption DEF TelemetryAssumption, Levels

LEMMA DecisionFacts ==
  ASSUME NEW m \in Msgs, NEW s \in Signals, NEW W \in WritesFor(s, m)
  PROVE  /\ W \in SUBSET Writes
         /\ \A x \in W : x.signal = s /\ Planned(x, m)
         /\ \A x, y \in W : x = y
         /\ W = {} => Settled(breach, s, m)
<1>1. Level[m][s] \in Nat
  BY LevelType
<1>2. CASE OpenRows(s) = {}
  <2>1. W = IF Level[m][s] > 0 /\ ~Ignored(s) THEN {CreateOf(s)} ELSE {}
    BY <1>2 DEF WritesFor, CreateOf
  <2>2. CASE Level[m][s] > 0 /\ ~Ignored(s)
    <3>1. Planned(CreateOf(s), m)
      BY <1>1, <1>2, <2>2, CreateType DEF Planned
    <3>2. QED
      BY <2>1, <2>2, <3>1, CreateType
  <2>3. CASE ~(Level[m][s] > 0 /\ ~Ignored(s))
    <3>1. Settled(breach, s, m)
      BY <1>1, <1>2, <2>3, SettledMeaning
    <3>2. QED
      BY <2>1, <2>3, <3>1
  <2>4. QED
    BY <2>2, <2>3
<1>3. CASE OpenRows(s) # {}
  <2>1. PICK b \in LatestOf(OpenRows(s)) :
          W = IF Level[m][s] = 0 THEN {FixOf(s, b)}
              ELSE IF Ignored(s) \/ breach[b].level = Level[m][s] THEN {}
              ELSE {UpdateOf(s, b)}
    BY <1>3 DEF WritesFor, FixOf, UpdateOf
  <2>2. b \in OpenRows(s) /\ b \in Breaches
    BY DEF LatestOf, OpenRows
  <2>3. CASE Level[m][s] = 0
    <3>1. Planned(FixOf(s, b), m)
      BY <2>2, <2>3, WriteTypes DEF Planned
    <3>2. QED
      BY <2>1, <2>2, <2>3, <3>1, WriteTypes
  <2>4. CASE Level[m][s] # 0 /\ (Ignored(s) \/ breach[b].level = Level[m][s])
    <3>1. Settled(breach, s, m)
      BY <1>3, <2>4, SettledMeaning
    <3>2. QED
      BY <2>1, <2>4, <3>1
  <2>5. CASE Level[m][s] # 0 /\ ~(Ignored(s) \/ breach[b].level = Level[m][s])
    <3>1. Planned(UpdateOf(s, b), m)
      BY <2>2, <2>5, WriteTypes DEF Planned
    <3>2. QED
      BY <2>1, <2>2, <2>5, <3>1, WriteTypes
  <2>6. QED
    BY <2>3, <2>4, <2>5
<1>4. QED
  BY <1>2, <1>3

(* What is to be done for a snapshot, over all signals.                     *)
PlanOf(todo, m) ==
  /\ \A x \in todo : Planned(x, m)
  /\ \A x, y \in todo : x.signal = y.signal => x = y
  /\ \A s \in Signals : (\A x \in todo : x.signal # s) => Settled(breach, s, m)

LEMMA PlanFacts ==
  ASSUME NEW m \in Msgs, NEW choice,
         \A s \in Signals : choice[s] \in WritesFor(s, m)
  PROVE  LET todo == UNION {choice[s] : s \in Signals}
         IN todo \in SUBSET Writes /\ PlanOf(todo, m)
<1> DEFINE todo == UNION {choice[s] : s \in Signals}
<1>1. ASSUME NEW s \in Signals
      PROVE  /\ choice[s] \in SUBSET Writes
             /\ \A x \in choice[s] : x.signal = s /\ Planned(x, m)
             /\ \A x, y \in choice[s] : x = y
             /\ choice[s] = {} => Settled(breach, s, m)
  BY DecisionFacts
<1>2. ASSUME NEW x \in todo
      PROVE  /\ x \in Writes /\ Planned(x, m)
             /\ x.signal \in Signals /\ x \in choice[x.signal]
  <2>1. PICK s \in Signals : x \in choice[s]
    OBVIOUS
  <2>2. QED
    BY <1>1, <2>1
<1>3. ASSUME NEW x \in todo, NEW y \in todo, x.signal = y.signal PROVE x = y
  <2>1. x \in choice[x.signal] /\ y \in choice[x.signal] /\ x.signal \in Signals
    BY <1>2, <1>3
  <2>2. QED
    BY <1>1, <2>1
<1>4. ASSUME NEW s \in Signals, \A x \in todo : x.signal # s PROVE Settled(breach, s, m)
  <2>1. choice[s] = {}
    BY <1>1, <1>4
  <2>2. QED
    BY <1>1, <2>1
<1>5. todo \in SUBSET Writes
  BY <1>2
<1> HIDE DEF todo
<1>6. PlanOf(todo, m)
  BY <1>2, <1>3, <1>4 DEF PlanOf
<1>7. QED
  BY <1>5, <1>6 DEF todo

LEMMA ReadLedgerFacts ==
  ASSUME TypeInv, NEW i \in Ingests, ReadLedger(i)
  PROVE  /\ UNCHANGED <<keys, adm, now, calls, stored, breach, seen, reopened>>
         /\ ing[i].pc = "ledger" /\ ing[i].msg \in Msgs
         /\ \E todo \in SUBSET Writes, rec \in IngestState :
              /\ PlanOf(todo, ing[i].msg) /\ IngestEdited(i, rec) /\ IngestOk(rec, keys)
              /\ IF todo = {} THEN rec = IdleIngest
                 ELSE /\ rec.pc = "write" /\ rec.todo = todo /\ rec.msg = ing[i].msg
                      /\ rec.alone = Alone(i)
<1>1. /\ ing \in [Ingests -> IngestState] /\ ing[i] \in IngestState /\ ing[i].pc = "ledger"
      /\ IngestOk(ing[i], keys)
  BY DEF ReadLedger, TypeInv, LedgerTypeOK
<1>2. ing[i].msg \in Msgs
  BY <1>1 DEF IngestOk
<1>3. PICK choice \in [Signals -> UNION {WritesFor(s, ing[i].msg) : s \in Signals}] :
       /\ \A s \in Signals : choice[s] \in WritesFor(s, ing[i].msg)
       /\ LET todo == UNION {choice[s] : s \in Signals}
          IN ing' = [ing EXCEPT ![i] =
               IF todo = {} THEN IdleIngest
               ELSE [@ EXCEPT !.pc = "write", !.todo = todo, !.alone = Alone(i)]]
  BY Zenon DEF ReadLedger
<1> DEFINE todo  == UNION {choice[s] : s \in Signals}
           alone == Alone(i)
           full  == [ing[i] EXCEPT !.pc = "write", !.todo = todo, !.alone = alone]
           rec   == IF todo = {} THEN IdleIngest ELSE full
<1>4. todo \in SUBSET Writes /\ PlanOf(todo, ing[i].msg)
  BY <1>2, <1>3, PlanFacts
<1>5. alone \in BOOLEAN
  BY DEF Alone
<1>6. ing' = [ing EXCEPT ![i] = rec]
  BY <1>1, <1>3
<1> HIDE DEF todo, alone
<1>7. /\ full \in IngestState /\ full.pc = "write" /\ full.key = ing[i].key
      /\ full.msg = ing[i].msg /\ full.todo = todo /\ full.alone = alone
  BY <1>1, <1>4, <1>5 DEF IngestState
<1> HIDE DEF full
<1>8. rec \in IngestState /\ IngestOk(rec, keys)
  BY <1>1, <1>7, IdleIngestTyped DEF IngestOk
<1>9. /\ todo = {} => rec = IdleIngest
      /\ todo # {} => rec = full
  OBVIOUS
<1> HIDE DEF rec
<1>10. IngestEdited(i, rec)
  BY <1>6, <1>8, IngestEdit DEF TypeInv
<1>11. QED
  BY <1>1, <1>2, <1>4, <1>7, <1>8, <1>9, <1>10 DEF ReadLedger, alone

-----------------------------------------------------------------------------
(* What is written                                                          *)

BreachEdited(b, row) ==
  /\ breach' \in [Breaches -> BreachRow] /\ breach'[b] = row
  /\ \A c \in Breaches \ {b} : breach'[c] = breach[c]

LEMMA BreachEdit ==
  ASSUME LedgerTypeOK, NEW b \in Breaches, NEW row \in BreachRow,
         breach' = [breach EXCEPT ![b] = row]
  PROVE  BreachEdited(b, row)
BY DEF LedgerTypeOK, BreachEdited

SameKind(row, old) == row.auto = old.auto /\ row.signal = old.signal

LEMMA ApplyFacts ==
  ASSUME TypeInv, NEW x \in Writes, NEW m \in Msgs, Apply(x, m)
  PROVE  \E b \in Breaches, row \in BreachRow :
           /\ BreachEdited(b, row)
           /\ \/ /\ x.kind = "create" /\ breach[b].state = "absent"
                 /\ row.state = "open" /\ row.auto /\ row.signal = x.signal
              \/ /\ x.kind = "update" /\ b = x.row /\ row.state = breach[b].state
                 /\ SameKind(row, breach[b])
              \/ /\ x.kind = "fix" /\ b = x.row /\ row.state = "fixed"
                 /\ SameKind(row, breach[b])
<1>1. /\ x.signal \in Signals
      /\ x.kind \in {"update", "fix"} => x.row \in Breaches /\ breach[x.row] \in BreachRow
      /\ breach \in [Breaches -> BreachRow]
  BY WriteShape DEF TypeInv, LedgerTypeOK
<1>2. Level[m][x.signal] \in Levels /\ Ts[m] \in Nat
  BY <1>1, LevelType, TelemetryAssumption DEF TelemetryAssumption
<1>3. CASE x.kind = "create"
  <2> DEFINE auto == TRUE
             row  == [state |-> "open", auto |-> auto, signal |-> x.signal,
                      level |-> Level[m][x.signal], opened |-> Ts[m]]
  <2>1. PICK b \in Breaches : breach[b].state = "absent" /\ breach' = [breach EXCEPT ![b] = row]
    BY <1>3 DEF Apply
  <2>2. auto \in BOOLEAN /\ auto
    OBVIOUS
  <2> HIDE DEF auto
  <2>3. row \in BreachRow /\ row.state = "open" /\ row.auto = auto /\ row.signal = x.signal
    BY <1>1, <1>2, <2>2 DEF BreachRow
  <2> HIDE DEF row
  <2>4. BreachEdited(b, row)
    BY <2>1, <2>3, BreachEdit DEF TypeInv
  <2>5. QED
    BY <1>3, <2>1, <2>2, <2>3, <2>4
<1>4. CASE x.kind = "update"
  <2> DEFINE row == [breach[x.row] EXCEPT !.level = Level[m][x.signal]]
  <2>1. breach' = [breach EXCEPT ![x.row] = row]
    BY <1>1, <1>4 DEF Apply
  <2>2. /\ row \in BreachRow /\ row.state = breach[x.row].state
        /\ row.auto = breach[x.row].auto /\ row.signal = breach[x.row].signal
    BY <1>1, <1>2, <1>4 DEF BreachRow
  <2> HIDE DEF row
  <2>3. BreachEdited(x.row, row)
    BY <1>1, <1>4, <2>1, <2>2, BreachEdit DEF TypeInv
  <2>4. QED
    BY <1>1, <1>4, <2>2, <2>3 DEF SameKind
<1>5. CASE x.kind = "fix"
  <2> DEFINE row == [breach[x.row] EXCEPT !.state = "fixed"]
  <2>1. breach' = [breach EXCEPT ![x.row] = row]
    BY <1>1, <1>5 DEF Apply
  <2>2. /\ row \in BreachRow /\ row.state = "fixed"
        /\ row.auto = breach[x.row].auto /\ row.signal = breach[x.row].signal
    BY <1>1, <1>5 DEF BreachRow
  <2> HIDE DEF row
  <2>3. BreachEdited(x.row, row)
    BY <1>1, <1>5, <2>1, <2>2, BreachEdit DEF TypeInv
  <2>4. QED
    BY <1>1, <1>5, <2>2, <2>3 DEF SameKind
<1>6. QED
  BY <1>3, <1>4, <1>5 DEF Apply

(* Every other ingest goes on as it was, but no longer alone.               *)
Undisturbed(call, old) ==
  call.pc = old.pc /\ call.key = old.key /\ call.msg = old.msg /\ call.todo = old.todo

Disturbed(i, rec) ==
  /\ ing' \in [Ingests -> IngestState] /\ ing'[i] = rec
  /\ \A j \in Ingests \ {i} : Undisturbed(ing'[j], ing[j]) /\ ~ing'[j].alone

LEMMA AloneOff ==
  ASSUME NEW call \in IngestState
  PROVE  LET rec == [call EXCEPT !.alone = FALSE]
         IN rec \in IngestState /\ Undisturbed(rec, call) /\ ~rec.alone
<1> DEFINE off == FALSE
           rec == [call EXCEPT !.alone = off]
<1>1. off \in BOOLEAN /\ ~off
  OBVIOUS
<1> HIDE DEF off
<1>2. /\ rec \in IngestState /\ rec.pc = call.pc /\ rec.key = call.key /\ rec.msg = call.msg
      /\ rec.todo = call.todo /\ rec.alone = off
  BY <1>1 DEF IngestState
<1>3. rec = [call EXCEPT !.alone = FALSE]
  BY DEF off
<1> HIDE DEF rec
<1>4. QED
  BY <1>1, <1>2, <1>3 DEF Undisturbed

LEMMA DisturbFacts ==
  ASSUME LedgerTypeOK, NEW i \in Ingests, NEW rec \in IngestState, ing' = Disturb(i, rec)
  PROVE  Disturbed(i, rec)
<1>1. ing' = [j \in Ingests |-> IF j = i THEN rec ELSE [ing[j] EXCEPT !.alone = FALSE]]
  BY DEF Disturb
<1>2. ASSUME NEW j \in Ingests PROVE ing[j] \in IngestState
  BY DEF LedgerTypeOK
<1>3. ASSUME NEW j \in Ingests \ {i}
      PROVE  ing'[j] \in IngestState /\ Undisturbed(ing'[j], ing[j]) /\ ~ing'[j].alone
  <2>1. ing'[j] = [ing[j] EXCEPT !.alone = FALSE]
    BY <1>1
  <2>2. QED
    BY <1>2, <2>1, AloneOff
<1>4. ing'[i] = rec
  BY <1>1
<1>5. ing' \in [Ingests -> IngestState]
  <2>1. \A j \in Ingests : ing'[j] \in IngestState
    BY <1>3, <1>4
  <2>2. DOMAIN ing' = Ingests /\ ing' = [j \in Ingests |-> ing'[j]]
    BY <1>1
  <2>3. QED
    BY <2>1, <2>2
<1>6. QED
  BY <1>3, <1>4, <1>5 DEF Disturbed

LEMMA DoneFacts ==
  ASSUME TypeInv, NEW i \in Ingests, NEW x \in ing[i].todo, ing[i].pc = "write"
  PROVE  /\ Done(i, x) \in IngestState
         /\ IF ing[i].todo = {x} THEN Done(i, x) = IdleIngest
            ELSE /\ Done(i, x).pc = "write" /\ Done(i, x).key = ing[i].key
                 /\ Done(i, x).msg = ing[i].msg /\ Done(i, x).alone = ing[i].alone
                 /\ Done(i, x).todo = ing[i].todo \ {x}
<1>1. ing[i] \in IngestState
  BY DEF TypeInv, LedgerTypeOK
<1> DEFINE rec == [ing[i] EXCEPT !.todo = ing[i].todo \ {x}]
<1>2. /\ rec \in IngestState /\ rec.pc = ing[i].pc /\ rec.key = ing[i].key
      /\ rec.msg = ing[i].msg /\ rec.alone = ing[i].alone /\ rec.todo = ing[i].todo \ {x}
  BY <1>1 DEF IngestState
<1>3. Done(i, x) = IF ing[i].todo = {x} THEN IdleIngest ELSE rec
  BY DEF Done
<1> HIDE DEF rec
<1>4. QED
  BY <1>2, <1>3, IdleIngestTyped

LEMMA WriteFacts ==
  ASSUME TypeInv, NEW i \in Ingests, NEW x \in ing[i].todo, Write(i, x)
  PROVE  /\ UNCHANGED <<keys, adm, now, calls, stored, seen, reopened>>
         /\ ing[i].pc = "write" /\ x \in Writes /\ ing[i].msg \in Msgs
         /\ Apply(x, ing[i].msg) /\ Disturbed(i, Done(i, x)) /\ IngestOk(Done(i, x), keys)
<1>1. /\ ing[i].pc = "write" /\ ing[i] \in IngestState /\ IngestOk(ing[i], keys)
  BY DEF Write, TypeInv, LedgerTypeOK
<1>2. x \in Writes /\ ing[i].msg \in Msgs
  BY <1>1 DEF IngestState, IngestOk
<1>3. Disturbed(i, Done(i, x))
  BY <1>1, DoneFacts, DisturbFacts DEF Write, TypeInv
<1>4. IngestOk(Done(i, x), keys)
  BY <1>1, DoneFacts, IdleIngestTyped DEF IngestOk
<1>5. QED
  BY <1>1, <1>2, <1>3, <1>4 DEF Write

LEMMA LoseFacts ==
  ASSUME TypeInv, NEW i \in Ingests, NEW x \in ing[i].todo, LoseWrite(i, x)
  PROVE  /\ UNCHANGED <<keys, adm, now, calls, stored, breach, seen, reopened>>
         /\ ing[i].pc = "write"
         /\ \E rec \in IngestState :
              /\ Disturbed(i, rec) /\ IngestOk(rec, keys)
              /\ Undisturbed(rec, Done(i, x)) /\ ~rec.alone
<1>1. /\ ing[i].pc = "write" /\ IngestOk(ing[i], keys)
  BY DEF LoseWrite, TypeInv
<1>2. Done(i, x) \in IngestState
  BY <1>1, DoneFacts
<1> DEFINE rec == [Done(i, x) EXCEPT !.alone = FALSE]
<1>3. rec \in IngestState /\ Undisturbed(rec, Done(i, x)) /\ ~rec.alone
  BY <1>2, AloneOff
<1>4. ing' = Disturb(i, rec)
  BY DEF LoseWrite
<1> HIDE DEF rec
<1>5. Disturbed(i, rec)
  BY <1>3, <1>4, DisturbFacts DEF TypeInv
<1>6. IngestOk(rec, keys)
  BY <1>1, <1>3, DoneFacts, IdleIngestTyped DEF IngestOk, Undisturbed
<1>7. QED
  BY <1>1, <1>3, <1>5, <1>6 DEF LoseWrite

LEMMA SetStateFacts ==
  ASSUME TypeInv, NEW b \in Breaches, SetState(b)
  PROVE  /\ UNCHANGED <<keys, adm, now, stored, seen>> /\ calls' \in Nat /\ calls' # calls
         /\ ing' \in [Ingests -> IngestState]
         /\ \A i \in Ingests : Undisturbed(ing'[i], ing[i]) /\ ~ing'[i].alone
         /\ breach[b].state # "absent"
         /\ \E row \in BreachRow :
              /\ BreachEdited(b, row) /\ SameKind(row, breach[b]) /\ row.state # "absent"
              /\ reopened' = IF row.state = "open" THEN reopened \cup {b} ELSE reopened
<1>1. UNCHANGED <<keys, adm, now, stored, seen>> /\ calls' \in Nat /\ calls' # calls
  BY BeginFacts DEF SetState, TypeInv, KeysInv
<1>2. PICK to \in {"open", "fixed", "ignored"} :
        /\ breach' = [breach EXCEPT ![b].state = to]
        /\ reopened' = IF to = "open" THEN reopened \cup {b} ELSE reopened
  BY DEF SetState
<1>3. breach \in [Breaches -> BreachRow] /\ breach[b] \in BreachRow
  BY DEF TypeInv, LedgerTypeOK
<1> DEFINE row == [breach[b] EXCEPT !.state = to]
<1>4. /\ row \in BreachRow /\ row.state = to
      /\ row.auto = breach[b].auto /\ row.signal = breach[b].signal
  BY <1>3 DEF BreachRow
<1>5. breach' = [breach EXCEPT ![b] = row]
  BY <1>2, <1>3
<1> HIDE DEF row
<1>6. BreachEdited(b, row)
  BY <1>4, <1>5, BreachEdit DEF TypeInv
<1>7. ing' = [i \in Ingests |-> [ing[i] EXCEPT !.alone = FALSE]]
  BY DEF SetState
<1>8. ASSUME NEW i \in Ingests
      PROVE  ing'[i] \in IngestState /\ Undisturbed(ing'[i], ing[i]) /\ ~ing'[i].alone
  <2>1. ing'[i] = [ing[i] EXCEPT !.alone = FALSE] /\ ing[i] \in IngestState
    BY <1>7 DEF TypeInv, LedgerTypeOK
  <2>2. QED
    BY <2>1, AloneOff
<1>9. ing' \in [Ingests -> IngestState]
  <2>1. ing' = [i \in Ingests |-> ing'[i]]
    BY <1>7
  <2>2. QED
    BY <1>8, <2>1
<1>10. QED
  BY <1>1, <1>2, <1>4, <1>6, <1>8, <1>9 DEF SetState, SameKind

LEMMA OpenManuallyFacts ==
  ASSUME TypeInv, OpenManually
  PROVE  /\ UNCHANGED <<keys, adm, now, stored, ing, seen, reopened>>
         /\ calls' \in Nat /\ calls' # calls
         /\ \E b \in Breaches, row \in BreachRow :
              /\ BreachEdited(b, row) /\ breach[b].state = "absent"
              /\ row.state = "open" /\ ~row.auto
<1>1. PICK b \in Breaches, s \in Signals :
       /\ breach[b].state = "absent"
       /\ breach' = [breach EXCEPT ![b] = Unmanaged(s)]
  BY DEF OpenManually
<1>2. 0 \in Levels /\ now \in Nat
  BY NowTyped DEF Levels
<1>3. Unmanaged(s) \in BreachRow /\ Unmanaged(s).state = "open" /\ ~Unmanaged(s).auto
  <2> DEFINE auto == FALSE
             row  == [state |-> "open", auto |-> auto, signal |-> s, level |-> 0, opened |-> now]
  <2>1. auto \in BOOLEAN /\ ~auto /\ Unmanaged(s) = row
    BY DEF Unmanaged
  <2> HIDE DEF auto
  <2>2. row \in BreachRow /\ row.state = "open" /\ row.auto = auto
    BY <1>2, <2>1 DEF BreachRow
  <2>3. QED
    BY <2>1, <2>2
<1>4. BreachEdited(b, Unmanaged(s))
  BY <1>1, <1>3, BreachEdit DEF TypeInv
<1>5. calls' \in Nat /\ calls' # calls
  BY BeginFacts DEF OpenManually, TypeInv, KeysInv
<1>6. QED
  BY <1>1, <1>3, <1>4, <1>5 DEF OpenManually

LEMMA ReadStatusFacts ==
  ASSUME TypeInv, ReadStatus
  PROVE  /\ UNCHANGED <<adm, now, stored, breach, ing, seen, reopened>>
         /\ calls' \in Nat /\ calls' # calls
         /\ \E k \in Keys : keys' = [keys EXCEPT ![k] = Touched(keys[k])]
<1>1. \E k \in Keys : keys' = [keys EXCEPT ![k] = Touched(keys[k])]
  BY DEF ReadStatus, ActiveKeys
<1>2. calls' \in Nat /\ calls' # calls
  BY BeginFacts DEF ReadStatus, TypeInv, KeysInv
<1>3. QED
  BY <1>1, <1>2 DEF ReadStatus

-----------------------------------------------------------------------------
(* Type correctness                                                         *)

LEMMA IngestsStay ==
  ASSUME TypeInv, KeysStay, UNCHANGED ing
  PROVE  ing' \in [Ingests -> IngestState] /\ \A j \in Ingests : IngestOk(ing'[j], keys')
BY IngestOkStays DEF TypeInv, LedgerTypeOK

LEMMA IngestsEdited ==
  ASSUME TypeInv, KeysStay, NEW i \in Ingests, NEW rec, IngestEdited(i, rec),
         IngestOk(rec, keys)
  PROVE  ing' \in [Ingests -> IngestState] /\ \A j \in Ingests : IngestOk(ing'[j], keys')
<1>1. /\ ing' \in [Ingests -> IngestState] /\ ing'[i] = rec
      /\ \A j \in Ingests \ {i} : ing'[j] = ing[j]
  BY DEF IngestEdited
<1>2. ASSUME NEW j \in Ingests PROVE IngestOk(ing'[j], keys)
  BY <1>1 DEF TypeInv
<1>3. QED
  BY <1>1, <1>2, IngestOkStays

LEMMA UndisturbedOk ==
  ASSUME NEW call, NEW old, NEW table, Undisturbed(call, old), ~call.alone, IngestOk(old, table)
  PROVE  IngestOk(call, table)
BY DEF Undisturbed, IngestOk

LEMMA IngestsDisturbed ==
  ASSUME TypeInv, KeysStay, NEW i \in Ingests, NEW rec, Disturbed(i, rec), IngestOk(rec, keys)
  PROVE  ing' \in [Ingests -> IngestState] /\ \A j \in Ingests : IngestOk(ing'[j], keys')
<1>1. /\ ing' \in [Ingests -> IngestState] /\ ing'[i] = rec
      /\ \A j \in Ingests \ {i} : Undisturbed(ing'[j], ing[j]) /\ ~ing'[j].alone
  BY DEF Disturbed
<1>2. ASSUME NEW j \in Ingests PROVE IngestOk(ing'[j], keys)
  <2>1. CASE j = i
    BY <1>1, <2>1
  <2>2. CASE j # i
    <3>1. Undisturbed(ing'[j], ing[j]) /\ ~ing'[j].alone /\ IngestOk(ing[j], keys)
      BY <1>1, <2>2 DEF TypeInv
    <3>2. QED
      BY <3>1, UndisturbedOk
  <2>3. QED
    BY <2>1, <2>2
<1>3. QED
  BY <1>1, <1>2, IngestOkStays

LEMMA KeysFrame ==
  ASSUME TypeInv, UNCHANGED <<keys, adm>>, now' \in 0..MaxTime, calls' \in Nat
  PROVE  KeysInv' /\ KeysWritten /\ OnlyRevokes({})
BY KeysOnlyTouched DEF TypeInv

LEMMA KeysNoted ==
  ASSUME TypeInv, UNCHANGED <<adm, now>>, calls' \in Nat,
         \E k \in Keys : keys' = [keys EXCEPT ![k] = Touched(keys[k])]
  PROVE  KeysInv' /\ KeysWritten /\ OnlyRevokes({})
BY KeysOnlyTouched, NowTyped DEF TypeInv

(* What an ingest's step does to keys, calls and the type of the tables.    *)
IngestTyped ==
  /\ KeysInv' /\ KeysWritten /\ OnlyRevokes({})
  /\ UNCHANGED <<adm, now, reopened>>
  /\ breach' \in [Breaches -> BreachRow] /\ stored' \in Seq(Msgs) /\ seen' \in 0..NeverSeen
  /\ ing' \in [Ingests -> IngestState] /\ \A j \in Ingests : IngestOk(ing'[j], keys')

LEMMA IngestStepTyped ==
  ASSUME TypeInv, NEW i \in Ingests, IngestStep(i)
  PROVE  IngestTyped
<1>1. /\ now \in 0..MaxTime /\ now \in 0..NeverSeen /\ calls \in Nat
      /\ breach \in [Breaches -> BreachRow] /\ stored \in Seq(Msgs) /\ seen \in 0..NeverSeen
  BY NowTyped DEF TypeInv, LedgerTypeOK
<1>2. ASSUME UNCHANGED <<keys, adm, now, breach, stored, seen, reopened>>, calls' \in Nat,
             NEW rec, IngestOk(rec, keys), IngestEdited(i, rec) \/ Disturbed(i, rec)
      PROVE  IngestTyped
  <2>1. KeysInv' /\ KeysWritten /\ OnlyRevokes({})
    BY <1>1, <1>2, KeysFrame
  <2>2. ing' \in [Ingests -> IngestState] /\ \A j \in Ingests : IngestOk(ing'[j], keys')
    BY <1>2, <2>1, IngestsEdited, IngestsDisturbed DEF KeysWritten
  <2>3. QED
    BY <1>1, <1>2, <2>1, <2>2 DEF IngestTyped
<1>3. ASSUME \E k \in Keys : keys' = [keys EXCEPT ![k] = Touched(keys[k])],
             UNCHANGED <<adm, now, calls, breach, reopened>>, seen' = now,
             stored' \in Seq(Msgs),
             NEW rec, IngestOk(rec, keys), IngestEdited(i, rec)
      PROVE  IngestTyped
  <2>1. KeysInv' /\ KeysWritten /\ OnlyRevokes({})
    BY <1>1, <1>3, KeysNoted
  <2>2. ing' \in [Ingests -> IngestState] /\ \A j \in Ingests : IngestOk(ing'[j], keys')
    BY <1>3, <2>1, IngestsEdited DEF KeysWritten
  <2>3. QED
    BY <1>1, <1>3, <2>1, <2>2 DEF IngestTyped
<1>4. CASE Authenticate(i)
  BY <1>2, <1>4, AuthenticateFacts
<1>5. CASE ReadLatest(i)
  BY <1>1, <1>2, <1>5, ReadLatestFacts
<1>6. CASE DropDuplicate(i)
  <2>1. IngestOk(IdleIngest, keys)
    BY IdleIngestTyped
  <2>2. QED
    BY <1>1, <1>3, <1>6, <2>1, DropFacts
<1>7. CASE Store(i)
  BY <1>3, <1>7, StoreFacts
<1>8. CASE ReadLedger(i)
  BY <1>1, <1>2, <1>8, ReadLedgerFacts
<1>9. ASSUME NEW x \in ing[i].todo, Write(i, x) PROVE IngestTyped
  <2>1. /\ UNCHANGED <<keys, adm, now, calls, stored, seen, reopened>>
        /\ x \in Writes /\ ing[i].msg \in Msgs
        /\ Apply(x, ing[i].msg) /\ Disturbed(i, Done(i, x)) /\ IngestOk(Done(i, x), keys)
    BY <1>9, WriteFacts
  <2>2. breach' \in [Breaches -> BreachRow]
    BY <2>1, ApplyFacts DEF BreachEdited
  <2>3. KeysInv' /\ KeysWritten /\ OnlyRevokes({})
    BY <1>1, <2>1, KeysFrame
  <2>4. ing' \in [Ingests -> IngestState] /\ \A j \in Ingests : IngestOk(ing'[j], keys')
    BY <2>1, <2>3, IngestsDisturbed DEF KeysWritten
  <2>5. QED
    BY <1>1, <2>1, <2>2, <2>3, <2>4 DEF IngestTyped
<1>10. ASSUME NEW x \in ing[i].todo, LoseWrite(i, x) PROVE IngestTyped
  BY <1>1, <1>2, <1>10, LoseFacts
<1>11. QED
  BY <1>4, <1>5, <1>6, <1>7, <1>8, <1>9, <1>10 DEF IngestStep

LEMMA TypeInit ==
  ASSUME Init
  PROVE  TypeInv
<1>1. /\ MaxTime \in Nat /\ NoKey \in KeyRow /\ ~NoKey.live
      /\ IdleAdmin \in AdminState /\ IdleAdmin.pc = "idle"
  BY KeysAssumption, NoKeyTyped, IdleAdminTyped DEF KeysAssumption
<1>2. /\ keys = [k \in Keys |-> NoKey] /\ adm = [c \in Admins |-> IdleAdmin]
      /\ now = 0 /\ calls = 0
  BY DEF Init, KeysInit
<1>3. KeysInv
  <2>1. KeysTypeOK
    BY <1>1, <1>2 DEF KeysTypeOK
  <2>2. Lineage(keys)
    BY <1>1, <1>2 DEF Lineage
  <2>3. \A c \in Admins : AdminOk(adm[c], keys)
    BY <1>2, IdleAdminOk
  <2>4. QED
    BY <2>1, <2>2, <2>3 DEF KeysInv
<1>4. LedgerTypeOK
  <2> DEFINE auto == FALSE
             row  == [state |-> "absent", auto |-> auto,
                      signal |-> CHOOSE s \in Signals : TRUE, level |-> 0, opened |-> 0]
  <2>1. auto \in BOOLEAN
    OBVIOUS
  <2>2. breach = [b \in Breaches |-> row]
    BY DEF Init
  <2> HIDE DEF auto
  <2>3. (CHOOSE s \in Signals : TRUE) \in Signals /\ 0 \in Levels
    BY TelemetryAssumption DEF TelemetryAssumption, Levels
  <2>4. row \in BreachRow
    BY <2>1, <2>3 DEF BreachRow
  <2> HIDE DEF row
  <2>5. breach \in [Breaches -> BreachRow]
    BY <2>2, <2>4
  <2>6. ing \in [Ingests -> IngestState]
    BY IdleIngestTyped DEF Init
  <2>7. stored \in Seq(Msgs) /\ seen \in 0..NeverSeen /\ reopened \subseteq Breaches
    BY <1>1 DEF Init, NeverSeen
  <2>8. QED
    BY <2>5, <2>6, <2>7 DEF LedgerTypeOK
<1>5. \A i \in Ingests : IngestOk(ing[i], keys)
  BY IdleIngestTyped DEF Init
<1>6. QED
  BY <1>3, <1>4, <1>5 DEF TypeInv

LEMMA TickFacts ==
  ASSUME TypeInv, Tick
  PROVE  /\ UNCHANGED <<keys, adm, calls, stored, breach, ing, seen, reopened>>
         /\ now' = now + 1 /\ now' \in 0..MaxTime
BY NowTyped DEF Tick

LEMMA TypeStep ==
  ASSUME TypeInv, [Next]_vars
  PROVE  TypeInv' /\ KeysWritten
<1> DEFINE IngestsOk == /\ ing' \in [Ingests -> IngestState]
                        /\ \A j \in Ingests : IngestOk(ing'[j], keys')
<1>1. /\ now \in 0..MaxTime /\ now \in 0..NeverSeen /\ calls \in Nat
      /\ breach \in [Breaches -> BreachRow] /\ stored \in Seq(Msgs) /\ seen \in 0..NeverSeen
      /\ reopened \subseteq Breaches /\ KeysInv
  BY NowTyped DEF TypeInv, LedgerTypeOK
<1>2. ASSUME KeysInv', KeysWritten, IngestsOk, stored' \in Seq(Msgs),
             breach' \in [Breaches -> BreachRow], seen' \in 0..NeverSeen,
             reopened' \subseteq Breaches
      PROVE  TypeInv' /\ KeysWritten
  BY <1>2 DEF TypeInv, LedgerTypeOK
<1>3. ASSUME UNCHANGED ing, KeysWritten PROVE IngestsOk
  BY <1>3, IngestsStay DEF KeysWritten
<1>4. ASSUME NEW c \in Admins, AdminStep(c), UNCHANGED telemetryVars
      PROVE  TypeInv' /\ KeysWritten
  <2>1. /\ KeysInv' /\ KeysWritten
        /\ UNCHANGED ing /\ UNCHANGED <<stored, breach, seen, reopened>>
    BY <1>1, <1>4, AdminStepFacts DEF telemetryVars
  <2>2. QED
    BY <1>1, <1>2, <1>3, <2>1
<1>5. ASSUME NEW i \in Ingests, IngestStep(i) PROVE TypeInv' /\ KeysWritten
  BY <1>1, <1>2, <1>5, IngestStepTyped DEF IngestTyped
<1>6. CASE OpenManually
  <2>1. KeysInv' /\ KeysWritten
    BY <1>1, <1>6, OpenManuallyFacts, KeysFrame
  <2>2. QED
    BY <1>1, <1>2, <1>3, <1>6, <2>1, OpenManuallyFacts DEF BreachEdited
<1>7. ASSUME NEW b \in Breaches, SetState(b) PROVE TypeInv' /\ KeysWritten
  <2>1. KeysInv' /\ KeysWritten
    BY <1>1, <1>7, SetStateFacts, KeysFrame
  <2>2. IngestsOk
    <3>1. /\ ing' \in [Ingests -> IngestState]
          /\ \A i \in Ingests : Undisturbed(ing'[i], ing[i]) /\ ~ing'[i].alone
      BY <1>7, SetStateFacts
    <3>2. \A i \in Ingests : IngestOk(ing'[i], keys)
      BY <3>1, UndisturbedOk DEF TypeInv
    <3>3. QED
      BY <2>1, <3>1, <3>2, IngestOkStays DEF KeysWritten
  <2>3. reopened' \subseteq Breaches /\ breach' \in [Breaches -> BreachRow]
    BY <1>1, <1>7, SetStateFacts DEF BreachEdited
  <2>4. stored' = stored /\ seen' = seen
    BY <1>7, SetStateFacts
  <2>5. QED
    BY <1>1, <1>2, <2>1, <2>2, <2>3, <2>4
<1>8. CASE ReadStatus
  <2>1. KeysInv' /\ KeysWritten
    BY <1>8, ReadStatusFacts, KeysNoted
  <2>2. QED
    BY <1>1, <1>2, <1>3, <1>8, <2>1, ReadStatusFacts
<1>9. CASE Tick
  <2>1. KeysInv' /\ KeysWritten
    BY <1>1, <1>9, TickFacts, KeysFrame
  <2>2. QED
    BY <1>1, <1>2, <1>3, <1>9, <2>1, TickFacts
<1>10. CASE UNCHANGED vars
  <2>1. KeysInv' /\ KeysWritten
    BY <1>1, <1>10, KeysFrame DEF vars
  <2>2. QED
    BY <1>1, <1>2, <1>3, <1>10, <2>1 DEF vars
<1>11. QED
  BY <1>4, <1>5, <1>6, <1>7, <1>8, <1>9, <1>10 DEF Next

(* TypeOK: every table and every call has its type, whatever overlaps.      *)
THEOREM TypeCorrect == Spec => []TypeOK
<1>1. TypeInv => TypeOK
  BY DEF TypeInv, KeysInv, LedgerTypeOK, TypeOK
<1>2. QED
  BY <1>1, TypeInit, TypeStep, PTL DEF Spec

-----------------------------------------------------------------------------
(* Keys                                                                     *)

(* SuccessorIsNewer: however rotations overlap, a key's version is above    *)
(* that of the key it replaces, unless versions are used up.                *)
THEOREM SuccessorAlwaysNewer == Spec => []SuccessorIsNewer
<1>1. TypeInv => SuccessorIsNewer
  <2>1. TypeInv => Lineage(keys)
    BY DEF TypeInv, KeysInv
  <2>2. QED
    BY <2>1 DEF Lineage, Newer, SuccessorIsNewer, Live
<1>2. QED
  BY <1>1, TypeInit, TypeStep, PTL DEF Spec

(* KeyIsImmutable: a key keeps its version, scopes, expiry and lineage, and *)
(* a revoked key stays revoked.                                             *)
THEOREM KeysImmutable == Spec => KeyIsImmutable
<1> DEFINE Stays == \A k \in Live :
             /\ keys'[k].live
             /\ keys[k].revoked => keys'[k].revoked
             /\ keys'[k] = [keys[k] EXCEPT !.revoked = keys'[k].revoked,
                                           !.used = keys'[k].used]
<1>1. ASSUME TypeInv, [Next]_vars PROVE Stays
  <2>1. keys \in [Keys -> KeyRow] /\ keys' \in [Keys -> KeyRow] /\ KeysStay
    BY <1>1, TypeStep DEF KeysWritten, TypeInv, KeysInv, KeysTypeOK
  <2>2. ASSUME NEW k \in Keys, keys[k].live
        PROVE  /\ keys'[k].live
               /\ keys[k].revoked => keys'[k].revoked
               /\ keys'[k] = [keys[k] EXCEPT !.revoked = keys'[k].revoked,
                                             !.used = keys'[k].used]
    <3>1. /\ keys'[k].live /\ keys'[k].version = keys[k].version
          /\ keys'[k].scopes = keys[k].scopes /\ keys'[k].expires = keys[k].expires
          /\ keys'[k].from = keys[k].from
          /\ keys[k].revoked => keys'[k].revoked
      BY <2>1, <2>2 DEF KeysStay
    <3>2. keys[k] \in KeyRow /\ keys'[k] \in KeyRow
      BY <2>1
    <3>3. keys'[k].live = keys[k].live
      BY <2>2, <3>1, <3>2 DEF KeyRow
    <3>4. keys'[k] = [keys[k] EXCEPT !.revoked = keys'[k].revoked, !.used = keys'[k].used]
      BY <3>1, <3>2, <3>3 DEF KeyRow
    <3>5. QED
      BY <3>1, <3>4
  <2>3. QED
    BY <2>2 DEF Live
<1> HIDE DEF Stays
<1>2. Spec => [][Stays]_<<keys, adm, now>>
  BY <1>1, TypeInit, TypeStep, PTL DEF Spec
<1>3. QED
  BY <1>2 DEF Stays, KeyIsImmutable

(* Which steps can take an active key away at the same instant.             *)
LEMMA RevokingSteps ==
  ASSUME TypeInv, [Next]_vars
  PROVE  \/ OnlyRevokes({})
         \/ \E c \in Admins : CommitRotation(c) \/ Revoke(c)
<1>1. keys \in [Keys -> KeyRow] /\ now \in 0..MaxTime /\ calls \in Nat /\ KeysInv
  BY NowTyped DEF TypeInv, KeysInv, KeysTypeOK
<1>2. ASSUME UNCHANGED keys PROVE OnlyRevokes({})
  BY <1>1, <1>2, SameKeys
<1>3. ASSUME NEW c \in Admins, AdminStep(c), ~CommitRotation(c), ~Revoke(c)
      PROVE  OnlyRevokes({})
  BY <1>1, <1>2, <1>3, BeginCreateFacts, InsertKeyFacts, BeginRotateFacts, ReadVersionsFacts,
     BeginRevokeFacts DEF AdminStep
<1>4. ASSUME NEW i \in Ingests, IngestStep(i) PROVE OnlyRevokes({})
  BY <1>4, IngestStepTyped DEF IngestTyped
<1>5. CASE OpenManually
  BY <1>2, <1>5, OpenManuallyFacts
<1>6. ASSUME NEW b \in Breaches, SetState(b) PROVE OnlyRevokes({})
  BY <1>2, <1>6, SetStateFacts
<1>7. CASE ReadStatus
  BY <1>7, ReadStatusFacts, KeysNoted
<1>8. CASE Tick
  BY <1>2, <1>8, TickFacts
<1>9. CASE UNCHANGED vars
  BY <1>2, <1>9 DEF vars
<1>10. QED
  BY <1>3, <1>4, <1>5, <1>6, <1>7, <1>8, <1>9 DEF Next

LEMMA StillActive ==
  ASSUME TypeInv, TypeInv', KeysStay, NEW S, OnlyRevokes(S), now' = now,
         NEW k \in Keys \ S, k \in ActiveKeys
  PROVE  k \in ActiveKeys'
BY DEF ActiveKeys, ActiveKey, KeysStay, OnlyRevokes

(* HostKeepsKey: a rotation never takes the host's last active key away     *)
(* unless the administrator gave the successor an expiry that is past.      *)
THEOREM HostAlwaysKeepsKey == Spec => HostKeepsKey
<1> DEFINE Excused == \/ now' # now
                      \/ \E c \in Admins :
                           /\ adm[c].pc = "revoke" \/ (adm[c].given /\ adm[c].expires <= now)
                           /\ adm'[c].pc = "idle"
           Keeps == ActiveKeys # {} /\ ActiveKeys' = {} => Excused
<1>1. ASSUME TypeInv, [Next]_vars PROVE Keeps
  <2>1. TypeInv' /\ KeysStay /\ keys' \in [Keys -> KeyRow]
    BY <1>1, TypeStep DEF KeysWritten
  <2>2. KeysInv /\ now \in Nat /\ Expiries \subseteq Nat /\ adm \in [Admins -> AdminState]
    BY <1>1, NowTyped, KeysAssumption DEF TypeInv, KeysInv, KeysTypeOK, KeysAssumption
  <2>3. SUFFICES ASSUME NEW k \in Keys, k \in ActiveKeys, ActiveKeys' = {}, now' = now
                 PROVE  Excused
    BY DEF ActiveKeys
  <2>4. ~OnlyRevokes({})
    BY <1>1, <2>1, <2>3, StillActive
  <2>5. PICK c \in Admins : CommitRotation(c) \/ Revoke(c)
    BY <1>1, <2>4, RevokingSteps
  <2>6. adm'[c].pc = "idle"
    BY <2>2, <2>5, CommitFacts, RevokeCallFacts, IdleAdminTyped DEF AdminEdited
  <2>7. CASE Revoke(c)
    BY <2>2, <2>6, <2>7, RevokeCallFacts
  <2>8. CASE CommitRotation(c)
    <3>1. /\ adm[c].pc = "commit" /\ OnlyRevokes({adm[c].src})
          /\ \E q \in Keys : /\ keys'[q].live /\ ~keys'[q].revoked
                              /\ keys'[q].expires = adm[c].expires
      BY <2>2, <2>8, CommitFacts
    <3>2. adm[c].src = k
      BY <1>1, <2>1, <2>3, <3>1, StillActive
    <3>3. adm[c].expires <= now
      <4>1. PICK q \in Keys : /\ keys'[q].live /\ ~keys'[q].revoked
                              /\ keys'[q].expires = adm[c].expires
        BY <3>1
      <4>2. ~(adm[c].expires > now)
        BY <2>3, <4>1 DEF ActiveKeys, ActiveKey
      <4>3. adm[c].expires \in Nat
        BY <2>2 DEF AdminState
      <4>4. QED
        BY <2>2, <4>2, <4>3
    <3>4. adm[c].given
      <4>1. ~adm[c].given => adm[c].expires = keys[k].expires
        BY <2>2, <3>1, <3>2 DEF KeysInv, AdminOk
      <4>2. keys[k].expires > now /\ keys[k].expires \in Nat
        BY <2>2, <2>3 DEF ActiveKeys, ActiveKey, KeysInv, KeysTypeOK, KeyRow
      <4>3. QED
        BY <2>2, <3>3, <4>1, <4>2
    <3>5. QED
      BY <2>6, <3>3, <3>4
  <2>9. QED
    BY <2>5, <2>7, <2>8
<1> HIDE DEF Keeps
<1>2. Spec => [][Keeps]_<<keys, adm, now>>
  BY <1>1, TypeInit, TypeStep, PTL DEF Spec
<1>3. QED
  BY <1>2 DEF Keeps, HostKeepsKey

-----------------------------------------------------------------------------
(* The heartbeat                                                            *)

(* What a step does to the time of the last contact.                        *)
LEMMA ContactFacts ==
  ASSUME TypeInv, [Next]_vars
  PROVE  \/ seen' = seen /\ now' = now
         \/ seen' = now /\ now' = now
         \/ seen' = seen /\ now' = now + 1 /\ now' \in 0..MaxTime
<1>1. KeysInv
  BY DEF TypeInv
<1>2. ASSUME NEW c \in Admins, AdminStep(c), UNCHANGED telemetryVars
      PROVE  seen' = seen /\ now' = now
  BY <1>1, <1>2, AdminStepFacts DEF telemetryVars
<1>3. ASSUME NEW i \in Ingests, IngestStep(i)
      PROVE  now' = now /\ (seen' = seen \/ seen' = now)
  BY <1>3, AuthenticateFacts, ReadLatestFacts, DropFacts, StoreFacts, ReadLedgerFacts,
     WriteFacts, LoseFacts DEF IngestStep
<1>4. CASE OpenManually
  BY <1>4, OpenManuallyFacts
<1>5. ASSUME NEW b \in Breaches, SetState(b) PROVE seen' = seen /\ now' = now
  BY <1>5, SetStateFacts
<1>6. CASE ReadStatus
  BY <1>6, ReadStatusFacts
<1>7. CASE Tick
  BY <1>7, TickFacts
<1>8. CASE UNCHANGED vars
  BY <1>8 DEF vars
<1>9. QED
  BY <1>2, <1>3, <1>4, <1>5, <1>6, <1>7, <1>8 DEF Next

LEMMA Products ==
  ASSUME NEW e \in Nat \ {0}, NEW a \in Nat, NEW b \in Nat, b >= a + 1
  PROVE  e * a \in Nat /\ e * b \in Nat /\ e * b > e * a
<1>1. e * a \in Nat /\ e * b \in Nat
  OBVIOUS
<1>2. e * b = e * a + e * (b - a)
  OBVIOUS
<1>3. e * (b - a) >= 1
  OBVIOUS
<1>4. QED
  BY <1>1, <1>2, <1>3

LEMMA Thresholds ==
  /\ Expected \in Nat \ {0} /\ staleAfterMinutes \in Nat /\ missingAfterMinutes \in Nat
  /\ missingAfterMinutes > staleAfterMinutes /\ staleAfterMinutes >= Expected
<1>1. Expected \in Nat \ {0} /\ StaleBy \in Nat \ {0} /\ MissingBy \in Nat
  BY TelemetryAssumption DEF TelemetryAssumption
<1> DEFINE S == {MissingBy, StaleBy + 1}
<1>2. S \in SUBSET (0..(MissingBy + StaleBy + 1)) /\ S # {} /\ StaleBy + 1 \in S
  BY <1>1
<1>3. MissingBy + StaleBy + 1 \in Nat
  BY <1>1
<1>4. Max(S) \in S /\ Max(S) >= StaleBy + 1
  BY <1>2, <1>3, MaxIsGreatest
<1>5. Max(S) \in Nat
  BY <1>1, <1>4
<1> HIDE DEF S
<1>6. /\ Expected * StaleBy \in Nat /\ Expected * Max(S) \in Nat
      /\ Expected * Max(S) > Expected * StaleBy
  BY <1>1, <1>4, <1>5, Products
<1>7. staleAfterMinutes = Expected * StaleBy /\ missingAfterMinutes = Expected * Max(S)
  BY DEF staleAfterMinutes, missingAfterMinutes, S
<1>8. Expected * StaleBy >= Expected
  BY <1>1
<1>9. QED
  BY <1>1, <1>6, <1>7, <1>8

(* StaleBeforeMissing: a host that falls silent is stale before it is       *)
(* missing, whatever multiples are configured.                              *)
THEOREM StaleAlwaysBeforeMissing == Spec => StaleBeforeMissing
<1> DEFINE Ordered == classifyHeartbeat # "missing" /\ classifyHeartbeat' = "missing"
                      => classifyHeartbeat = "stale"
<1>1. ASSUME TypeInv, [Next]_vars PROVE Ordered
  <2>1. /\ Expected \in Nat \ {0} /\ staleAfterMinutes \in Nat /\ missingAfterMinutes \in Nat
        /\ missingAfterMinutes > staleAfterMinutes
        /\ staleAfterMinutes' = staleAfterMinutes /\ missingAfterMinutes' = missingAfterMinutes
    BY Thresholds DEF staleAfterMinutes, missingAfterMinutes
  <2>2. now \in Nat /\ MaxTime \in Nat /\ seen \in Nat /\ now <= MaxTime /\ NeverSeen = MaxTime + 1
    BY <1>1, NowTyped DEF TypeInv, LedgerTypeOK, NeverSeen
  <2>3. CASE seen' = seen /\ now' = now
    BY <2>1, <2>3 DEF classifyHeartbeat
  <2>4. CASE seen' = now /\ now' = now
    <3>1. seen' # NeverSeen /\ now' - seen' = 0
      BY <2>2, <2>4
    <3>2. classifyHeartbeat' = "fresh"
      BY <2>1, <3>1 DEF classifyHeartbeat, NeverSeen
    <3>3. QED
      BY <3>2
  <2>5. CASE seen' = seen /\ now' = now + 1
    <3>1. SUFFICES ASSUME classifyHeartbeat # "missing", classifyHeartbeat' = "missing"
                   PROVE  classifyHeartbeat = "stale"
      OBVIOUS
    <3>2. seen # NeverSeen /\ now - seen \in Int
      BY <2>2, <3>1 DEF classifyHeartbeat
    <3>3. now - seen <= missingAfterMinutes
      <4>1. SUFFICES ASSUME ~(now - seen <= missingAfterMinutes) PROVE FALSE
        OBVIOUS
      <4>2. ~(now - seen <= Expected) /\ ~(now - seen <= staleAfterMinutes)
        BY <2>1, <3>2, <4>1, Thresholds
      <4>3. classifyHeartbeat = "missing"
        BY <3>2, <4>1, <4>2 DEF classifyHeartbeat
      <4>4. QED
        BY <3>1, <4>3
    <3>4. (now + 1) - seen > missingAfterMinutes
      BY <2>1, <2>2, <2>5, <3>1, <3>2 DEF classifyHeartbeat, NeverSeen
    <3>5. now - seen = missingAfterMinutes
      BY <2>1, <2>2, <3>3, <3>4
    <3>6. ~(now - seen <= staleAfterMinutes)
      BY <2>1, <3>5
    <3>7. now - seen > staleAfterMinutes
      BY <2>1, <3>5
    <3>8. ~(now - seen <= Expected)
      BY <2>1, <3>2, <3>7, Thresholds
    <3>9. QED
      BY <2>1, <3>2, <3>3, <3>6, <3>7, <3>8 DEF classifyHeartbeat
  <2>6. QED
    BY <1>1, <2>3, <2>4, <2>5, ContactFacts
<1> HIDE DEF Ordered
<1>2. Spec => [][Ordered]_vars
  BY <1>1, TypeInit, TypeStep, PTL DEF Spec
<1>3. QED
  BY <1>2 DEF Ordered, StaleBeforeMissing

-----------------------------------------------------------------------------
(* The ledger                                                               *)

(* Rows are written by reconciliations and by operators only.               *)
LEMMA LedgerWriters ==
  ASSUME TypeInv, [Next]_vars
  PROVE  \/ UNCHANGED <<breach, reopened>>
         \/ \E i \in Ingests : \E x \in ing[i].todo : Write(i, x)
         \/ OpenManually
         \/ \E b \in Breaches : SetState(b)
<1>1. ASSUME NEW i \in Ingests, IngestStep(i), \A x \in ing[i].todo : ~Write(i, x)
      PROVE  UNCHANGED <<breach, reopened>>
  BY <1>1, AuthenticateFacts, ReadLatestFacts, DropFacts, StoreFacts, ReadLedgerFacts,
     LoseFacts DEF IngestStep
<1>2. CASE ReadStatus
  BY <1>2, ReadStatusFacts
<1>3. CASE Tick
  BY <1>3, TickFacts
<1>4. CASE UNCHANGED vars
  BY <1>4 DEF vars
<1>5. ASSUME UNCHANGED telemetryVars PROVE UNCHANGED <<breach, reopened>>
  BY <1>5 DEF telemetryVars
<1>6. QED
  BY <1>1, <1>2, <1>3, <1>4, <1>5 DEF Next

(* A row stays, with its signal and its manner of being opened.             *)
RowsStay ==
  \A b \in Breaches : breach[b].state # "absent" =>
    breach'[b].state # "absent" /\ SameKind(breach'[b], breach[b])

LEMMA RowsStep ==
  ASSUME TypeInv, [Next]_vars
  PROVE  RowsStay
<1>1. CASE UNCHANGED breach
  BY <1>1 DEF RowsStay, SameKind
<1>2. ASSUME NEW i \in Ingests, NEW x \in ing[i].todo, Write(i, x) PROVE RowsStay
  <2>1. x \in Writes /\ ing[i].msg \in Msgs /\ Apply(x, ing[i].msg)
    BY <1>2, WriteFacts
  <2>2. QED
    BY <2>1, ApplyFacts DEF RowsStay, SameKind, BreachEdited
<1>3. CASE OpenManually
  BY <1>3, OpenManuallyFacts DEF RowsStay, SameKind, BreachEdited
<1>4. ASSUME NEW b \in Breaches, SetState(b) PROVE RowsStay
  BY <1>4, SetStateFacts DEF RowsStay, SameKind, BreachEdited
<1>5. QED
  BY <1>1, <1>2, <1>3, <1>4, LedgerWriters

(* A call's writes are decided on at once, in ReadLedger, and only get      *)
(* fewer.                                                                   *)
Continues(new, old) ==
  /\ new.todo \subseteq old.todo
  /\ new.pc = "write" => old.pc = "write" /\ new.msg = old.msg

LEMMA TodoStep ==
  ASSUME TypeInv, [Next]_vars, NEW i \in Ingests
  PROVE  \/ Continues(ing'[i], ing[i])
         \/ ReadLedger(i)
<1>1. CASE ing'[i] = ing[i]
  BY <1>1 DEF Continues
<1>2. CASE Undisturbed(ing'[i], ing[i])
  BY <1>2 DEF Continues, Undisturbed
<1>3. ASSUME NEW j \in Ingests \ {i}, IngestStep(j)
      PROVE  ing'[i] = ing[i] \/ Undisturbed(ing'[i], ing[i])
  BY <1>3, AuthenticateFacts, ReadLatestFacts, DropFacts, StoreFacts, ReadLedgerFacts,
     WriteFacts, LoseFacts DEF IngestStep, IngestEdited, Disturbed
<1>4. ASSUME IngestStep(i), ~ReadLedger(i) PROVE Continues(ing'[i], ing[i])
  <2>1. CASE Authenticate(i)
    BY <2>1, AuthenticateFacts DEF IngestEdited, Continues
  <2>2. CASE ReadLatest(i)
    BY <2>2, ReadLatestFacts DEF IngestEdited, Continues
  <2>3. CASE DropDuplicate(i)
    BY <2>3, DropFacts, IdleIngestTyped DEF IngestEdited, Continues
  <2>4. CASE Store(i)
    BY <2>4, StoreFacts DEF IngestEdited, Continues
  <2>5. ASSUME NEW x \in ing[i].todo, Write(i, x) \/ LoseWrite(i, x)
        PROVE  Continues(ing'[i], ing[i])
    <3>1. /\ ing[i].pc = "write"
          /\ ing'[i] = Done(i, x) \/ Undisturbed(ing'[i], Done(i, x))
      BY <2>5, WriteFacts, LoseFacts DEF Disturbed
    <3>2. \/ Done(i, x) = IdleIngest
          \/ Done(i, x).msg = ing[i].msg /\ Done(i, x).todo = ing[i].todo \ {x}
      BY <3>1, DoneFacts
    <3>3. Continues(Done(i, x), ing[i])
      BY <3>1, <3>2, IdleIngestTyped DEF Continues
    <3>4. QED
      BY <3>1, <3>3 DEF Continues, Undisturbed
  <2>6. QED
    BY <1>4, <2>1, <2>2, <2>3, <2>4, <2>5 DEF IngestStep
<1>5. CASE UNCHANGED telemetryVars \/ UNCHANGED vars
  BY <1>1, <1>5 DEF telemetryVars, vars
<1>6. CASE OpenManually
  BY <1>1, <1>6, OpenManuallyFacts
<1>7. ASSUME NEW b \in Breaches, SetState(b) PROVE Undisturbed(ing'[i], ing[i])
  BY <1>7, SetStateFacts
<1>8. CASE ReadStatus \/ Tick
  BY <1>1, <1>8, ReadStatusFacts, TickFacts
<1>9. QED
  BY <1>1, <1>2, <1>3, <1>4, <1>5, <1>6, <1>7, <1>8 DEF Next

(* A reconciliation updates and fixes rows of its own only.                 *)
OwnRow(x, table) ==
  x.kind # "create" =>
    x.row \in Breaches /\ table[x.row].state # "absent" /\ table[x.row].auto

OwnRows == \A i \in Ingests : \A x \in ing[i].todo : OwnRow(x, breach)

LEMMA PlannedOwn ==
  ASSUME NEW x \in Writes, NEW m, Planned(x, m)
  PROVE  OwnRow(x, breach)
BY WriteShape DEF Planned, OwnRow, OpenRows, Managed

LEMMA OwnRowsStep ==
  ASSUME TypeInv, OwnRows, [Next]_vars
  PROVE  OwnRows'
<1>1. RowsStay
  BY RowsStep
<1>2. SUFFICES ASSUME NEW i \in Ingests, NEW x \in ing'[i].todo
               PROVE  OwnRow(x, breach')
  BY DEF OwnRows
<1>3. OwnRow(x, breach)
  <2>1. CASE Continues(ing'[i], ing[i])
    BY <2>1 DEF Continues, OwnRows
  <2>2. CASE ReadLedger(i)
    <3>1. ing'[i].todo \in SUBSET Writes /\ \A y \in ing'[i].todo : Planned(y, ing[i].msg)
      BY <2>2, ReadLedgerFacts, IdleIngestTyped DEF IngestEdited, PlanOf
    <3>2. QED
      BY <3>1, PlannedOwn
  <2>3. QED
    BY <2>1, <2>2, TodoStep
<1>4. QED
  BY <1>1, <1>3 DEF OwnRow, RowsStay, SameKind

LEMMA OwnRowsInit == Init => OwnRows
BY IdleIngestTyped DEF Init, OwnRows

(* ManualRowsUntouched: a breach an operator has opened is changed by       *)
(* operators only.                                                          *)
THEOREM ManualRowsNeverTouched == Spec => ManualRowsUntouched
<1> DEFINE Untouched == \A b \in Breaches :
             breach[b].state # "absent" /\ ~breach[b].auto /\ breach'[b] # breach[b]
             => calls' # calls
<1>1. ASSUME TypeInv, OwnRows, [Next]_vars PROVE Untouched
  <2>1. CASE UNCHANGED breach
    BY <2>1
  <2>2. ASSUME NEW i \in Ingests, NEW x \in ing[i].todo, Write(i, x) PROVE Untouched
    <3>1. x \in Writes /\ ing[i].msg \in Msgs /\ Apply(x, ing[i].msg)
      BY <1>1, <2>2, WriteFacts
    <3>2. OwnRow(x, breach)
      BY <1>1 DEF OwnRows
    <3>3. QED
      BY <1>1, <3>1, <3>2, ApplyFacts DEF OwnRow, BreachEdited
  <2>3. CASE OpenManually
    BY <1>1, <2>3, OpenManuallyFacts
  <2>4. ASSUME NEW b \in Breaches, SetState(b) PROVE Untouched
    BY <1>1, <2>4, SetStateFacts
  <2>5. QED
    BY <1>1, <2>1, <2>2, <2>3, <2>4, LedgerWriters
<1> HIDE DEF Untouched
<1>2. Spec => [][Untouched]_vars
  BY <1>1, TypeInit, TypeStep, OwnRowsInit, OwnRowsStep, PTL DEF Spec
<1>3. QED
  BY <1>2 DEF Untouched, ManualRowsUntouched

-----------------------------------------------------------------------------
(* How many rows of one breach are open                                     *)

(* The calls that are still to open a breach.                               *)
WillCreate(call, s) ==
  call.pc = "write" /\ \E x \in call.todo : x.kind = "create" /\ x.signal = s

Creators(s) == {i \in Ingests : WillCreate(ing[i], s)}

OwnOpen(s) == OpenRows(s) \ reopened

(* Open rows and rows still to be opened are one per ingest at most.        *)
OpenInv ==
  \A s \in Signals :
    Cardinality(OwnOpen(s)) + Cardinality(Creators(s)) <= Cardinality(Ingests)

LEMMA OpenFinite ==
  ASSUME NEW s
  PROVE  /\ IsFiniteSet(OwnOpen(s)) /\ IsFiniteSet(Creators(s))
         /\ Cardinality(OwnOpen(s)) \in Nat /\ Cardinality(Creators(s)) \in Nat
         /\ Cardinality(Ingests) \in Nat
         /\ Cardinality(Creators(s)) <= Cardinality(Ingests)
<1>1. IsFiniteSet(Ingests) /\ IsFiniteSet(Breaches)
  BY TelemetryAssumption DEF TelemetryAssumption
<1>2. OwnOpen(s) \subseteq Breaches /\ Creators(s) \subseteq Ingests
  BY DEF OwnOpen, OpenRows, Creators
<1>3. QED
  BY <1>1, <1>2, FS_Subset, FS_CardinalityType

LEMMA CreatorsStep ==
  ASSUME TypeInv, [Next]_vars, NEW s \in Signals
  PROVE  \/ OpenRows(s) = {} /\ UNCHANGED breach
         \/ Creators(s)' \subseteq Creators(s)
<1>1. SUFFICES ASSUME NEW i \in Ingests, WillCreate(ing'[i], s), ~WillCreate(ing[i], s)
               PROVE  OpenRows(s) = {} /\ UNCHANGED breach
  BY DEF Creators
<1>2. ReadLedger(i)
  BY <1>1, TodoStep DEF Continues, WillCreate
<1>3. UNCHANGED breach /\ \A y \in ing'[i].todo : Planned(y, ing[i].msg)
  BY <1>2, ReadLedgerFacts, IdleIngestTyped DEF IngestEdited, PlanOf
<1>4. PICK x \in ing'[i].todo : x.kind = "create" /\ x.signal = s
  BY <1>1 DEF WillCreate
<1>5. QED
  BY <1>3, <1>4 DEF Planned

LEMMA RowsOpenedStep ==
  ASSUME TypeInv, [Next]_vars, NEW s \in Signals
  PROVE  \/ OwnOpen(s)' \subseteq OwnOpen(s)
         \/ \E i \in Creators(s), b \in Breaches :
              OwnOpen(s)' \subseteq OwnOpen(s) \cup {b} /\ i \notin Creators(s)'
<1>1. CASE UNCHANGED <<breach, reopened>>
  BY <1>1 DEF OwnOpen, OpenRows, Managed
<1>2. ASSUME NEW i \in Ingests, NEW x \in ing[i].todo, Write(i, x)
      PROVE  \/ OwnOpen(s)' \subseteq OwnOpen(s)
             \/ \E b \in Breaches : /\ OwnOpen(s)' \subseteq OwnOpen(s) \cup {b}
                                    /\ i \in Creators(s) /\ i \notin Creators(s)'
  <2>1. /\ x \in Writes /\ ing[i].msg \in Msgs /\ ing[i].pc = "write"
        /\ Apply(x, ing[i].msg) /\ Disturbed(i, Done(i, x)) /\ UNCHANGED reopened
    BY <1>2, WriteFacts
  <2>2. PICK b \in Breaches, row \in BreachRow :
          /\ BreachEdited(b, row)
          /\ \/ /\ x.kind = "create" /\ breach[b].state = "absent"
                /\ row.state = "open" /\ row.auto /\ row.signal = x.signal
             \/ /\ x.kind = "update" /\ b = x.row /\ row.state = breach[b].state
                /\ SameKind(row, breach[b])
             \/ /\ x.kind = "fix" /\ b = x.row /\ row.state = "fixed"
                /\ SameKind(row, breach[b])
    BY <2>1, ApplyFacts
  <2>3. CASE x.kind # "create" \/ x.signal # s
    <3>1. OwnOpen(s)' \subseteq OwnOpen(s)
      BY <2>1, <2>2, <2>3 DEF OwnOpen, OpenRows, Managed, BreachEdited, SameKind
    <3>2. QED
      BY <3>1
  <2>4. CASE x.kind = "create" /\ x.signal = s
    <3>1. OwnOpen(s)' \subseteq OwnOpen(s) \cup {b}
      BY <2>1, <2>2 DEF OwnOpen, OpenRows, Managed, BreachEdited
    <3>2. i \in Creators(s)
      BY <2>1, <2>4 DEF Creators, WillCreate
    <3>3. ing'[i] = Done(i, x)
      BY <2>1 DEF Disturbed
    <3>4. ing'[i].todo \subseteq ing[i].todo \ {x} /\ ing[i].todo \in SUBSET Writes
      <4>1. ing[i].todo \in SUBSET Writes
        BY DEF TypeInv, LedgerTypeOK, IngestState
      <4>2. CASE ing[i].todo = {x}
        BY <2>1, <3>3, <4>1, <4>2, DoneFacts, IdleIngestTyped
      <4>3. CASE ing[i].todo # {x}
        BY <2>1, <3>3, <4>1, <4>3, DoneFacts
      <4>4. QED
        BY <4>2, <4>3
    <3>5. ASSUME NEW y \in Writes, y.kind = "create", y.signal = s PROVE y = x
      <4>1. y \in [kind : {"create"}, signal : Signals]
        BY <3>5 DEF Writes
      <4>2. x \in [kind : {"create"}, signal : Signals]
        BY <2>1, <2>4 DEF Writes
      <4>3. QED
        BY <2>4, <3>5, <4>1, <4>2
    <3>6. ~WillCreate(ing'[i], s)
      BY <3>4, <3>5 DEF WillCreate
    <3>7. QED
      BY <3>1, <3>2, <3>6 DEF Creators
  <2>5. QED
    BY <2>3, <2>4
<1>3. CASE OpenManually
  <2>1. PICK b \in Breaches, row \in BreachRow : BreachEdited(b, row) /\ ~row.auto
    BY <1>3, OpenManuallyFacts
  <2>2. UNCHANGED reopened
    BY <1>3, OpenManuallyFacts
  <2>3. QED
    BY <2>1, <2>2 DEF OwnOpen, OpenRows, Managed, BreachEdited
<1>4. ASSUME NEW b \in Breaches, SetState(b) PROVE OwnOpen(s)' \subseteq OwnOpen(s)
  <2>1. PICK row \in BreachRow :
              /\ BreachEdited(b, row)
              /\ reopened' = IF row.state = "open" THEN reopened \cup {b} ELSE reopened
    BY <1>4, SetStateFacts
  <2>2. QED
    BY <2>1 DEF OwnOpen, OpenRows, Managed, BreachEdited
<1>5. QED
  BY <1>1, <1>2, <1>3, <1>4, LedgerWriters DEF Creators

LEMMA OpenInvInit == Init => OpenInv
<1>1. SUFFICES ASSUME Init, NEW s \in Signals
               PROVE  Cardinality(OwnOpen(s)) + Cardinality(Creators(s)) <= Cardinality(Ingests)
  BY DEF OpenInv
<1>2. OwnOpen(s) = {}
  <2>1. \A b \in Breaches : breach[b].state = "absent"
    BY <1>1 DEF Init
  <2>2. QED
    BY <2>1 DEF OwnOpen, OpenRows, Managed
<1>3. Creators(s) = {}
  <2>1. \A i \in Ingests : ing[i].pc = "idle"
    BY <1>1, IdleIngestTyped DEF Init
  <2>2. QED
    BY <2>1 DEF Creators, WillCreate
<1>4. Cardinality(OwnOpen(s)) = 0 /\ Cardinality(Creators(s)) = 0
  BY <1>2, <1>3, FS_EmptySet
<1>5. Cardinality(Ingests) \in Nat
  BY OpenFinite
<1>6. QED
  BY <1>4, <1>5

LEMMA OpenInvStep ==
  ASSUME TypeInv, TypeInv', OpenInv, [Next]_vars
  PROVE  OpenInv'
<1>1. SUFFICES ASSUME NEW s \in Signals
               PROVE  Cardinality(OwnOpen(s)') + Cardinality(Creators(s)') <= Cardinality(Ingests)
  BY DEF OpenInv
<1>2. /\ IsFiniteSet(OwnOpen(s)) /\ IsFiniteSet(Creators(s))
      /\ Cardinality(OwnOpen(s)) \in Nat /\ Cardinality(Creators(s)) \in Nat
      /\ Cardinality(Ingests) \in Nat
      /\ Cardinality(OwnOpen(s)) + Cardinality(Creators(s)) <= Cardinality(Ingests)
  BY OpenFinite DEF OpenInv
<1>3. /\ IsFiniteSet(OwnOpen(s)') /\ IsFiniteSet(Creators(s)')
      /\ Cardinality(OwnOpen(s)') \in Nat /\ Cardinality(Creators(s)') \in Nat
      /\ Cardinality(Creators(s)') <= Cardinality(Ingests)
  <2>1. IsFiniteSet(Ingests) /\ IsFiniteSet(Breaches)
    BY TelemetryAssumption DEF TelemetryAssumption
  <2>2. OwnOpen(s)' \subseteq Breaches /\ Creators(s)' \subseteq Ingests
    BY DEF OwnOpen, OpenRows, Creators
  <2>3. QED
    BY <2>1, <2>2, FS_Subset, FS_CardinalityType
<1>4. CASE OpenRows(s) = {} /\ UNCHANGED breach
  <2>1. OwnOpen(s)' = {}
    BY <1>4 DEF OwnOpen, OpenRows, Managed
  <2>2. Cardinality(OwnOpen(s)') = 0
    BY <2>1, FS_EmptySet
  <2>3. QED
    BY <1>2, <1>3, <2>2
<1>5. CASE Creators(s)' \subseteq Creators(s)
  <2>1. Cardinality(Creators(s)') <= Cardinality(Creators(s))
    BY <1>2, <1>5, FS_Subset
  <2>2. CASE OwnOpen(s)' \subseteq OwnOpen(s)
    <3>1. Cardinality(OwnOpen(s)') <= Cardinality(OwnOpen(s))
      BY <1>2, <2>2, FS_Subset
    <3>2. QED
      BY <1>2, <1>3, <2>1, <3>1
  <2>3. ASSUME NEW i \in Creators(s), NEW b \in Breaches,
               OwnOpen(s)' \subseteq OwnOpen(s) \cup {b}, i \notin Creators(s)'
        PROVE  Cardinality(OwnOpen(s)') + Cardinality(Creators(s)') <= Cardinality(Ingests)
    <3>1. /\ IsFiniteSet(OwnOpen(s) \cup {b})
          /\ Cardinality(OwnOpen(s) \cup {b}) <= Cardinality(OwnOpen(s)) + 1
      <4>1. /\ IsFiniteSet(OwnOpen(s) \cup {b})
            /\ Cardinality(OwnOpen(s) \cup {b}) =
                 IF b \in OwnOpen(s) THEN Cardinality(OwnOpen(s)) ELSE Cardinality(OwnOpen(s)) + 1
        BY <1>2, FS_AddElement
      <4>2. QED
        BY <1>2, <4>1
    <3>2. Cardinality(OwnOpen(s)') <= Cardinality(OwnOpen(s)) + 1
      <4>1. Cardinality(OwnOpen(s)') <= Cardinality(OwnOpen(s) \cup {b})
        BY <2>3, <3>1, FS_Subset
      <4>2. Cardinality(OwnOpen(s) \cup {b}) \in Nat
        BY <3>1, FS_CardinalityType
      <4>3. QED
        BY <1>2, <1>3, <3>1, <4>1, <4>2
    <3>3. Cardinality(Creators(s)') <= Cardinality(Creators(s)) - 1
      <4>1. /\ IsFiniteSet(Creators(s) \ {i})
            /\ Cardinality(Creators(s) \ {i}) = Cardinality(Creators(s)) - 1
        BY <1>2, FS_RemoveElement
      <4>2. Creators(s)' \subseteq Creators(s) \ {i}
        BY <1>5, <2>3
      <4>3. QED
        BY <4>1, <4>2, FS_Subset
    <3>4. QED
      BY <1>2, <1>3, <3>2, <3>3
  <2>4. QED
    BY <2>2, <2>3, RowsOpenedStep
<1>6. QED
  BY <1>4, <1>5, CreatorsStep

(* OpenRowsBounded: one breach is open in no more rows than there are       *)
(* ingests at a time, rows an operator has reopened aside.                  *)
THEOREM OpenRowsAlwaysBounded == Spec => []OpenRowsBounded
<1>1. OpenInv => OpenRowsBounded
  <2>1. SUFFICES ASSUME OpenInv, NEW s \in Signals
                 PROVE  Cardinality(OpenRows(s) \ reopened) <= Cardinality(Ingests)
    BY DEF OpenRowsBounded
  <2>2. OpenRows(s) \ reopened = OwnOpen(s)
    BY DEF OwnOpen
  <2>3. Cardinality(OwnOpen(s)) + Cardinality(Creators(s)) <= Cardinality(Ingests)
    BY <2>1 DEF OpenInv
  <2>4. /\ Cardinality(OwnOpen(s)) \in Nat /\ Cardinality(Creators(s)) \in Nat
        /\ Cardinality(Ingests) \in Nat
    BY OpenFinite
  <2>5. Cardinality(OwnOpen(s)) <= Cardinality(Ingests)
    BY <2>3, <2>4
  <2>6. QED
    BY <2>2, <2>5
<1>2. QED
  BY <1>1, TypeInit, TypeStep, OpenInvInit, OpenInvStep, PTL DEF Spec

-----------------------------------------------------------------------------
(* How often one snapshot is stored in a row                                *)

LEMMA StoredStep ==
  ASSUME TypeInv, [Next]_vars
  PROVE  UNCHANGED stored \/ \E i \in Ingests : Store(i)
<1>1. ASSUME NEW i \in Ingests, IngestStep(i), ~Store(i) PROVE UNCHANGED stored
  BY <1>1, AuthenticateFacts, ReadLatestFacts, DropFacts, ReadLedgerFacts, WriteFacts,
     LoseFacts DEF IngestStep
<1>2. CASE UNCHANGED telemetryVars \/ UNCHANGED vars
  BY <1>2 DEF telemetryVars, vars
<1>3. CASE OpenManually \/ ReadStatus \/ Tick
  BY <1>3, OpenManuallyFacts, ReadStatusFacts, TickFacts
<1>4. ASSUME NEW b \in Breaches, SetState(b) PROVE UNCHANGED stored
  BY <1>4, SetStateFacts
<1>5. QED
  BY <1>1, <1>2, <1>3, <1>4 DEF Next

WillStore(call, m) == call.pc = "store" /\ call.msg = m

LEMMA WillStoreStep ==
  ASSUME TypeInv, [Next]_vars, NEW i \in Ingests, NEW m, WillStore(ing'[i], m)
  PROVE  WillStore(ing[i], m) \/ (UNCHANGED stored /\ ~Duplicate(m))
<1>1. CASE ing'[i] = ing[i]
  BY <1>1 DEF WillStore
<1>2. CASE Undisturbed(ing'[i], ing[i])
  BY <1>2 DEF WillStore, Undisturbed
<1>3. ASSUME NEW j \in Ingests \ {i}, IngestStep(j)
      PROVE  ing'[i] = ing[i] \/ Undisturbed(ing'[i], ing[i])
  BY <1>3, AuthenticateFacts, ReadLatestFacts, DropFacts, StoreFacts, ReadLedgerFacts,
     WriteFacts, LoseFacts DEF IngestStep, IngestEdited, Disturbed
<1>4. CASE ReadLatest(i)
  BY <1>4, ReadLatestFacts DEF IngestEdited, WillStore
<1>5. ASSUME IngestStep(i), ~ReadLatest(i) PROVE FALSE
  <2>1. CASE Authenticate(i)
    BY <2>1, AuthenticateFacts DEF IngestEdited, WillStore
  <2>2. CASE DropDuplicate(i)
    BY <2>2, DropFacts, IdleIngestTyped DEF IngestEdited, WillStore
  <2>3. CASE Store(i)
    BY <2>3, StoreFacts DEF IngestEdited, WillStore
  <2>4. CASE ReadLedger(i)
    BY <2>4, ReadLedgerFacts, IdleIngestTyped DEF IngestEdited, WillStore
  <2>5. ASSUME NEW x \in ing[i].todo, Write(i, x) \/ LoseWrite(i, x) PROVE FALSE
    <3>1. /\ ing[i].pc = "write"
          /\ ing'[i] = Done(i, x) \/ Undisturbed(ing'[i], Done(i, x))
      BY <2>5, WriteFacts, LoseFacts DEF Disturbed
    <3>2. Done(i, x).pc \in {"idle", "write"}
      BY <3>1, DoneFacts, IdleIngestTyped
    <3>3. QED
      BY <3>1, <3>2 DEF WillStore, Undisturbed
  <2>6. QED
    BY <1>5, <2>1, <2>2, <2>3, <2>4, <2>5 DEF IngestStep
<1>6. CASE UNCHANGED telemetryVars \/ UNCHANGED vars
  BY <1>1, <1>6 DEF telemetryVars, vars
<1>7. CASE OpenManually \/ ReadStatus \/ Tick
  BY <1>1, <1>7, OpenManuallyFacts, ReadStatusFacts, TickFacts
<1>8. ASSUME NEW b \in Breaches, SetState(b) PROVE Undisturbed(ing'[i], ing[i])
  BY <1>8, SetStateFacts
<1>9. QED
  BY <1>1, <1>2, <1>3, <1>4, <1>5, <1>6, <1>7, <1>8 DEF Next

(* The calls that are still to store a snapshot.                            *)
Storers(m) == {i \in Ingests : WillStore(ing[i], m)}

(* From position n on, nothing but m is stored.                             *)
EndsWith(seq, n, m) == \A k \in (n + 1)..Len(seq) : seq[k] = m

(* What is stored of a snapshot at the end, and what is still to be stored  *)
(* of it, are one per ingest at most.                                       *)
TailInv ==
  \A m \in Msgs : \A n \in 0..Len(stored) :
    EndsWith(stored, n, m) =>
      (Len(stored) - n) + Cardinality(Storers(m)) <= Cardinality(Ingests)

RepeatInv == TailInv /\ RepeatsBounded

LEMMA StorersFinite ==
  ASSUME NEW m
  PROVE  /\ IsFiniteSet(Storers(m)) /\ Cardinality(Storers(m)) \in Nat
         /\ Cardinality(Ingests) \in Nat /\ Cardinality(Storers(m)) <= Cardinality(Ingests)
         /\ IsFiniteSet(Storers(m)') /\ Cardinality(Storers(m)') \in Nat
         /\ Cardinality(Storers(m)') <= Cardinality(Ingests)
<1>1. IsFiniteSet(Ingests)
  BY TelemetryAssumption DEF TelemetryAssumption
<1>2. Storers(m) \subseteq Ingests /\ Storers(m)' \subseteq Ingests
  BY DEF Storers
<1>3. QED
  BY <1>1, <1>2, FS_Subset, FS_CardinalityType

LEMMA TailStep ==
  ASSUME TypeInv, TypeInv', TailInv, [Next]_vars
  PROVE  TailInv'
<1>1. SUFFICES ASSUME NEW m \in Msgs, NEW n \in 0..Len(stored'), EndsWith(stored', n, m)
               PROVE  (Len(stored') - n) + Cardinality(Storers(m)') <= Cardinality(Ingests)
  BY DEF TailInv
<1>2. stored \in Seq(Msgs) /\ stored' \in Seq(Msgs) /\ Len(stored) \in Nat /\ Len(stored') \in Nat
  BY DEF TypeInv, LedgerTypeOK
<1>3. CASE n = Len(stored')
  BY <1>2, <1>3, StorersFinite
<1>4. CASE n < Len(stored') /\ UNCHANGED stored
  <2>1. stored[Len(stored)] = m /\ stored # <<>>
    BY <1>1, <1>2, <1>4 DEF EndsWith
  <2>2. Storers(m)' \subseteq Storers(m)
    <3>1. Duplicate(m)
      BY <2>1 DEF Duplicate
    <3>2. QED
      BY <3>1, WillStoreStep DEF Storers
  <2>3. Cardinality(Storers(m)') <= Cardinality(Storers(m))
    BY <2>2, StorersFinite, FS_Subset
  <2>4. (Len(stored) - n) + Cardinality(Storers(m)) <= Cardinality(Ingests)
    BY <1>1, <1>4 DEF TailInv
  <2>5. QED
    BY <1>2, <1>4, <2>3, <2>4, StorersFinite
<1>5. ASSUME n < Len(stored'), NEW i \in Ingests, Store(i)
      PROVE  (Len(stored') - n) + Cardinality(Storers(m)') <= Cardinality(Ingests)
  <2>1. /\ ing[i].pc = "store" /\ ing[i].msg \in Msgs /\ stored' = Append(stored, ing[i].msg)
        /\ ing'[i].pc = "ledger"
    BY <1>5, StoreFacts DEF IngestEdited
  <2>2. /\ Len(stored') = Len(stored) + 1 /\ stored'[Len(stored')] = ing[i].msg
        /\ \A k \in 1..Len(stored) : stored'[k] = stored[k]
    BY <1>2, <2>1
  <2>3. ing[i].msg = m
    BY <1>1, <1>2, <1>5, <2>2 DEF EndsWith
  <2>4. n \in 0..Len(stored) /\ EndsWith(stored, n, m)
    BY <1>1, <1>2, <1>5, <2>2 DEF EndsWith
  <2>5. (Len(stored) - n) + Cardinality(Storers(m)) <= Cardinality(Ingests)
    BY <2>4 DEF TailInv
  <2>6. i \in Storers(m) /\ i \notin Storers(m)'
    BY <2>1, <2>3 DEF Storers, WillStore
  <2>7. Storers(m)' \subseteq Storers(m)
    <3>1. stored' # stored
      BY <1>2, <2>2
    <3>2. QED
      BY <3>1, WillStoreStep DEF Storers
  <2>8. Cardinality(Storers(m)') <= Cardinality(Storers(m)) - 1
    <3>1. /\ IsFiniteSet(Storers(m) \ {i})
          /\ Cardinality(Storers(m) \ {i}) = Cardinality(Storers(m)) - 1
      BY <2>6, StorersFinite, FS_RemoveElement
    <3>2. Storers(m)' \subseteq Storers(m) \ {i}
      BY <2>6, <2>7
    <3>3. QED
      BY <3>1, <3>2, FS_Subset
  <2>9. QED
    BY <1>2, <2>2, <2>4, <2>5, <2>8, StorersFinite
<1>6. QED
  BY <1>1, <1>2, <1>3, <1>4, <1>5, StoredStep

LEMMA RepeatStep ==
  ASSUME TypeInv, TypeInv', RepeatInv, [Next]_vars
  PROVE  RepeatInv'
<1>1. TailInv'
  BY TailStep DEF RepeatInv
<1>2. stored \in Seq(Msgs) /\ stored' \in Seq(Msgs) /\ Len(stored) \in Nat /\ Len(stored') \in Nat
  BY DEF TypeInv, LedgerTypeOK
<1> DEFINE N == Cardinality(Ingests)
<1>3. N \in Nat
  BY StorersFinite
<1>4. CASE UNCHANGED stored
  BY <1>1, <1>4 DEF RepeatInv, RepeatsBounded
<1>5. ASSUME NEW i \in Ingests, Store(i) PROVE RepeatsBounded'
  <2>1. /\ ing[i].msg \in Msgs /\ stored' = Append(stored, ing[i].msg)
    BY <1>5, StoreFacts
  <2>2. /\ Len(stored') = Len(stored) + 1
        /\ \A k \in 1..Len(stored) : stored'[k] = stored[k]
    BY <1>2, <2>1
  <2>3. SUFFICES ASSUME NEW n \in 1..Len(stored'), n + N <= Len(stored'),
                        \A k \in n..(n + N) : stored'[k] = stored'[n]
                 PROVE  FALSE
    BY DEF RepeatsBounded
  <2>4. CASE n + N <= Len(stored)
    <3>1. \A k \in n..(n + N) : stored[k] = stored[n]
      <4>1. \A k \in n..(n + N) : k \in 1..Len(stored)
        BY <1>2, <1>3, <2>4
      <4>2. n \in n..(n + N)
        BY <1>3
      <4>3. QED
        BY <2>2, <2>3, <4>1, <4>2
    <3>2. n \in 1..Len(stored)
      BY <1>2, <1>3, <2>4
    <3>3. \E k \in n..(n + N) : stored[k] # stored[n]
      BY <2>4, <3>2 DEF RepeatInv, RepeatsBounded
    <3>4. QED
      BY <3>1, <3>3
  <2>5. CASE n + N = Len(stored')
    <3>1. PICK m \in Msgs : stored'[n] = m
      BY <1>2
    <3>2. EndsWith(stored', n - 1, m) /\ n - 1 \in 0..Len(stored')
      BY <1>2, <2>3, <2>5, <3>1 DEF EndsWith
    <3>3. (Len(stored') - (n - 1)) + Cardinality(Storers(m)') <= N
      BY <1>1, <3>2 DEF TailInv
    <3>4. QED
      BY <1>2, <1>3, <2>5, <3>3, StorersFinite
  <2>6. QED
    BY <1>2, <1>3, <2>2, <2>3, <2>4, <2>5
<1>6. QED
  BY <1>1, <1>4, <1>5, StoredStep DEF RepeatInv

LEMMA RepeatInit == Init => RepeatInv
<1>1. SUFFICES ASSUME Init PROVE RepeatInv
  OBVIOUS
<1>2. stored = <<>> /\ Len(stored) = 0
  BY <1>1 DEF Init
<1>3. TailInv
  BY <1>2, StorersFinite DEF TailInv
<1>4. RepeatsBounded
  BY <1>2 DEF RepeatsBounded
<1>5. QED
  BY <1>3, <1>4 DEF RepeatInv

(* RepeatsBounded: one snapshot is stored in a row no more often than there *)
(* are ingests at a time.                                                   *)
THEOREM RepeatsAlwaysBounded == Spec => []RepeatsBounded
<1>1. RepeatInv => RepeatsBounded
  BY DEF RepeatInv
<1>2. QED
  BY <1>1, TypeInit, TypeStep, RepeatInit, RepeatStep, PTL DEF Spec

-----------------------------------------------------------------------------
(* What an ingest that is left alone leaves behind                          *)

OpenIn(table, s) ==
  {b \in Breaches : table[b].state = "open" /\ table[b].auto /\ table[b].signal = s}

IgnoredIn(table, s) ==
  \E b \in Breaches : table[b].state = "ignored" /\ table[b].auto /\ table[b].signal = s

OneOpen(table, s) == \A a, b \in OpenIn(table, s) : a = b

PlannedIn(table, x, m) ==
  /\ x.kind = "create" => Level[m][x.signal] # 0 /\ OpenIn(table, x.signal) = {}
  /\ x.kind = "update" => Level[m][x.signal] # 0 /\ x.row \in OpenIn(table, x.signal)
  /\ x.kind = "fix" => Level[m][x.signal] = 0 /\ x.row \in OpenIn(table, x.signal)

SettledIn(table, s, m) ==
  IF Level[m][s] = 0 THEN OpenIn(table, s) = {}
  ELSE OpenIn(table, s) # {} \/ IgnoredIn(table, s)

(* What is left of a plan brings the ledger to what the snapshot says.      *)
PlanIn(table, todo, m) ==
  /\ \A x \in todo : PlannedIn(table, x, m)
  /\ \A x, y \in todo : x.signal = y.signal => x = y
  /\ \A s \in Signals : (\A x \in todo : x.signal # s) => SettledIn(table, s, m)
  /\ \A s \in Signals : OneOpen(table, s)

AloneInv ==
  \A i \in Ingests :
    ing[i].pc = "write" /\ ing[i].alone => PlanIn(breach, ing[i].todo, ing[i].msg)

LEMMA OpenRowsIn ==
  ASSUME NEW s
  PROVE  OpenRows(s) = OpenIn(breach, s) /\ (Ignored(s) <=> IgnoredIn(breach, s))
BY DEF OpenRows, OpenIn, Managed, Ignored, IgnoredIn

LEMMA PlanIsPlanIn ==
  ASSUME NEW todo, NEW m, PlanOf(todo, m), \A s \in Signals : OneOpen(breach, s)
  PROVE  PlanIn(breach, todo, m)
<1>1. ASSUME NEW x \in todo PROVE PlannedIn(breach, x, m)
  BY OpenRowsIn DEF PlanOf, Planned, PlannedIn
<1>2. ASSUME NEW s \in Signals, Settled(breach, s, m) PROVE SettledIn(breach, s, m)
  BY <1>2 DEF Settled, SettledIn, OpenIn, IgnoredIn
<1>3. QED
  BY <1>1, <1>2 DEF PlanOf, PlanIn

LEMMA AtMostOne ==
  ASSUME NEW S, IsFiniteSet(S), Cardinality(S) <= 1, NEW a \in S, NEW b \in S
  PROVE  a = b
<1>1. SUFFICES ASSUME a # b PROVE FALSE
  OBVIOUS
<1>2. /\ IsFiniteSet(S \ {a}) /\ Cardinality(S \ {a}) = Cardinality(S) - 1
      /\ Cardinality(S) \in Nat /\ Cardinality(S \ {a}) \in Nat
  BY FS_RemoveElement, FS_CardinalityType
<1>3. Cardinality(S \ {a}) = 0
  BY <1>2
<1>4. S \ {a} = {}
  BY <1>2, <1>3, FS_EmptySet
<1>5. QED
  BY <1>1, <1>4

LEMMA AloneOneOpen ==
  ASSUME NEW i, Alone(i), NEW s \in Signals
  PROVE  OneOpen(breach, s)
<1>1. IsFiniteSet(OpenRows(s)) /\ Cardinality(OpenRows(s)) <= 1
  <2>1. IsFiniteSet(Breaches) /\ OpenRows(s) \subseteq Breaches
    BY TelemetryAssumption DEF TelemetryAssumption, OpenRows
  <2>2. QED
    BY <2>1, FS_Subset DEF Alone
<1>2. QED
  BY <1>1, AtMostOne, OpenRowsIn DEF OneOpen

(* The ledger of the signals a write is not about stays as it is.           *)
LEMMA ApplyElsewhere ==
  ASSUME TypeInv, NEW x \in Writes, NEW m \in Msgs, Apply(x, m), PlannedIn(breach, x, m),
         NEW s \in Signals, s # x.signal
  PROVE  /\ OpenIn(breach', s) = OpenIn(breach, s)
         /\ IgnoredIn(breach', s) <=> IgnoredIn(breach, s)
<1>1. PICK b \in Breaches, row \in BreachRow :
           /\ BreachEdited(b, row)
           /\ \/ /\ x.kind = "create" /\ breach[b].state = "absent"
                 /\ row.state = "open" /\ row.auto /\ row.signal = x.signal
              \/ /\ x.kind = "update" /\ b = x.row /\ row.state = breach[b].state
                 /\ SameKind(row, breach[b])
              \/ /\ x.kind = "fix" /\ b = x.row /\ row.state = "fixed"
                 /\ SameKind(row, breach[b])
  BY ApplyFacts
<1>2. x.kind # "create" => breach[b].signal = x.signal /\ row.signal = x.signal
  BY <1>1 DEF PlannedIn, OpenIn, SameKind
<1>3. /\ breach'[b] = row /\ \A c \in Breaches \ {b} : breach'[c] = breach[c]
      /\ row.signal = x.signal
  BY <1>1, <1>2 DEF BreachEdited
<1>4. breach[b].state \notin {"open", "ignored"} \/ breach[b].signal = x.signal
  BY <1>1, <1>2
<1>5. OpenIn(breach', s) = OpenIn(breach, s)
  BY <1>3, <1>4 DEF OpenIn
<1>6. IgnoredIn(breach', s) <=> IgnoredIn(breach, s)
  BY <1>3, <1>4 DEF IgnoredIn
<1>7. QED
  BY <1>5, <1>6

(* And the signal it is about is settled by it.                             *)
LEMMA ApplySettles ==
  ASSUME TypeInv, NEW x \in Writes, NEW m \in Msgs, Apply(x, m), PlannedIn(breach, x, m),
         OneOpen(breach, x.signal)
  PROVE  SettledIn(breach', x.signal, m) /\ OneOpen(breach', x.signal)
<1>1. PICK b \in Breaches, row \in BreachRow :
           /\ BreachEdited(b, row)
           /\ \/ /\ x.kind = "create" /\ breach[b].state = "absent"
                 /\ row.state = "open" /\ row.auto /\ row.signal = x.signal
              \/ /\ x.kind = "update" /\ b = x.row /\ row.state = breach[b].state
                 /\ SameKind(row, breach[b])
              \/ /\ x.kind = "fix" /\ b = x.row /\ row.state = "fixed"
                 /\ SameKind(row, breach[b])
  BY ApplyFacts
<1>2. breach'[b] = row /\ \A c \in Breaches \ {b} : breach'[c] = breach[c]
  BY <1>1 DEF BreachEdited
<1> DEFINE Old == OpenIn(breach, x.signal)
           New == OpenIn(breach', x.signal)
<1>3. CASE x.kind = "create"
  <2>1. Level[m][x.signal] # 0 /\ Old = {}
    BY <1>3 DEF PlannedIn
  <2>2. New = {b}
    BY <1>1, <1>2, <1>3, <2>1 DEF OpenIn
  <2>3. QED
    BY <2>1, <2>2 DEF SettledIn, OneOpen
<1>4. CASE x.kind = "update"
  <2>1. Level[m][x.signal] # 0 /\ b \in Old
    BY <1>1, <1>4 DEF PlannedIn
  <2>2. New = Old
    BY <1>1, <1>2, <1>4 DEF OpenIn, SameKind
  <2>3. QED
    BY <2>1, <2>2 DEF SettledIn, OneOpen
<1>5. CASE x.kind = "fix"
  <2>1. Level[m][x.signal] = 0 /\ b \in Old
    BY <1>1, <1>5 DEF PlannedIn
  <2>2. New = Old \ {b}
    BY <1>1, <1>2, <1>5 DEF OpenIn, SameKind
  <2>3. New = {}
    BY <2>1, <2>2 DEF OneOpen
  <2>4. QED
    BY <2>1, <2>3 DEF SettledIn, OneOpen
<1>6. QED
  BY <1>1, <1>3, <1>4, <1>5

LEMMA PlanApplied ==
  ASSUME TypeInv, NEW todo \in SUBSET Writes, NEW x \in todo, NEW m \in Msgs,
         PlanIn(breach, todo, m), Apply(x, m)
  PROVE  PlanIn(breach', todo \ {x}, m)
<1>1. x \in Writes /\ PlannedIn(breach, x, m) /\ x.signal \in Signals /\ OneOpen(breach, x.signal)
  BY WriteShape DEF PlanIn
<1>2. SettledIn(breach', x.signal, m) /\ OneOpen(breach', x.signal)
  BY <1>1, ApplySettles
<1>3. ASSUME NEW s \in Signals, s # x.signal
      PROVE  /\ OpenIn(breach', s) = OpenIn(breach, s)
             /\ IgnoredIn(breach', s) <=> IgnoredIn(breach, s)
  BY <1>1, <1>3, ApplyElsewhere
<1>4. ASSUME NEW y \in todo \ {x} PROVE PlannedIn(breach', y, m)
  <2>1. y.signal # x.signal /\ PlannedIn(breach, y, m) /\ y.signal \in Signals
    BY WriteShape DEF PlanIn
  <2>2. OpenIn(breach', y.signal) = OpenIn(breach, y.signal)
    BY <1>3, <2>1
  <2>3. QED
    BY <2>1, <2>2 DEF PlannedIn
<1>5. ASSUME NEW s \in Signals, \A y \in todo \ {x} : y.signal # s
      PROVE  SettledIn(breach', s, m)
  <2>1. CASE s = x.signal
    BY <1>2, <2>1
  <2>2. CASE s # x.signal
    <3>1. SettledIn(breach, s, m)
      BY <1>5, <2>2 DEF PlanIn
    <3>2. QED
      BY <1>3, <2>2, <3>1 DEF SettledIn
  <2>3. QED
    BY <2>1, <2>2
<1>6. ASSUME NEW s \in Signals PROVE OneOpen(breach', s)
  <2>1. CASE s = x.signal
    BY <1>2, <2>1
  <2>2. CASE s # x.signal
    BY <1>3, <2>2 DEF PlanIn, OneOpen
  <2>3. QED
    BY <2>1, <2>2
<1>7. QED
  BY <1>4, <1>5, <1>6 DEF PlanIn

(* How a call can come to be writing alone.                                 *)
LEMMA AloneSteps ==
  ASSUME TypeInv, [Next]_vars, NEW i \in Ingests, ing'[i].pc = "write", ing'[i].alone
  PROVE  \/ ing'[i] = ing[i] /\ (UNCHANGED breach \/ OpenManually)
         \/ ReadLedger(i)
         \/ \E x \in ing[i].todo : Write(i, x)
<1>1. ASSUME NEW j \in Ingests \ {i}, IngestStep(j)
      PROVE  ing'[i] = ing[i] /\ UNCHANGED breach
  BY <1>1, AuthenticateFacts, ReadLatestFacts, DropFacts, StoreFacts, ReadLedgerFacts,
     WriteFacts, LoseFacts DEF IngestStep, IngestEdited, Disturbed
<1>2. ASSUME IngestStep(i), ~ReadLedger(i), \A x \in ing[i].todo : ~Write(i, x)
      PROVE  FALSE
  <2>1. CASE Authenticate(i) \/ ReadLatest(i)
    BY <2>1, AuthenticateFacts, ReadLatestFacts DEF IngestEdited
  <2>2. CASE DropDuplicate(i) \/ Store(i)
    BY <2>2, DropFacts, StoreFacts, IdleIngestTyped DEF IngestEdited
  <2>3. ASSUME NEW x \in ing[i].todo, LoseWrite(i, x) PROVE FALSE
    BY <2>3, LoseFacts DEF Disturbed
  <2>4. QED
    BY <1>2, <2>1, <2>2, <2>3 DEF IngestStep
<1>3. CASE UNCHANGED telemetryVars \/ UNCHANGED vars
  BY <1>3 DEF telemetryVars, vars
<1>4. CASE OpenManually
  BY <1>4, OpenManuallyFacts
<1>5. CASE ReadStatus \/ Tick
  BY <1>5, ReadStatusFacts, TickFacts
<1>6. ASSUME NEW b \in Breaches, SetState(b) PROVE FALSE
  BY <1>6, SetStateFacts
<1>7. QED
  BY <1>1, <1>2, <1>3, <1>4, <1>5, <1>6 DEF Next

LEMMA AloneStep ==
  ASSUME TypeInv, AloneInv, [Next]_vars
  PROVE  AloneInv'
<1>1. SUFFICES ASSUME NEW i \in Ingests, ing'[i].pc = "write", ing'[i].alone
               PROVE  PlanIn(breach', ing'[i].todo, ing'[i].msg)
  BY DEF AloneInv
<1>2. CASE ing'[i] = ing[i] /\ UNCHANGED breach
  BY <1>1, <1>2 DEF AloneInv
<1>3. CASE ing'[i] = ing[i] /\ OpenManually
  <2>1. PICK b \in Breaches, row \in BreachRow :
          BreachEdited(b, row) /\ breach[b].state = "absent" /\ ~row.auto
    BY <1>3, OpenManuallyFacts
  <2>2. \A s : /\ OpenIn(breach', s) = OpenIn(breach, s)
               /\ IgnoredIn(breach', s) <=> IgnoredIn(breach, s)
    BY <2>1 DEF BreachEdited, OpenIn, IgnoredIn
  <2>3. PlanIn(breach, ing[i].todo, ing[i].msg)
    BY <1>1, <1>3 DEF AloneInv
  <2>4. QED
    BY <1>3, <2>2, <2>3 DEF PlanIn, PlannedIn, SettledIn, OneOpen
<1>4. CASE ReadLedger(i)
  <2>1. PICK todo \in SUBSET Writes, rec \in IngestState :
              /\ PlanOf(todo, ing[i].msg) /\ IngestEdited(i, rec)
              /\ IF todo = {} THEN rec = IdleIngest
                 ELSE /\ rec.pc = "write" /\ rec.todo = todo /\ rec.msg = ing[i].msg
                      /\ rec.alone = Alone(i)
    BY <1>4, ReadLedgerFacts
  <2>2. ing'[i] = rec
    BY <2>1 DEF IngestEdited
  <2>3. rec.todo = todo /\ rec.msg = ing[i].msg /\ Alone(i)
    BY <1>1, <2>1, <2>2, IdleIngestTyped
  <2>4. PlanIn(breach, todo, ing[i].msg)
    BY <2>1, <2>3, AloneOneOpen, PlanIsPlanIn
  <2>5. UNCHANGED breach
    BY <1>4, ReadLedgerFacts
  <2>6. QED
    BY <2>2, <2>3, <2>4, <2>5
<1>5. ASSUME NEW x \in ing[i].todo, Write(i, x)
      PROVE  PlanIn(breach', ing'[i].todo, ing'[i].msg)
  <2>1. /\ ing[i].pc = "write" /\ ing[i].msg \in Msgs /\ Apply(x, ing[i].msg)
        /\ ing'[i] = Done(i, x)
    BY <1>5, WriteFacts DEF Disturbed
  <2>2. /\ ing'[i].todo = ing[i].todo \ {x} /\ ing'[i].msg = ing[i].msg
        /\ ing[i].alone
    BY <1>1, <1>5, <2>1, DoneFacts, IdleIngestTyped
  <2>3. PlanIn(breach, ing[i].todo, ing[i].msg) /\ ing[i].todo \in SUBSET Writes
    BY <2>1, <2>2 DEF AloneInv, TypeInv, LedgerTypeOK, IngestState
  <2>4. QED
    BY <2>1, <2>2, <2>3, PlanApplied
<1>6. QED
  BY <1>1, <1>2, <1>3, <1>4, <1>5, AloneSteps

LEMMA AloneInit == Init => AloneInv
BY IdleIngestTyped DEF Init, AloneInv

(* How a call that has reached the ledger can end.                          *)
LEMMA EndSteps ==
  ASSUME TypeInv, [Next]_vars, NEW i \in Ingests, ing[i].pc \in {"ledger", "write"},
         ing'[i].pc = "idle"
  PROVE  \/ ReadLedger(i)
         \/ \E x \in ing[i].todo : Write(i, x) \/ LoseWrite(i, x)
<1>1. ing'[i] # ing[i] /\ ~Undisturbed(ing'[i], ing[i])
  BY DEF Undisturbed
<1>2. ASSUME NEW j \in Ingests \ {i}, IngestStep(j) PROVE FALSE
  BY <1>1, <1>2, AuthenticateFacts, ReadLatestFacts, DropFacts, StoreFacts, ReadLedgerFacts,
     WriteFacts, LoseFacts DEF IngestStep, IngestEdited, Disturbed
<1>3. ~Authenticate(i) /\ ~ReadLatest(i) /\ ~DropDuplicate(i) /\ ~Store(i)
  BY DEF Authenticate, ReadLatest, DropDuplicate, Store
<1>4. ~UNCHANGED telemetryVars /\ ~UNCHANGED vars
  BY <1>1 DEF telemetryVars, vars
<1>5. ~OpenManually /\ ~ReadStatus /\ ~Tick
  BY <1>1, OpenManuallyFacts, ReadStatusFacts, TickFacts
<1>6. \A b \in Breaches : ~SetState(b)
  BY <1>1, SetStateFacts
<1>7. QED
  BY <1>2, <1>3, <1>4, <1>5, <1>6 DEF Next, IngestStep

LEMMA SettledAfterwards ==
  ASSUME NEW s, NEW m, SettledIn(breach', s, m), IgnoredIn(breach', s) => Ignored(s)
  PROVE  IF Level[m][s] = 0 THEN OpenRows(s)' = {} ELSE Ignored(s) \/ OpenRows(s)' # {}
<1>1. OpenRows(s)' = OpenIn(breach', s)
  BY DEF OpenRows, OpenIn, Managed
<1>2. QED
  BY <1>1 DEF SettledIn

(* LedgerFollowsSnapshot: an ingest that is left alone and loses no write   *)
(* leaves the ledger saying what its snapshot says.                         *)
THEOREM LedgerAlwaysFollowsSnapshot == Spec => LedgerFollowsSnapshot
<1> DEFINE Follows ==
      \A i \in Ingests :
       /\ ing'[i].pc = "idle"
       /\ \/ ing[i].pc = "ledger" /\ Alone(i)
          \/ ing[i].pc = "write" /\ ing[i].alone /\ breach' # breach
       => \A s \in Signals :
            IF Level[ing[i].msg][s] = 0 THEN OpenRows(s)' = {}
            ELSE Ignored(s) \/ OpenRows(s)' # {}
<1>1. ASSUME TypeInv, AloneInv, [Next]_vars PROVE Follows
  <2>1. SUFFICES ASSUME NEW i \in Ingests, ing'[i].pc = "idle",
                        \/ ing[i].pc = "ledger" /\ Alone(i)
                        \/ ing[i].pc = "write" /\ ing[i].alone /\ breach' # breach,
                        NEW s \in Signals
                 PROVE  IF Level[ing[i].msg][s] = 0 THEN OpenRows(s)' = {}
                        ELSE Ignored(s) \/ OpenRows(s)' # {}
    OBVIOUS
  <2>2. SUFFICES /\ SettledIn(breach', s, ing[i].msg)
                 /\ IgnoredIn(breach', s) => Ignored(s)
    BY SettledAfterwards
  <2>3. CASE ReadLedger(i)
    <3>1. PICK todo \in SUBSET Writes, rec \in IngestState :
              /\ PlanOf(todo, ing[i].msg) /\ IngestEdited(i, rec)
              /\ IF todo = {} THEN rec = IdleIngest
                 ELSE /\ rec.pc = "write" /\ rec.todo = todo /\ rec.msg = ing[i].msg
                      /\ rec.alone = Alone(i)
      BY <1>1, <2>3, ReadLedgerFacts
    <3>2. todo = {} /\ UNCHANGED breach
      BY <1>1, <2>1, <2>3, <3>1, ReadLedgerFacts DEF IngestEdited
    <3>3. Settled(breach, s, ing[i].msg)
      BY <3>1, <3>2 DEF PlanOf
    <3>4. QED
      BY <3>2, <3>3, OpenRowsIn DEF Settled, SettledIn, OpenIn, IgnoredIn
  <2>4. ASSUME NEW x \in ing[i].todo, Write(i, x)
        PROVE  /\ SettledIn(breach', s, ing[i].msg)
               /\ IgnoredIn(breach', s) => Ignored(s)
    <3>1. /\ ing[i].pc = "write" /\ ing[i].msg \in Msgs /\ Apply(x, ing[i].msg)
          /\ ing'[i] = Done(i, x) /\ x \in Writes
      BY <1>1, <2>4, WriteFacts DEF Disturbed
    <3>2. ing[i].todo = {x}
      BY <1>1, <2>1, <2>4, <3>1, DoneFacts
    <3>3. PlanIn(breach, ing[i].todo, ing[i].msg) /\ ing[i].todo \in SUBSET Writes
      BY <1>1, <2>1, <3>1 DEF AloneInv, TypeInv, LedgerTypeOK, IngestState
    <3>4. PlanIn(breach', ing[i].todo \ {x}, ing[i].msg)
      BY <1>1, <3>1, <3>3, PlanApplied
    <3>5. SettledIn(breach', s, ing[i].msg)
      BY <3>2, <3>4 DEF PlanIn
    <3>6. IgnoredIn(breach', s) => IgnoredIn(breach, s)
      BY <1>1, <3>1, ApplyFacts DEF BreachEdited, IgnoredIn, SameKind
    <3>7. QED
      BY <3>5, <3>6, OpenRowsIn
  <2>5. ASSUME NEW x \in ing[i].todo, LoseWrite(i, x) PROVE FALSE
    BY <1>1, <2>1, <2>5, LoseFacts
  <2>6. ing[i].pc \in {"ledger", "write"}
    BY <2>1
  <2>7. QED
    BY <1>1, <2>1, <2>3, <2>4, <2>5, <2>6, EndSteps
<1> HIDE DEF Follows
<1>2. Spec => [][Follows]_vars
  BY <1>1, TypeInit, TypeStep, AloneInit, AloneStep, PTL DEF Spec
<1>3. QED
  BY <1>2 DEF Follows, LedgerFollowsSnapshot

(* IgnoreOutlivesSnapshots: a breach an operator ignores is left alone by   *)
(* every ingest that looks at the ledger afterwards.                        *)
THEOREM IgnoreAlwaysOutlivesSnapshots == Spec => IgnoreOutlivesSnapshots
<1> DEFINE LeftAlone == \A b \in Breaches :
             breach[b].state = "ignored" /\ breach'[b] # breach[b] =>
               \/ calls' # calls
               \/ \E i \in Ingests :
                    /\ ing[i].pc = "write" /\ ~ing[i].alone
                    /\ \E x \in ing[i].todo : x.kind # "create" /\ x.row = b
<1>1. ASSUME TypeInv, AloneInv, [Next]_vars PROVE LeftAlone
  <2>1. SUFFICES ASSUME NEW b \in Breaches, breach[b].state = "ignored",
                        breach'[b] # breach[b], calls' = calls
                 PROVE  \E i \in Ingests :
                          /\ ing[i].pc = "write" /\ ~ing[i].alone
                          /\ \E x \in ing[i].todo : x.kind # "create" /\ x.row = b
    OBVIOUS
  <2>2. ~OpenManually /\ \A c \in Breaches : ~SetState(c)
    BY <1>1, <2>1, OpenManuallyFacts, SetStateFacts
  <2>3. PICK i \in Ingests : \E x \in ing[i].todo : Write(i, x)
    BY <1>1, <2>1, <2>2, LedgerWriters
  <2>4. PICK x \in ing[i].todo : Write(i, x)
    BY <2>3
  <2>5. /\ ing[i].pc = "write" /\ ing[i].msg \in Msgs /\ x \in Writes
        /\ Apply(x, ing[i].msg)
    BY <1>1, <2>4, WriteFacts
  <2>6. x.kind \in {"update", "fix"} /\ x.row = b
    BY <1>1, <2>1, <2>5, ApplyFacts DEF BreachEdited
  <2>7. ASSUME ing[i].alone PROVE FALSE
    <3>1. PlannedIn(breach, x, ing[i].msg)
      BY <1>1, <2>4, <2>5, <2>7 DEF AloneInv, PlanIn
    <3>2. QED
      BY <2>1, <2>6, <3>1 DEF PlannedIn, OpenIn
  <2>8. QED
    BY <2>4, <2>5, <2>6, <2>7
<1> HIDE DEF LeftAlone
<1>2. Spec => [][LeftAlone]_vars
  BY <1>1, TypeInit, TypeStep, AloneInit, AloneStep, PTL DEF Spec
<1>3. QED
  BY <1>2 DEF LeftAlone, IgnoreOutlivesSnapshots
=============================================================================
