------------------------------ MODULE HostKeys ------------------------------
(***************************************************************************)
(* The API keys of one host: the rows of HostApiKey, the administrators'   *)
(* create, rotate and revoke (hosts/[hostId]/keys/route.ts) and the check  *)
(* of a presented key (host-key-auth.ts).                                  *)
(*                                                                         *)
(* Every database call of a handler is an action. A handler keeps what it  *)
(* read (the source row, the version it computed) until it writes; only    *)
(* the two writes of a rotation are one transaction. Tokens are unique     *)
(* random values, so a key is presented by its row's id. A key without an  *)
(* expiry has the expiry Never, later than every instant of the clock.     *)
(***************************************************************************)
EXTENDS Integers, FiniteSets, FiniteSetsExt

CONSTANTS
  Keys,       \* ids of rows of HostApiKey
  Admins,     \* concurrent calls of POST .../keys
  Scopes,     \* HOST_KEY_SCOPE_ORDER
  Expiries,   \* the expiries administrators give, and Never
  MaxVersion, \* the version after which versions repeat (9999 in the code)
  MaxTime,    \* bound: the clock stops here
  MaxCalls,   \* bound: handlers started
  None        \* no key

ASSUME KeysAssumption ==
  /\ Scopes # {} /\ MaxVersion \in Nat \ {0}
  /\ {MaxTime, MaxCalls} \subseteq Nat
  /\ Expiries \subseteq Nat /\ MaxTime + 1 \in Expiries
  /\ None \notin Keys

VARIABLES
  keys,   \* the table
  adm,    \* the administrators' calls
  now,
  calls   \* handlers started so far

keyVars == <<keys, adm>>

-----------------------------------------------------------------------------
Never     == MaxTime + 1
ScopeSets == (SUBSET Scopes) \ {{}}

KeyRow == [live : BOOLEAN, revoked : BOOLEAN, version : 0..MaxVersion,
           scopes : ScopeSets, expires : Expiries, from : Keys \cup {None},
           used : BOOLEAN]

NoKey == [live |-> FALSE, revoked |-> FALSE, version |-> 0, scopes |-> Scopes,
          expires |-> Never, from |-> None, used |-> FALSE]

Live == {k \in Keys : keys[k].live}

(* classifyHostKeyState says active.                                        *)
ActiveKey(k) == keys[k].live /\ ~keys[k].revoked /\ keys[k].expires > now

ActiveKeys == {k \in Keys : ActiveKey(k)}

(* verifyHostTokenForScope lets a request through.                          *)
Verified(k, scope) == ActiveKey(k) /\ scope \in keys[k].scopes

(* Unknown scopes are dropped; an empty list means all of them.             *)
normalizeHostKeyScopes(S, fallback) == IF S = {} THEN fallback ELSE S

toSafeVersion(n) == IF n < 1 THEN 1 ELSE IF n > MaxVersion THEN MaxVersion ELSE n
(* Mutant: only the source's version is trusted.                            *)
OwnVersion(own) == toSafeVersion(own)

nextHostKeyVersion ==
  toSafeVersion(Max({0} \cup {keys[k].version : k \in Live}) + 1)

-----------------------------------------------------------------------------
(* The administrators' calls                                                *)

IdleAdmin == [pc |-> "idle", src |-> None, version |-> 0, scopes |-> Scopes,
              expires |-> Never, given |-> FALSE]

AdminState == [pc : {"idle", "insert", "versions", "commit", "revoke"},
               src : Keys \cup {None}, version : 0..MaxVersion,
               scopes : ScopeSets, expires : Expiries, given : BOOLEAN]

KeysTypeOK ==
  /\ keys \in [Keys -> KeyRow]
  /\ adm \in [Admins -> AdminState]
  /\ now \in 0..MaxTime /\ calls \in Nat

KeysInit ==
  /\ keys = [k \in Keys |-> NoKey]
  /\ adm = [c \in Admins |-> IdleAdmin]
  /\ now = 0 /\ calls = 0

Begin == calls < MaxCalls /\ calls' = calls + 1

NewKey(version, scopes, expires, from) ==
  [NoKey EXCEPT !.live = TRUE, !.version = version, !.scopes = scopes,
                !.expires = expires, !.from = from]

BeginCreate(c) ==
  /\ adm[c].pc = "idle" /\ Begin
  /\ \E asked \in SUBSET Scopes, expires \in Expiries :
       adm' = [adm EXCEPT ![c] =
                 [IdleAdmin EXCEPT !.pc = "insert", !.version = nextHostKeyVersion,
                    !.scopes = normalizeHostKeyScopes(asked, Scopes),
                    !.expires = expires, !.given = TRUE]]
  /\ UNCHANGED <<keys, now>>

InsertKey(c) ==
  /\ adm[c].pc = "insert"
  /\ \E k \in Keys \ Live :
       keys' = [keys EXCEPT ![k] =
                  NewKey(adm[c].version, adm[c].scopes, adm[c].expires, None)]
  /\ adm' = [adm EXCEPT ![c] = IdleAdmin]
  /\ UNCHANGED <<now, calls>>

(* With a source key id any key of the host can be rotated, whatever its    *)
(* state; without one it is the newest active key.                          *)
BeginRotate(c) ==
  /\ adm[c].pc = "idle" /\ Begin
  /\ \E src \in Live,
        asked \in SUBSET Scopes, explicit \in BOOLEAN,
        expires \in Expiries, given \in BOOLEAN :
       adm' = [adm EXCEPT ![c] =
                 [pc |-> "versions", src |-> src, version |-> keys[src].version,
                  scopes |-> IF explicit THEN normalizeHostKeyScopes(asked, Scopes)
                             ELSE keys[src].scopes,
                  expires |-> IF given THEN expires ELSE keys[src].expires,
                  given |-> given]]
  /\ UNCHANGED <<keys, now>>

(* The version of the new key: above the source's and above every row read. *)
SuccessorVersion(own) == toSafeVersion(Max({own + 1, nextHostKeyVersion}))

ReadVersions(c) ==
  /\ adm[c].pc = "versions"
  /\ adm' = [adm EXCEPT ![c] = [@ EXCEPT !.pc = "commit",
                                  !.version = SuccessorVersion(adm[c].version)]]
  /\ UNCHANGED <<keys, now, calls>>

(* Mutant: the source is revoked and no new key is written because the      *)
(* insert failed outside a transaction.                                     *)
RevokeOnly(c) ==
  /\ adm[c].pc = "commit"
  /\ keys' = [keys EXCEPT ![adm[c].src].revoked = TRUE]
  /\ adm' = [adm EXCEPT ![c] = IdleAdmin]
  /\ UNCHANGED <<now, calls>>

Revoked(row) == [row EXCEPT !.revoked = TRUE]

(* One transaction: the new key, and the revocation of its source.          *)
CommitRotation(c) ==
  /\ adm[c].pc = "commit"
  /\ \E k \in Keys \ Live :
       keys' = [keys EXCEPT
         ![k] = NewKey(adm[c].version, adm[c].scopes, adm[c].expires, adm[c].src),
         ![adm[c].src] = Revoked(keys[adm[c].src])]
  /\ adm' = [adm EXCEPT ![c] = IdleAdmin]
  /\ UNCHANGED <<now, calls>>

(* A key found revoked is left as it is.                                    *)
BeginRevoke(c) ==
  /\ adm[c].pc = "idle" /\ Begin
  /\ \E k \in Live :
       adm' = IF keys[k].revoked THEN adm
              ELSE [adm EXCEPT ![c] = [IdleAdmin EXCEPT !.pc = "revoke", !.src = k]]
  /\ UNCHANGED <<keys, now>>

Revoke(c) ==
  /\ adm[c].pc = "revoke"
  /\ keys' = [keys EXCEPT ![adm[c].src] = Revoked(keys[adm[c].src])]
  /\ adm' = [adm EXCEPT ![c] = IdleAdmin]
  /\ UNCHANGED <<now, calls>>

(* touchHostKeyLastUsed, after a key has been verified for a read.          *)
Touched(row) == [row EXCEPT !.used = TRUE]

AdminStep(c) ==
  \/ BeginCreate(c) \/ InsertKey(c)
  \/ BeginRotate(c) \/ ReadVersions(c) \/ CommitRotation(c)
  \/ BeginRevoke(c) \/ Revoke(c)

-----------------------------------------------------------------------------
(* Properties                                                               *)

(* key-lifecycle-runbook.md:9, "immutable version": whatever administrators *)
(* and requests overlap, a key keeps its version, scopes, expiry and        *)
(* lineage, and a revoked key stays revoked.                                *)
KeyIsImmutable ==
  [][\A k \in Live :
       /\ keys'[k].live
       /\ keys[k].revoked => keys'[k].revoked
       /\ keys'[k] = [keys[k] EXCEPT !.revoked = keys'[k].revoked,
                                     !.used = keys'[k].used]]_<<keys, adm, now>>

(* key-lifecycle-runbook.md, "creates a new higher-version key": a key has  *)
(* a higher version than the one it replaces, unless versions are used up.  *)
SuccessorIsNewer ==
  \A k \in Live : keys[k].from # None =>
    keys[k].version = MaxVersion \/ keys[k].version > keys[keys[k].from].version

(* A rotation never locks the host out: the last active key goes away only  *)
(* by a revocation, by the clock, or by a successor given a past expiry.    *)
HostKeepsKey ==
  [][ActiveKeys # {} /\ ActiveKeys' = {} =>
       \/ now' # now
       \/ \E c \in Admins :
            /\ adm[c].pc = "revoke" \/ (adm[c].given /\ adm[c].expires <= now)
            /\ adm'[c].pc = "idle"]_<<keys, adm, now>>
=============================================================================
