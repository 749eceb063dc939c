---------------------------- MODULE AccountsProofs ----------------------------
(* Theorems of Accounts, for every set of concurrent requests, every life of  *)
(* tokens and nonces, and every list of tiers; and of Keepers, for every list *)
(* of wallets and any number of runs, purchases and faults.                   *)
EXTENDS Accounts, Keepers, SequenceTheorems, TLAPS

(***************************************************************************)
(* Types.  A request that has read something carries its key and the       *)
(* number of logouts there had been.                                       *)
(***************************************************************************)

Credential == [kind : {"nonce", "token"}, id : Nat]
Busy == [at : {"nonce", "login", "found", "revoked"}, key : Credential, epoch : Nat]
Row == [from : Credential \cup {Public}, epoch : Nat, late : BOOLEAN, expires : Nat, revoked : BOOLEAN]

SessionTypeOK ==
    /\ store \in {"redis", "table"}
    /\ hour \in Nat /\ issued \in Nat /\ logouts \in Nat
    /\ nonces \subseteq [id : 1 .. issued, expires : Nat]
    /\ tokens \in Seq(Row)
    /\ active \in BOOLEAN /\ blocked \in BOOLEAN
    /\ door \in [Doors -> {Waiting} \cup Busy]

\* The nonce or the row a key names has been issued.
Issued(key) ==
    \/ key.kind = "nonce" /\ key.id \in 1 .. issued
    \/ key.kind = "token" /\ key.id \in DOMAIN tokens

KeysOK ==
    /\ \A d \in Doors : /\ door[d].at \in {"nonce", "login"} => door[d].key.kind = "nonce"
                        /\ door[d].at \in {"found", "revoked"} => door[d].key.kind = "token"
                        /\ door[d].at # "waiting" => Issued(door[d].key)
    /\ \A i \in DOMAIN tokens : tokens[i].from # Public => Issued(tokens[i].from)

\* A request reads a key until it deletes or revokes it, and holds it from then
\* until its session is there.
Reading(d) == door[d].at \in {"nonce", "found"}
Holding(d) == door[d].at \in {"login", "revoked"}

\* The key can be read no more.
Spent(key) ==
    IF key.kind = "nonce" THEN \A n \in nonces : n.id # key.id ELSE tokens[key.id].revoked

\* Two requests may both get through with the key.
Doubled(key) == key \in shared /\ (store = "redis" \/ key.kind = "token")

KeyInv ==
    /\ \A d \in Doors : Holding(d) => Spent(door[d].key)
    /\ \A i \in DOMAIN tokens : tokens[i].from # Public => Spent(tokens[i].from)
    /\ \A d, e \in Doors :
        d # e /\ Reading(d) /\ Reading(e) /\ door[d].key = door[e].key => door[d].key \in shared
    /\ \A d, e \in Doors :
        Reading(d) /\ Holding(e) /\ door[d].key = door[e].key => door[d].key \in shared
    /\ \A d \in Doors, i \in DOMAIN tokens :
        Reading(d) /\ tokens[i].from = door[d].key => door[d].key \in shared
    /\ \A d, e \in Doors :
        d # e /\ Holding(d) /\ Holding(e) /\ door[d].key = door[e].key => Doubled(door[d].key)
    /\ \A d \in Doors, i \in DOMAIN tokens :
        Holding(d) /\ tokens[i].from = door[d].key => Doubled(door[d].key)
    /\ \A i, j \in DOMAIN tokens :
        i # j /\ tokens[i].from = tokens[j].from /\ tokens[i].from # Public => Doubled(tokens[i].from)

\* No door, and no row, was opened before more logouts than there have been; an
\* unrevoked row of before the last one was issued late.
EpochInv ==
    /\ \A d \in Doors : door[d].at # "waiting" => door[d].epoch <= logouts
    /\ \A i \in DOMAIN tokens :
        /\ tokens[i].epoch <= logouts
        /\ ~tokens[i].revoked /\ tokens[i].epoch < logouts => tokens[i].late

(***************************************************************************)
(* Operators.                                                              *)
(***************************************************************************)

LEMMA CredentialKinds ==
    /\ \A n \in Nat : Nonce(n) \in Credential /\ Nonce(n).kind = "nonce" /\ Nonce(n).id = n
    /\ \A i \in Nat : TokenKey(i) \in Credential /\ TokenKey(i).kind = "token" /\ TokenKey(i).id = i
    /\ Public \notin Credential
    BY DEF Nonce, TokenKey, Public, Credential

\* What a request's new stage looks like.
LEMMA BusyDoor ==
    ASSUME NEW key \in Credential, NEW epoch \in Nat,
           NEW stage \in {"nonce", "login", "found", "revoked"}
    PROVE  [at |-> stage, key |-> key, epoch |-> epoch] \in Busy
    BY DEF Busy

LEMMA DoorType ==
    ASSUME SessionTypeOK, NEW d \in Doors
    PROVE  /\ door[d].at = "waiting" <=> door[d] = Waiting
           /\ door[d].at # "waiting" => /\ door[d] \in Busy
                                        /\ door[d].key \in Credential
                                        /\ door[d].epoch \in Nat
    BY DEF SessionTypeOK, Busy, Waiting

LEMMA RowType ==
    ASSUME SessionTypeOK, NEW i \in DOMAIN tokens
    PROVE  tokens[i] \in Row /\ tokens[i].from \in Credential \cup {Public} /\ tokens[i].epoch \in Nat
<1>1. tokens[i] \in Row
    BY DEF SessionTypeOK
<1> QED
    BY <1>1 DEF Row

LEMMA TokenLate ==
    ASSUME NEW from, NEW epoch, epoch < logouts
    PROVE  Token(from, epoch).late
<1>1. Token(from, epoch).late = (epoch < logouts)
    BY Zenon DEF Token
<1> QED
    BY <1>1

\* Issuing a session appends one row and changes no other.
LEMMA IssuesRow ==
    ASSUME SessionTypeOK, NEW from \in Credential \cup {Public}, NEW epoch \in Nat,
           tokens' = Append(tokens, Token(from, epoch))
    PROVE  /\ Token(from, epoch) \in Row
           /\ tokens' \in Seq(Row)
           /\ DOMAIN tokens' = 1 .. Len(tokens) + 1
           /\ DOMAIN tokens = 1 .. Len(tokens)
           /\ \A i \in DOMAIN tokens : i \in DOMAIN tokens' /\ tokens'[i] = tokens[i]
           /\ tokens'[Len(tokens) + 1] = Token(from, epoch)
           /\ \A i \in DOMAIN tokens' : i \notin DOMAIN tokens => i = Len(tokens) + 1
<1>1. Token(from, epoch) \in Row
    BY AccountsAssumption DEF SessionTypeOK, Token, Row
<1> QED
    BY <1>1 DEF SessionTypeOK

(***************************************************************************)
(* Type correctness.                                                       *)
(***************************************************************************)

LEMMA IssuesType ==
    ASSUME SessionTypeOK, NEW d \in Doors, NEW from \in Credential, Issues(d, from),
           door[d].at # "waiting", UNCHANGED <<store, hour, nonces, issued, active, blocked, logouts>>
    PROVE  SessionTypeOK'
<1>1. tokens' \in Seq(Row)
    BY DoorType, IssuesRow DEF Issues
<1>2. door' \in [Doors -> {Waiting} \cup Busy]
    BY DEF SessionTypeOK, Issues, Opens
<1> QED
    BY <1>1, <1>2 DEF SessionTypeOK

LEMMA LoginType ==
    ASSUME SessionTypeOK, NEW d \in Doors, Login(d)
    PROVE  SessionTypeOK'
<1>1. CASE ReadNonce(d)
    <2>1. PICK n \in nonces : Reads(d, "nonce", Nonce(n.id))
        BY <1>1 DEF ReadNonce
    <2>2. Nonce(n.id) \in Credential
        BY CredentialKinds DEF SessionTypeOK
    <2>3. [at |-> "nonce", key |-> Nonce(n.id), epoch |-> logouts] \in Busy
        BY <2>2, BusyDoor DEF SessionTypeOK
    <2> QED
        BY <1>1, <2>1, <2>3 DEF SessionTypeOK, ReadNonce, Reads, Opens
<1>2. CASE ConsumeNonce(d)
    <2>1. door[d] \in Busy
        BY <1>2, DoorType DEF ConsumeNonce, Stands
    <2>2. [door[d] EXCEPT !.at = "login"] \in Busy
        BY <2>1 DEF Busy
    <2>3. nonces' \subseteq nonces
        BY <1>2 DEF ConsumeNonce, Deletes
    <2>4. door' \in [Doors -> {Waiting} \cup Busy]
        BY <1>2, <2>2 DEF SessionTypeOK, ConsumeNonce, Opens
    <2> QED
        BY <1>2, <2>3, <2>4 DEF SessionTypeOK, ConsumeNonce
<1>3. CASE OpenSession(d)
    BY <1>3, DoorType, IssuesType DEF OpenSession, Stands
<1>4. CASE LoginPublic(d)
    <2>1. tokens' \in Seq(Row)
        BY <1>4, IssuesRow DEF LoginPublic, SessionTypeOK
    <2> QED
        BY <1>4, <2>1 DEF SessionTypeOK, LoginPublic
<1> QED
    BY <1>1, <1>2, <1>3, <1>4 DEF Login

LEMMA RefreshType ==
    ASSUME SessionTypeOK, NEW d \in Doors, Refresh(d)
    PROVE  SessionTypeOK'
<1>1. CASE \E i \in DOMAIN tokens : FindToken(d, i)
    <2>1. PICK i \in DOMAIN tokens : FindToken(d, i)
        BY <1>1
    <2>2. TokenKey(i) \in Credential
        BY CredentialKinds DEF SessionTypeOK
    <2>3. [at |-> "found", key |-> TokenKey(i), epoch |-> logouts] \in Busy
        BY <2>2, BusyDoor DEF SessionTypeOK
    <2> QED
        BY <2>1, <2>3 DEF SessionTypeOK, FindToken, Reads, Opens
<1>2. CASE RevokeToken(d)
    <2>1. door[d] \in Busy
        BY <1>2, DoorType DEF RevokeToken, Stands
    <2>2. [door[d] EXCEPT !.at = "revoked"] \in Busy
        BY <2>1 DEF Busy
    <2>3. door' \in [Doors -> {Waiting} \cup Busy]
        BY <1>2, <2>2 DEF SessionTypeOK, RevokeToken, Opens
    <2>4. tokens' \in Seq(Row)
        <3>1. \A row \in Row : [row EXCEPT !.revoked = TRUE] \in Row
            BY DEF Row
        <3> QED
            BY <1>2, <3>1 DEF SessionTypeOK, RevokeToken
    <2> QED
        BY <1>2, <2>3, <2>4 DEF SessionTypeOK, RevokeToken
<1>3. CASE RenewToken(d)
    BY <1>3, DoorType, IssuesType DEF RenewToken, Stands
<1> QED
    BY <1>1, <1>2, <1>3 DEF Refresh

\* The sessions' state is always well typed (auth.service.ts 286-338, 814-864).
THEOREM SessionsTyped == AccountsSpec => []SessionTypeOK
<1>1. AccountsInit => SessionTypeOK
    <2> SUFFICES ASSUME AccountsInit PROVE SessionTypeOK
        OBVIOUS
    <2>1. tokens \in Seq(Row) /\ nonces \subseteq [id : 1 .. issued, expires : Nat]
        BY DEF AccountsInit
    <2>2. door \in [Doors -> {Waiting} \cup Busy]
        BY DEF AccountsInit
    <2> QED
        BY <2>1, <2>2 DEF AccountsInit, SessionTypeOK
<1>2. SessionTypeOK /\ [AccountsNext]_accountVars => SessionTypeOK'
    <2> SUFFICES ASSUME SessionTypeOK, [AccountsNext]_accountVars
                 PROVE  SessionTypeOK'
        OBVIOUS
    <2>1. CASE IssueNonce \/ ClearNonces \/ CreateNonce
        <3>1. hour + NonceTicks \in Nat
            BY AccountsAssumption DEF SessionTypeOK
        <3>2. NewNonce \in [id : 1 .. issued + 1, expires : Nat]
            BY <3>1 DEF SessionTypeOK, NewNonce
        <3> QED
            BY <2>1, <3>2 DEF SessionTypeOK, IssueNonce, ClearNonces, CreateNonce
    <2>2. CASE LogoutAll
        <3>1. \A row \in Row : [row EXCEPT !.revoked = TRUE] \in Row
            BY DEF Row
        <3>2. tokens' \in [1 .. Len(tokens) -> Row] /\ Len(tokens) \in Nat
            BY <2>2, <3>1 DEF SessionTypeOK, LogoutAll
        <3>3. tokens' \in Seq(Row)
            BY <3>2, SeqDef
        <3> QED
            BY <2>2, <3>3 DEF SessionTypeOK, LogoutAll
    <2>3. CASE SetStatus
        BY <2>3 DEF SessionTypeOK, SetStatus
    <2>4. CASE HourPasses
        BY <2>4 DEF SessionTypeOK, HourPasses
    <2>5. ASSUME NEW d \in Doors, Login(d) PROVE SessionTypeOK'
        BY <2>5, LoginType
    <2>6. ASSUME NEW d \in Doors, Refresh(d) PROVE SessionTypeOK'
        BY <2>6, RefreshType
    <2>7. ASSUME NEW d \in Doors, Custody(d) PROVE SessionTypeOK'
        BY <2>7 DEF Custody, PriceActivation, ChargeActivation, sessionVars, SessionTypeOK
    <2>8. CASE UNCHANGED accountVars
        BY <2>8 DEF accountVars, sessionVars, SessionTypeOK
    <2> QED
        BY <2>1, <2>2, <2>3, <2>4, <2>5, <2>6, <2>7, <2>8 DEF AccountsNext, Sessions
<1> QED
    BY <1>1, <1>2, PTL DEF AccountsSpec

(***************************************************************************)
(* Credentials and logouts.                                                *)
(***************************************************************************)

CredentialInv == KeysOK /\ KeyInv /\ EpochInv

\* A new nonce has a number nobody has seen.
LEMMA NoncesKeep ==
    ASSUME SessionTypeOK, CredentialInv, IssueNonce \/ ClearNonces \/ CreateNonce
    PROVE  CredentialInv'
<1>1. /\ issued \in Nat /\ issued' \in {issued, issued + 1}
      /\ \A n \in nonces' : n \in nonces \/ n.id = issued + 1
      /\ UNCHANGED <<store, tokens, door, shared, logouts>>
    BY DEF IssueNonce, ClearNonces, CreateNonce, NewNonce, SessionTypeOK
<1>2. \A key \in Credential : Issued(key) => Issued(key)'
    BY <1>1 DEF Issued
<1>3. \A key \in Credential : Issued(key) /\ Spent(key) => Spent(key)'
    BY <1>1 DEF Issued, Spent, Credential
<1>4. KeysOK'
    BY <1>1, <1>2, DoorType, RowType DEF CredentialInv, KeysOK
<1>5. /\ \A d \in Doors : Holding(d) => Spent(door[d].key)'
      /\ \A i \in DOMAIN tokens : tokens[i].from # Public => Spent(tokens[i].from)'
    <2>1. \A d \in Doors : Holding(d) => door[d].key \in Credential /\ Issued(door[d].key)
        BY DoorType DEF CredentialInv, KeysOK, Holding
    <2>2. \A i \in DOMAIN tokens :
            tokens[i].from # Public => tokens[i].from \in Credential /\ Issued(tokens[i].from)
        BY RowType DEF CredentialInv, KeysOK
    <2> QED
        BY <1>1, <1>3, <2>1, <2>2 DEF CredentialInv, KeyInv
<1>6. KeyInv'
    BY <1>1, <1>5 DEF CredentialInv, KeyInv, Reading, Holding, Doubled
<1>7. EpochInv'
    BY <1>1 DEF CredentialInv, EpochInv
<1> QED
    BY <1>4, <1>6, <1>7 DEF CredentialInv

\* Reading a key that is not spent: nobody holds it and no session came of it,
\* and another reader makes it shared.
LEMMA ReadsKeeps ==
    ASSUME SessionTypeOK, CredentialInv, NEW d \in Doors, NEW key \in Credential,
           NEW stage \in {"nonce", "found"}, stage = "nonce" <=> key.kind = "nonce",
           Issued(key), ~Spent(key), Stands(d, "waiting"), Reads(d, stage, key),
           UNCHANGED <<store, hour, nonces, issued, tokens, active, blocked, logouts>>
    PROVE  CredentialInv'
<1>1. /\ door'[d] = [at |-> stage, key |-> key, epoch |-> logouts]
      /\ \A e \in Doors \ {d} : door'[e] = door[e]
    BY DEF Reads, Opens, SessionTypeOK
<1>2. Reading(d)' /\ ~Holding(d)' /\ door'[d].key = key /\ door'[d].epoch = logouts /\ door'[d].at = stage
    BY <1>1 DEF Reading, Holding
<1>3. \A e \in Doors \ {d} : Reading(e)' = Reading(e) /\ Holding(e)' = Holding(e)
    BY <1>1 DEF Reading, Holding
<1>4. \A k : /\ Spent(k)' <=> Spent(k)
             /\ Issued(k)' <=> Issued(k)
             /\ k \in shared => k \in shared'
             /\ Doubled(k) => Doubled(k)'
    BY DEF Spent, Issued, Reads, Doubled
<1>5. KeysOK'
    BY <1>1, <1>2, <1>4, CredentialKinds DEF CredentialInv, KeysOK, Credential
<1>6. \A e \in Doors \ {d} : Reading(e) /\ door[e].key = key => key \in shared'
    <2> SUFFICES ASSUME NEW e \in Doors \ {d}, Reading(e), door[e].key = key PROVE key \in shared'
        OBVIOUS
    <2>1. door[e].at = stage
        BY DEF CredentialInv, KeysOK, Reading, Credential
    <2> QED
        BY <2>1 DEF Reads, AlsoReading, Stands
<1>7. KeyInv'
    <2>1. \A e \in Doors : Holding(e) => door[e].key # key
        BY DEF CredentialInv, KeyInv
    <2>2. \A i \in DOMAIN tokens : tokens[i].from # key
        BY CredentialKinds DEF CredentialInv, KeyInv
    <2> QED
        BY <1>1, <1>2, <1>3, <1>4, <1>6, <2>1, <2>2 DEF CredentialInv, KeyInv
<1>8. EpochInv'
    BY <1>1, <1>2 DEF CredentialInv, EpochInv, SessionTypeOK
<1> QED
    BY <1>5, <1>7, <1>8 DEF CredentialInv

\* Deleting a nonce: a request that goes on from it holds it alone, unless redis
\* let two of its readers through.
LEMMA ConsumeNonceKeeps ==
    ASSUME SessionTypeOK, CredentialInv, NEW d \in Doors, ConsumeNonce(d)
    PROVE  CredentialInv'
<1> DEFINE key == door[d].key
           isThere == \E n \in nonces : n.id = key.id
<1>1. /\ key \in Credential /\ key.kind = "nonce" /\ Issued(key)
      /\ Reading(d) /\ ~Holding(d) /\ door[d] \in Busy
    BY DoorType DEF ConsumeNonce, Stands, CredentialInv, KeysOK, Reading, Holding
<1>2. \A e \in Doors \ {d} : door'[e] = door[e]
    BY DEF ConsumeNonce, Opens, SessionTypeOK
<1>3. \/ door'[d] = Waiting
      \/ door'[d] = [door[d] EXCEPT !.at = "login"] /\ (store = "redis" \/ isThere)
    BY DEF ConsumeNonce, Opens, SessionTypeOK
<1>4. \/ door'[d].at = "waiting"
      \/ /\ door'[d].at = "login" /\ door'[d].key = key /\ door'[d].epoch = door[d].epoch
         /\ store = "redis" \/ ~Spent(key)
    BY <1>1, <1>3 DEF Waiting, Busy, Spent
<1>5. ~Reading(d)'
    BY <1>4 DEF Reading
<1>6. \A e \in Doors \ {d} : Reading(e)' = Reading(e) /\ Holding(e)' = Holding(e)
    BY <1>2 DEF Reading, Holding
<1>7. /\ \A k : k = key => Spent(k)'
      /\ \A k : /\ Spent(k) => Spent(k)'
                /\ Issued(k)' <=> Issued(k)
                /\ Doubled(k)' <=> Doubled(k)
    <2>1. /\ nonces' \subseteq nonces
          /\ \A n \in nonces' : n.id # key.id
          /\ UNCHANGED <<tokens, issued, shared, store>>
        BY DEF ConsumeNonce, Deletes
    <2>2. \A k : k = key => Spent(k)'
        BY <1>1, <2>1 DEF Spent
    <2>3. \A k : Spent(k) => Spent(k)'
        BY <2>1 DEF Spent
    <2>4. \A k : (Issued(k)' <=> Issued(k)) /\ (Doubled(k)' <=> Doubled(k))
        BY <2>1 DEF Issued, Doubled
    <2> QED
        BY <2>2, <2>3, <2>4
<1>8. UNCHANGED <<tokens, shared, logouts, store>>
    BY DEF ConsumeNonce
<1>9. KeysOK'
    BY <1>1, <1>2, <1>4, <1>7, <1>8 DEF CredentialInv, KeysOK
<1>10. Holding(d)' =>
          /\ door'[d].key = key
          /\ \A e \in Doors : Holding(e) /\ door[e].key = key => Doubled(key)
          /\ \A i \in DOMAIN tokens : tokens[i].from = key => Doubled(key)
    <2> SUFFICES ASSUME Holding(d)'
                 PROVE  /\ door'[d].key = key
                        /\ \A e \in Doors : Holding(e) /\ door[e].key = key => Doubled(key)
                        /\ \A i \in DOMAIN tokens : tokens[i].from = key => Doubled(key)
        OBVIOUS
    <2>1. door'[d].key = key /\ (store = "redis" \/ ~Spent(key))
        BY <1>4 DEF Holding
    <2>2. \A e \in Doors : Holding(e) /\ door[e].key = key => Spent(key) /\ key \in shared
        BY <1>1 DEF CredentialInv, KeyInv
    <2>3. \A i \in DOMAIN tokens : tokens[i].from = key => Spent(key) /\ key \in shared
        BY <1>1, CredentialKinds DEF CredentialInv, KeyInv
    <2> QED
        BY <2>1, <2>2, <2>3 DEF Doubled
<1>11. KeyInv'
    <2>1. \A e \in Doors : Holding(e)' => Spent(door[e].key)'
        BY <1>2, <1>6, <1>7, <1>10 DEF CredentialInv, KeyInv
    <2>2. \A i \in DOMAIN tokens' : tokens'[i].from # Public => Spent(tokens[i].from)'
        BY <1>7, <1>8 DEF CredentialInv, KeyInv
    <2>3. \A e, f \in Doors :
            e # f /\ Reading(e)' /\ Reading(f)' /\ door'[e].key = door'[f].key => door'[e].key \in shared'
        BY <1>2, <1>5, <1>6, <1>8 DEF CredentialInv, KeyInv
    <2>4. \A e, f \in Doors :
            Reading(e)' /\ Holding(f)' /\ door'[e].key = door'[f].key => door'[e].key \in shared'
        BY <1>1, <1>2, <1>5, <1>6, <1>8, <1>10 DEF CredentialInv, KeyInv
    <2>5. \A e \in Doors, i \in DOMAIN tokens' :
            Reading(e)' /\ tokens'[i].from = door'[e].key => door'[e].key \in shared'
        BY <1>2, <1>5, <1>6, <1>8 DEF CredentialInv, KeyInv
    <2>6. \A e, f \in Doors :
            e # f /\ Holding(e)' /\ Holding(f)' /\ door'[e].key = door'[f].key => Doubled(door[e].key)'
        BY <1>2, <1>6, <1>7, <1>10 DEF CredentialInv, KeyInv
    <2>7. \A e \in Doors, i \in DOMAIN tokens' :
            Holding(e)' /\ tokens'[i].from = door'[e].key => Doubled(door[e].key)'
        BY <1>2, <1>6, <1>7, <1>8, <1>10 DEF CredentialInv, KeyInv
    <2>8. \A i, j \in DOMAIN tokens' :
            i # j /\ tokens'[i].from = tokens'[j].from /\ tokens'[i].from # Public => Doubled(tokens[i].from)'
        BY <1>7, <1>8 DEF CredentialInv, KeyInv
    <2> QED
        BY <2>1, <2>2, <2>3, <2>4, <2>5, <2>6, <2>7, <2>8 DEF KeyInv
<1>12. EpochInv'
    <2>1. \A e \in Doors : door'[e].at # "waiting" => door'[e].epoch <= logouts'
        BY <1>1, <1>2, <1>4, <1>8 DEF CredentialInv, EpochInv, Busy
    <2> QED
        BY <1>8, <2>1 DEF CredentialInv, EpochInv
<1> QED
    BY <1>9, <1>11, <1>12 DEF CredentialInv

\* Revoking a row, and going on from it.
LEMMA RevokeTokenKeeps ==
    ASSUME SessionTypeOK, CredentialInv, NEW d \in Doors, RevokeToken(d)
    PROVE  CredentialInv'
<1> DEFINE key == door[d].key
<1>1. /\ key \in Credential /\ key.kind = "token" /\ Issued(key)
      /\ Reading(d) /\ ~Holding(d) /\ door[d] \in Busy /\ key.id \in DOMAIN tokens
    BY DoorType DEF RevokeToken, Stands, CredentialInv, KeysOK, Reading, Holding, Issued
<1>2. \A e \in Doors \ {d} : door'[e] = door[e]
    BY DEF RevokeToken, Opens, SessionTypeOK
<1>3. \/ door'[d].at = "waiting" /\ tokens' = tokens
      \/ /\ door'[d].at = "revoked" /\ door'[d].key = key /\ door'[d].epoch = door[d].epoch
         /\ tokens' = [tokens EXCEPT ![key.id].revoked = TRUE]
    BY <1>1 DEF RevokeToken, Opens, SessionTypeOK, Waiting, Busy
<1>4. /\ DOMAIN tokens' = DOMAIN tokens
      /\ \A i \in DOMAIN tokens : /\ tokens'[i].from = tokens[i].from
                                  /\ tokens'[i].epoch = tokens[i].epoch
                                  /\ tokens'[i].late = tokens[i].late
                                  /\ tokens[i].revoked => tokens'[i].revoked
    BY <1>1, <1>3, RowType DEF Row
<1>5. ~Reading(d)'
    BY <1>3 DEF Reading
<1>6. \A e \in Doors \ {d} : Reading(e)' = Reading(e) /\ Holding(e)' = Holding(e)
    BY <1>2 DEF Reading, Holding
<1>7. UNCHANGED <<nonces, issued, shared, logouts, store>>
    BY DEF RevokeToken
<1>8. \A k \in Credential : /\ Issued(k)' <=> Issued(k)
                            /\ Issued(k) /\ Spent(k) => Spent(k)'
                            /\ Doubled(k)' <=> Doubled(k)
    BY <1>4, <1>7 DEF Spent, Issued, Doubled, Credential
<1>9. Holding(d)' => Spent(key)' /\ door'[d].key = key
    <2> SUFFICES ASSUME Holding(d)' PROVE Spent(key)' /\ door'[d].key = key
        OBVIOUS
    <2>1. door'[d].key = key /\ tokens' = [tokens EXCEPT ![key.id].revoked = TRUE]
        BY <1>3 DEF Holding
    <2>2. tokens'[key.id].revoked
        BY <1>1, <2>1, RowType DEF Row
    <2> QED
        BY <1>1, <2>1, <2>2 DEF Spent
<1>10. KeysOK'
    BY <1>1, <1>2, <1>3, <1>4, <1>8, DoorType, RowType DEF CredentialInv, KeysOK
<1>11. /\ \A e \in Doors : Holding(e) /\ door[e].key = key => Doubled(key)
       /\ \A i \in DOMAIN tokens : tokens[i].from = key => Doubled(key)
    BY <1>1 DEF CredentialInv, KeyInv, Doubled
<1>12. /\ \A e \in Doors \ {d} : Holding(e) => Spent(door[e].key)'
       /\ \A i \in DOMAIN tokens : tokens[i].from # Public => Spent(tokens[i].from)'
    <2>1. \A e \in Doors : Holding(e) => door[e].key \in Credential /\ Issued(door[e].key)
        BY DoorType DEF CredentialInv, KeysOK, Holding
    <2>2. \A i \in DOMAIN tokens :
            tokens[i].from # Public => tokens[i].from \in Credential /\ Issued(tokens[i].from)
        BY RowType DEF CredentialInv, KeysOK
    <2> QED
        BY <1>2, <1>4, <1>8, <2>1, <2>2 DEF CredentialInv, KeyInv
<1>13. KeyInv'
    <2>1. \A e \in Doors : Holding(e)' => Spent(door[e].key)'
        BY <1>2, <1>6, <1>9, <1>12
    <2>2. \A i \in DOMAIN tokens' : tokens'[i].from # Public => Spent(tokens[i].from)'
        BY <1>4, <1>12
    <2>3. \A e, f \in Doors :
            e # f /\ Reading(e)' /\ Reading(f)' /\ door'[e].key = door'[f].key => door'[e].key \in shared'
        BY <1>2, <1>5, <1>6, <1>7 DEF CredentialInv, KeyInv
    <2>4. \A e, f \in Doors :
            Reading(e)' /\ Holding(f)' /\ door'[e].key = door'[f].key => door'[e].key \in shared'
        BY <1>1, <1>2, <1>5, <1>6, <1>7, <1>9 DEF CredentialInv, KeyInv
    <2>5. \A e \in Doors, i \in DOMAIN tokens' :
            Reading(e)' /\ tokens'[i].from = door'[e].key => door'[e].key \in shared'
        BY <1>2, <1>4, <1>5, <1>6, <1>7 DEF CredentialInv, KeyInv
    <2>6. \A e, f \in Doors :
            e # f /\ Holding(e)' /\ Holding(f)' /\ door'[e].key = door'[f].key => Doubled(door[e].key)'
        BY <1>2, <1>6, <1>7, <1>9, <1>11 DEF CredentialInv, KeyInv, Doubled
    <2>7. \A e \in Doors, i \in DOMAIN tokens' :
            Holding(e)' /\ tokens'[i].from = door'[e].key => Doubled(door[e].key)'
        BY <1>2, <1>4, <1>6, <1>7, <1>9, <1>11 DEF CredentialInv, KeyInv, Doubled
    <2>8. \A i, j \in DOMAIN tokens' :
            i # j /\ tokens'[i].from = tokens'[j].from /\ tokens'[i].from # Public => Doubled(tokens[i].from)'
        BY <1>4, <1>7 DEF CredentialInv, KeyInv, Doubled
    <2> QED
        BY <2>1, <2>2, <2>3, <2>4, <2>5, <2>6, <2>7, <2>8 DEF KeyInv
<1>14. EpochInv'
    <2>1. \A e \in Doors : door'[e].at # "waiting" => door'[e].epoch <= logouts'
        BY <1>1, <1>2, <1>3, <1>7 DEF CredentialInv, EpochInv, Busy
    <2>2. \A i \in DOMAIN tokens' :
            /\ tokens'[i].epoch <= logouts'
            /\ ~tokens'[i].revoked /\ tokens'[i].epoch < logouts' => tokens'[i].late
        BY <1>4, <1>7 DEF CredentialInv, EpochInv
    <2> QED
        BY <2>1, <2>2 DEF EpochInv
<1> QED
    BY <1>10, <1>13, <1>14 DEF CredentialInv

\* Issuing a session from a key that a request holds: the row takes the request's
\* place.
LEMMA IssuesKeeps ==
    ASSUME SessionTypeOK, CredentialInv, NEW d \in Doors, Holding(d), Issues(d, door[d].key),
           UNCHANGED <<store, hour, nonces, issued, active, blocked, shared, logouts>>
    PROVE  CredentialInv'
<1> DEFINE last == Len(tokens) + 1
<1>1. PICK key \in Credential : key = door[d].key /\ Issued(key) /\ Spent(key)
    BY DoorType DEF CredentialInv, KeysOK, KeyInv, Holding
<1>2. door[d].epoch \in Nat /\ door[d].epoch <= logouts
    BY DoorType DEF CredentialInv, EpochInv, Holding
<1>3. tokens' = Append(tokens, Token(key, door[d].epoch))
    BY <1>1 DEF Issues
<1>4. /\ Token(key, door[d].epoch) \in Row
      /\ DOMAIN tokens' = 1 .. Len(tokens) + 1 /\ DOMAIN tokens = 1 .. Len(tokens) /\ Len(tokens) \in Nat
      /\ \A i \in DOMAIN tokens : i \in DOMAIN tokens' /\ tokens'[i] = tokens[i]
      /\ tokens'[last] = Token(key, door[d].epoch)
      /\ \A i \in DOMAIN tokens' : i \notin DOMAIN tokens => i = last
    BY <1>2, <1>3, IssuesRow DEF SessionTypeOK
<1>5. /\ tokens'[last].from = key
      /\ tokens'[last].epoch = door[d].epoch
      /\ door[d].epoch < logouts => tokens'[last].late
    <2>1. tokens'[last].from = key /\ tokens'[last].epoch = door[d].epoch
        BY <1>4 DEF Token
    <2>2. door[d].epoch < logouts => tokens'[last].late
        BY <1>4, TokenLate
    <2> QED
        BY <2>1, <2>2
<1>6. /\ door'[d] = Waiting
      /\ \A e \in Doors \ {d} : door'[e] = door[e]
    BY DEF Issues, Opens, SessionTypeOK
<1>7. /\ door'[d].at = "waiting" /\ ~Reading(d)' /\ ~Holding(d)'
      /\ \A e \in Doors \ {d} : Reading(e)' = Reading(e) /\ Holding(e)' = Holding(e)
    BY <1>6 DEF Waiting, Reading, Holding
<1>8. \A k \in Credential : /\ Issued(k) => Issued(k)'
                            /\ Issued(k) /\ Spent(k) => Spent(k)'
                            /\ Doubled(k)' <=> Doubled(k)
    BY <1>4 DEF Spent, Issued, Doubled, Credential
<1>9. /\ \A e \in Doors : Holding(e) \/ Reading(e) =>
            door[e].key \in Credential /\ Issued(door[e].key)
      /\ \A i \in DOMAIN tokens :
            tokens[i].from # Public => tokens[i].from \in Credential /\ Issued(tokens[i].from)
    BY DoorType, RowType DEF CredentialInv, KeysOK, Holding, Reading
<1>10. KeysOK'
    <2>1. \A e \in Doors : /\ door'[e].at \in {"nonce", "login"} => door'[e].key.kind = "nonce"
                           /\ door'[e].at \in {"found", "revoked"} => door'[e].key.kind = "token"
                           /\ door'[e].at # "waiting" => Issued(door[e].key)'
        BY <1>6, <1>7, <1>8, DoorType DEF CredentialInv, KeysOK
    <2>2. \A i \in DOMAIN tokens' : tokens'[i].from # Public => Issued(tokens[i].from)'
        BY <1>1, <1>4, <1>5, <1>8, <1>9
    <2> QED
        BY <2>1, <2>2 DEF KeysOK
<1>11. /\ \A e \in Doors \ {d} : Reading(e) /\ door[e].key = key => key \in shared
       /\ \A e \in Doors \ {d} : Holding(e) /\ door[e].key = key => Doubled(key)
       /\ \A i \in DOMAIN tokens : tokens[i].from = key => Doubled(key)
    BY <1>1 DEF CredentialInv, KeyInv
<1>12. KeyInv'
    <2>1. \A e \in Doors : Holding(e)' => Spent(door[e].key)'
        BY <1>6, <1>7, <1>8, <1>9 DEF CredentialInv, KeyInv
    <2>2. \A i \in DOMAIN tokens' : tokens'[i].from # Public => Spent(tokens[i].from)'
        BY <1>1, <1>4, <1>5, <1>8, <1>9 DEF CredentialInv, KeyInv
    <2>3. \A e, f \in Doors :
            e # f /\ Reading(e)' /\ Reading(f)' /\ door'[e].key = door'[f].key => door'[e].key \in shared'
        BY <1>6, <1>7 DEF CredentialInv, KeyInv
    <2>4. \A e, f \in Doors :
            Reading(e)' /\ Holding(f)' /\ door'[e].key = door'[f].key => door'[e].key \in shared'
        BY <1>6, <1>7 DEF CredentialInv, KeyInv
    <2>5. \A e \in Doors, i \in DOMAIN tokens' :
            Reading(e)' /\ tokens'[i].from = door'[e].key => door'[e].key \in shared'
        BY <1>4, <1>5, <1>6, <1>7, <1>11 DEF CredentialInv, KeyInv
    <2>6. \A e, f \in Doors :
            e # f /\ Holding(e)' /\ Holding(f)' /\ door'[e].key = door'[f].key => Doubled(door[e].key)'
        BY <1>6, <1>7, <1>8, <1>9 DEF CredentialInv, KeyInv
    <2>7. \A e \in Doors, i \in DOMAIN tokens' :
            Holding(e)' /\ tokens'[i].from = door'[e].key => Doubled(door[e].key)'
        BY <1>4, <1>5, <1>6, <1>7, <1>8, <1>9, <1>11 DEF CredentialInv, KeyInv
    <2>8. \A i, j \in DOMAIN tokens' :
            i # j /\ tokens'[i].from = tokens'[j].from /\ tokens'[i].from # Public => Doubled(tokens[i].from)'
        BY <1>4, <1>5, <1>8, <1>9, <1>11 DEF CredentialInv, KeyInv
    <2> QED
        BY <2>1, <2>2, <2>3, <2>4, <2>5, <2>6, <2>7, <2>8 DEF KeyInv
<1>13. EpochInv'
    <2>1. \A e \in Doors : door'[e].at # "waiting" => door'[e].epoch <= logouts'
        BY <1>6, <1>7 DEF CredentialInv, EpochInv
    <2>2. \A i \in DOMAIN tokens' :
            /\ tokens'[i].epoch <= logouts'
            /\ ~tokens'[i].revoked /\ tokens'[i].epoch < logouts' => tokens'[i].late
        BY <1>2, <1>4, <1>5 DEF CredentialInv, EpochInv
    <2> QED
        BY <2>1, <2>2 DEF EpochInv
<1> QED
    BY <1>10, <1>12, <1>13 DEF CredentialInv

\* A view-only session comes from no key.
LEMMA LoginPublicKeeps ==
    ASSUME SessionTypeOK, CredentialInv, NEW d \in Doors, LoginPublic(d)
    PROVE  CredentialInv'
<1> DEFINE last == Len(tokens) + 1
<1>1. /\ UNCHANGED <<store, nonces, issued, door, shared, logouts>>
      /\ tokens' = Append(tokens, Token(Public, logouts)) /\ logouts \in Nat
    BY DEF LoginPublic, SessionTypeOK
<1>2. /\ DOMAIN tokens' = 1 .. Len(tokens) + 1 /\ DOMAIN tokens = 1 .. Len(tokens) /\ Len(tokens) \in Nat
      /\ \A i \in DOMAIN tokens : i \in DOMAIN tokens' /\ tokens'[i] = tokens[i]
      /\ tokens'[last] = Token(Public, logouts)
      /\ \A i \in DOMAIN tokens' : i \notin DOMAIN tokens => i = last
    BY <1>1, IssuesRow DEF SessionTypeOK
<1>3. tokens'[last].from = Public /\ tokens'[last].epoch = logouts
    BY <1>2 DEF Token
<1>4. \A k \in Credential : /\ Issued(k) => Issued(k)'
                            /\ Issued(k) /\ Spent(k) => Spent(k)'
                            /\ Doubled(k)' <=> Doubled(k)
    BY <1>1, <1>2 DEF Spent, Issued, Doubled, Credential
<1>5. /\ \A e \in Doors : Holding(e) \/ Reading(e) =>
            door[e].key \in Credential /\ Issued(door[e].key)
      /\ \A i \in DOMAIN tokens :
            tokens[i].from # Public => tokens[i].from \in Credential /\ Issued(tokens[i].from)
    BY DoorType, RowType DEF CredentialInv, KeysOK, Holding, Reading
<1>6. \A e \in Doors : (Holding(e)' <=> Holding(e)) /\ (Reading(e)' <=> Reading(e))
    BY <1>1 DEF Holding, Reading
<1>7. KeysOK'
    BY <1>1, <1>2, <1>3, <1>4, <1>5, DoorType DEF CredentialInv, KeysOK
<1>8. KeyInv'
    <2>1. /\ \A e \in Doors : Holding(e)' => Spent(door[e].key)'
          /\ \A i \in DOMAIN tokens' : tokens'[i].from # Public => Spent(tokens[i].from)'
        BY <1>1, <1>2, <1>3, <1>4, <1>5, <1>6 DEF CredentialInv, KeyInv
    <2>2. /\ \A e, f \in Doors :
            e # f /\ Reading(e)' /\ Reading(f)' /\ door'[e].key = door'[f].key => door'[e].key \in shared'
          /\ \A e, f \in Doors :
            Reading(e)' /\ Holding(f)' /\ door'[e].key = door'[f].key => door'[e].key \in shared'
        BY <1>1, <1>6 DEF CredentialInv, KeyInv
    <2>3. \A e \in Doors, i \in DOMAIN tokens' :
            Reading(e)' /\ tokens'[i].from = door'[e].key => door'[e].key \in shared'
        BY <1>1, <1>2, <1>3, <1>5, <1>6, CredentialKinds DEF CredentialInv, KeyInv
    <2>4. \A e, f \in Doors :
            e # f /\ Holding(e)' /\ Holding(f)' /\ door'[e].key = door'[f].key => Doubled(door[e].key)'
        BY <1>1, <1>4, <1>5, <1>6 DEF CredentialInv, KeyInv
    <2>5. \A e \in Doors, i \in DOMAIN tokens' :
            Holding(e)' /\ tokens'[i].from = door'[e].key => Doubled(door[e].key)'
        BY <1>1, <1>2, <1>3, <1>4, <1>5, <1>6, CredentialKinds DEF CredentialInv, KeyInv
    <2>6. \A i, j \in DOMAIN tokens' :
            i # j /\ tokens'[i].from = tokens'[j].from /\ tokens'[i].from # Public => Doubled(tokens[i].from)'
        BY <1>2, <1>3, <1>4, <1>5 DEF CredentialInv, KeyInv
    <2> QED
        BY <2>1, <2>2, <2>3, <2>4, <2>5, <2>6 DEF KeyInv
<1>9. EpochInv'
    BY <1>1, <1>2, <1>3 DEF CredentialInv, EpochInv
<1> QED
    BY <1>7, <1>8, <1>9 DEF CredentialInv

\* Only the last logout's late rows live on: every other one is revoked.
LEMMA LogoutAllKeeps ==
    ASSUME SessionTypeOK, CredentialInv, LogoutAll
    PROVE  CredentialInv'
<1>1. /\ UNCHANGED <<store, nonces, issued, door, shared>>
      /\ logouts' = logouts + 1 /\ logouts \in Nat
    BY DEF LogoutAll, SessionTypeOK
<1>2. /\ DOMAIN tokens' = DOMAIN tokens
      /\ \A i \in DOMAIN tokens : tokens'[i] = [tokens[i] EXCEPT !.revoked = TRUE]
    BY DEF LogoutAll
<1>3. \A i \in DOMAIN tokens : /\ tokens'[i].from = tokens[i].from
                               /\ tokens'[i].epoch = tokens[i].epoch
                               /\ tokens'[i].revoked
    BY <1>2, RowType DEF Row
<1>4. \A k \in Credential : /\ Issued(k)' <=> Issued(k)
                            /\ Issued(k) /\ Spent(k) => Spent(k)'
                            /\ Doubled(k)' <=> Doubled(k)
    BY <1>1, <1>2, <1>3 DEF Issued, Spent, Doubled, Credential
<1>5. /\ \A e \in Doors : Holding(e) \/ Reading(e) =>
            door[e].key \in Credential /\ Issued(door[e].key)
      /\ \A i \in DOMAIN tokens :
            tokens[i].from # Public => tokens[i].from \in Credential /\ Issued(tokens[i].from)
    BY DoorType, RowType DEF CredentialInv, KeysOK, Holding, Reading
<1>6. KeysOK'
    BY <1>1, <1>2, <1>3, <1>4, <1>5, DoorType DEF CredentialInv, KeysOK
<1>7. KeyInv'
    <2>1. \A e \in Doors : (Holding(e)' <=> Holding(e)) /\ (Reading(e)' <=> Reading(e))
        BY <1>1 DEF Holding, Reading
    <2>2. /\ \A e \in Doors : Holding(e)' => Spent(door[e].key)'
          /\ \A i \in DOMAIN tokens' : tokens'[i].from # Public => Spent(tokens[i].from)'
        BY <1>1, <1>2, <1>3, <1>4, <1>5, <2>1 DEF CredentialInv, KeyInv
    <2> QED
        BY <1>1, <1>2, <1>3, <2>1, <2>2 DEF CredentialInv, KeyInv, Doubled
<1>8. EpochInv'
    <2>1. \A e \in Doors : door'[e].at # "waiting" => door'[e].epoch <= logouts'
        BY <1>1, DoorType DEF CredentialInv, EpochInv
    <2>2. \A i \in DOMAIN tokens' : tokens'[i].epoch <= logouts' /\ tokens'[i].revoked
        BY <1>1, <1>2, <1>3, RowType DEF CredentialInv, EpochInv
    <2> QED
        BY <2>1, <2>2 DEF EpochInv
<1> QED
    BY <1>6, <1>7, <1>8 DEF CredentialInv

\* What does not touch keys, rows or the count of logouts.
LEMMA OthersKeep ==
    ASSUME CredentialInv, UNCHANGED <<store, nonces, issued, tokens, door, shared, logouts>>
    PROVE  CredentialInv'
<1>1. KeysOK'
    BY DEF CredentialInv, KeysOK, Issued
<1>2. KeyInv'
    <2>1. \A k : (Spent(k)' <=> Spent(k)) /\ (Doubled(k)' <=> Doubled(k))
        BY DEF Spent, Doubled
    <2>2. \A e \in Doors : (Holding(e)' <=> Holding(e)) /\ (Reading(e)' <=> Reading(e))
        BY DEF Holding, Reading
    <2> QED
        BY <2>1, <2>2 DEF CredentialInv, KeyInv
<1>3. EpochInv'
    BY DEF CredentialInv, EpochInv
<1> QED
    BY <1>1, <1>2, <1>3 DEF CredentialInv

LEMMA LoginKeeps ==
    ASSUME SessionTypeOK, CredentialInv, NEW d \in Doors, Login(d)
    PROVE  CredentialInv'
<1>1. CASE ReadNonce(d)
    <2>1. PICK n \in nonces : Reads(d, "nonce", Nonce(n.id))
        BY <1>1 DEF ReadNonce
    <2>2. n.id \in 1 .. issued /\ n.id \in Nat
        BY DEF SessionTypeOK
    <2>3. Nonce(n.id) \in Credential /\ Nonce(n.id).kind = "nonce" /\ Nonce(n.id).id = n.id
        BY <2>2, CredentialKinds
    <2>4. Issued(Nonce(n.id)) /\ ~Spent(Nonce(n.id))
        BY <2>2, <2>3 DEF Issued, Spent
    <2>5. Stands(d, "waiting") /\ UNCHANGED <<store, hour, nonces, issued, tokens, active, blocked, logouts>>
        BY <1>1 DEF ReadNonce
    <2> QED
        BY <2>1, <2>3, <2>4, <2>5, ReadsKeeps
<1>2. CASE ConsumeNonce(d)
    BY <1>2, ConsumeNonceKeeps
<1>3. CASE OpenSession(d)
    BY <1>3, IssuesKeeps DEF OpenSession, Stands, Holding
<1>4. CASE LoginPublic(d)
    BY <1>4, LoginPublicKeeps
<1> QED
    BY <1>1, <1>2, <1>3, <1>4 DEF Login

LEMMA RefreshKeeps ==
    ASSUME SessionTypeOK, CredentialInv, NEW d \in Doors, Refresh(d)
    PROVE  CredentialInv'
<1>1. CASE \E i \in DOMAIN tokens : FindToken(d, i)
    <2>1. PICK i \in DOMAIN tokens : FindToken(d, i)
        BY <1>1
    <2>2. i \in Nat
        BY DEF SessionTypeOK
    <2>3. TokenKey(i) \in Credential /\ TokenKey(i).kind = "token" /\ TokenKey(i).id = i
        BY <2>2, CredentialKinds
    <2>4. Issued(TokenKey(i)) /\ ~Spent(TokenKey(i))
        BY <2>1, <2>3 DEF Issued, Spent, FindToken, Live
    <2>5. /\ Stands(d, "waiting") /\ Reads(d, "found", TokenKey(i))
          /\ UNCHANGED <<store, hour, nonces, issued, tokens, active, blocked, logouts>>
        BY <2>1 DEF FindToken
    <2> QED
        BY <2>3, <2>4, <2>5, ReadsKeeps
<1>2. CASE RevokeToken(d)
    BY <1>2, RevokeTokenKeeps
<1>3. CASE RenewToken(d)
    BY <1>3, IssuesKeeps DEF RenewToken, Stands, Holding
<1> QED
    BY <1>1, <1>2, <1>3 DEF Refresh

\* Keys, their readers and holders, and the logouts agree in every reachable state.
THEOREM CredentialsInvariant == AccountsSpec => []CredentialInv
<1>1. AccountsInit => CredentialInv
    BY DEF AccountsInit, CredentialInv, KeysOK, KeyInv, EpochInv, Waiting, Reading, Holding
<1>2. SessionTypeOK /\ CredentialInv /\ [AccountsNext]_accountVars => CredentialInv'
    <2> SUFFICES ASSUME SessionTypeOK, CredentialInv, [AccountsNext]_accountVars
                 PROVE  CredentialInv'
        OBVIOUS
    <2>1. CASE IssueNonce \/ ClearNonces \/ CreateNonce
        BY <2>1, NoncesKeep
    <2>2. CASE LogoutAll
        BY <2>2, LogoutAllKeeps
    <2>3. CASE SetStatus
        BY <2>3, OthersKeep DEF SetStatus
    <2>4. CASE HourPasses
        BY <2>4, OthersKeep DEF HourPasses
    <2>5. ASSUME NEW d \in Doors, Login(d) PROVE CredentialInv'
        BY <2>5, LoginKeeps
    <2>6. ASSUME NEW d \in Doors, Refresh(d) PROVE CredentialInv'
        BY <2>6, RefreshKeeps
    <2>7. ASSUME NEW d \in Doors, Custody(d) PROVE CredentialInv'
        BY <2>7, OthersKeep DEF Custody, PriceActivation, ChargeActivation, sessionVars
    <2>8. CASE UNCHANGED accountVars
        BY <2>8, OthersKeep DEF accountVars, sessionVars
    <2> QED
        BY <2>1, <2>2, <2>3, <2>4, <2>5, <2>6, <2>7, <2>8 DEF AccountsNext, Sessions
<1> QED
    BY <1>1, <1>2, SessionsTyped, PTL DEF AccountsSpec

\* Two sessions come of one nonce or one row only where two requests had both
\* read it before either spent it, and with the nonces in the table not even
\* then for a nonce (auth.service.ts 321-338, 818-854).
THEOREM CredentialsAreUsedOnce == AccountsSpec => []CredentialsUsedOnce
<1>1. SessionTypeOK /\ CredentialInv => CredentialsUsedOnce
    BY DEF CredentialInv, KeyInv, Doubled, CredentialsUsedOnce
<1> QED
    BY <1>1, SessionsTyped, CredentialsInvariant, PTL

\* A row that outlives a logout was issued late, by a request already under way
\* (auth.service.ts 859-864, 837-854).
THEOREM LogoutsEndSessions == AccountsSpec => []LogoutEndsSessions
<1>1. CredentialInv => LogoutEndsSessions
    BY DEF CredentialInv, EpochInv, LogoutEndsSessions, Live
<1> QED
    BY <1>1, CredentialsInvariant, PTL

(***************************************************************************)
(* The custodial balance.                                                  *)
(***************************************************************************)

Priced(d) == charging[d].at = "priced"

\* While no two activations were priced together there is one at most, and the
\* balance covers what it owes.
CustodyInv ==
    /\ balance \in Int /\ tier \in DOMAIN Tiers /\ chargedTogether \in BOOLEAN
    /\ charging \in [Doors -> {Free} \cup [at : {"priced"}, tier : DOMAIN Tiers, owed : Nat]]
    /\ ~chargedTogether =>
        /\ balance >= 0
        /\ \A d \in Doors : Priced(d) => charging[d].owed <= balance
        /\ \A d, e \in Doors : Priced(d) /\ Priced(e) => d = e

\* What an activation owes is never negative: a cheaper tier owes nothing.
LEMMA OwedNat ==
    ASSUME NEW t \in DOMAIN Tiers, tier \in DOMAIN Tiers
    PROVE  Owed(t) \in Nat
<1>1. Price(t) \in Nat /\ Price(tier) \in Nat
    BY AccountsAssumption DEF Price
<1> QED
    BY <1>1 DEF Owed

LEMMA PriceKeeps ==
    ASSUME CustodyInv, NEW d \in Doors, NEW t \in DOMAIN Tiers, PriceActivation(d, t)
    PROVE  CustodyInv'
<1> DEFINE doing == [at |-> "priced", tier |-> t, owed |-> Owed(t)]
<1>1. /\ Owed(t) \in Nat /\ Owed(t) <= balance
      /\ UNCHANGED <<balance, tier>>
      /\ ~Priced(d)
    BY OwedNat DEF PriceActivation, CustodyInv, Priced
<1>2. charging' \in [Doors -> {Free} \cup [at : {"priced"}, tier : DOMAIN Tiers, owed : Nat]]
    BY <1>1 DEF CustodyInv, PriceActivation, Charges
<1>3. charging'[d] = doing /\ \A e \in Doors \ {d} : charging'[e] = charging[e]
    BY DEF CustodyInv, PriceActivation, Charges
<1>4. chargedTogether' = (chargedTogether \/ \E e \in Doors \ {d} : Priced(e))
    BY DEF PriceActivation, Priced
<1>5. chargedTogether' \in BOOLEAN
    BY <1>4, Zenon
<1>6. ASSUME ~chargedTogether'
      PROVE  /\ balance >= 0
             /\ \A e \in Doors \ {d} : charging'[e].at # "priced"
             /\ charging'[d].owed <= balance
    <2>1. ~chargedTogether /\ \A e \in Doors \ {d} : ~Priced(e)
        BY <1>4, <1>6, Zenon
    <2> QED
        BY <1>1, <1>3, <2>1 DEF CustodyInv, Priced
<1> QED
    BY <1>1, <1>2, <1>5, <1>6 DEF CustodyInv, Priced

LEMMA ChargeKeeps ==
    ASSUME CustodyInv, NEW d \in Doors, ChargeActivation(d)
    PROVE  CustodyInv'
<1>1. /\ Priced(d) /\ charging[d] \in [at : {"priced"}, tier : DOMAIN Tiers, owed : Nat]
      /\ charging[d].owed \in Nat /\ charging[d].tier \in DOMAIN Tiers
    BY DEF ChargeActivation, CustodyInv, Priced, Free
<1>2. charging'[d] = Free /\ \A e \in Doors \ {d} : charging'[e] = charging[e]
    BY DEF CustodyInv, ChargeActivation, Charges
<1>3. /\ balance' \in Int /\ tier' \in DOMAIN Tiers /\ chargedTogether' \in BOOLEAN
      /\ charging' \in [Doors -> {Free} \cup [at : {"priced"}, tier : DOMAIN Tiers, owed : Nat]]
    BY <1>1 DEF CustodyInv, ChargeActivation, Charges
<1>4. ~chargedTogether' => balance' >= 0
    BY <1>1 DEF CustodyInv, ChargeActivation
<1>5. ~chargedTogether' => \A e \in Doors : ~Priced(e)'
    BY <1>1, <1>2 DEF CustodyInv, ChargeActivation, Priced, Free
<1> QED
    BY <1>3, <1>4, <1>5 DEF CustodyInv

\* The balance pays what was priced, while one activation at a time is priced.
THEOREM CustodyInvariant == AccountsSpec => []CustodyInv
<1>1. AccountsInit => CustodyInv
    <2> SUFFICES ASSUME AccountsInit PROVE CustodyInv
        OBVIOUS
    <2>1. PICK entry \in DOMAIN Tiers : /\ Credit >= Tiers[entry] /\ tier = entry
                                        /\ balance = Credit - Tiers[entry]
        BY DEF AccountsInit
    <2>2. Tiers[entry] \in Nat /\ Credit \in Nat
        BY AccountsAssumption
    <2>3. balance \in Int /\ balance >= 0 /\ tier \in DOMAIN Tiers
        BY <2>1, <2>2
    <2>4. \A d \in Doors : charging[d] = Free /\ ~Priced(d)
        BY DEF AccountsInit, Priced, Free
    <2>5. charging \in [Doors -> {Free} \cup [at : {"priced"}, tier : DOMAIN Tiers, owed : Nat]]
        BY DEF AccountsInit
    <2> QED
        BY <2>3, <2>4, <2>5 DEF AccountsInit, CustodyInv
<1>2. CustodyInv /\ [AccountsNext]_accountVars => CustodyInv'
    <2> SUFFICES ASSUME CustodyInv, [AccountsNext]_accountVars
                 PROVE  CustodyInv'
        OBVIOUS
    <2>1. CASE Sessions
        <3>1. UNCHANGED custodyVars
            BY <2>1 DEF Sessions, IssueNonce, ClearNonces, CreateNonce, LogoutAll, SetStatus, HourPasses, Login, Refresh,
                ReadNonce, ConsumeNonce, OpenSession, LoginPublic, FindToken, RevokeToken, RenewToken
        <3> QED
            BY <3>1 DEF custodyVars, CustodyInv, Priced
    <2>2. ASSUME NEW d \in Doors, Custody(d) PROVE CustodyInv'
        BY <2>2, PriceKeeps, ChargeKeeps DEF Custody
    <2>3. CASE UNCHANGED accountVars
        BY <2>3 DEF accountVars, custodyVars, CustodyInv, Priced
    <2> QED
        BY <2>1, <2>2, <2>3 DEF AccountsNext
<1> QED
    BY <1>1, <1>2, PTL DEF AccountsSpec

\* An account is overdrawn only where two of its activations read the balance
\* before either was charged (package.routes.ts 81-112).
THEOREM AccountNeverOverdrawn == AccountsSpec => []NeverOverdrawn
<1>1. CustodyInv => NeverOverdrawn
    BY DEF CustodyInv, NeverOverdrawn
<1> QED
    BY <1>1, CustodyInvariant, PTL

(***************************************************************************)
(* Auto trading.  A run sends at most one transaction for a wallet whose   *)
(* answer it got; the others for that wallet are missed.  It takes each    *)
(* wallet of its list once, so that transactions of one run for one wallet *)
(* all belong to the time in which the run worked for it.                  *)
(***************************************************************************)

Stages == {"list", "next", "send", "skip", "receipt", "bought", "failed", "abort"}
Working == {"send", "skip", "receipt", "bought", "failed"}
Run == [kind : {"scheduled", "manual"}, status : {"running", "completed", "failed"},
        attempts : SUBSET [order : Nat, user : Wallets,
                           status : {"success", "failed", "skipped"}, tx : Nat]]
Tx == [run : Nat, user : Wallets, call : {"runBot", "botBuy"},
       mined : BOOLEAN, bought : Int]
Call == [at : Stages, todo : Seq(Wallets), user : Wallets \cup {"none"}, order : Nat,
         call : {"runBot", "botBuy"}, tx : Nat, successes : Nat, failures : Nat]

KeepersTyped ==
    /\ room \in [Wallets -> Int]
    /\ runs \in Seq(Run) /\ txs \in Seq(Tx)
    /\ keeper \in Seq(Call \cup {Done}) /\ Len(keeper) = Len(runs)
    /\ \A t \in DOMAIN txs : txs[t].run \in DOMAIN runs
    /\ \A r \in DOMAIN runs : At(r, "list") /\ IsManual(r) => keeper[r].todo # <<>>

\* What a call of run r that stands as k knows of the transactions xs, of which
\* ms are missed.
CallOK(k, r, xs, ms) ==
    k.at # "done" =>
        /\ \A i, j \in DOMAIN k.todo : k.todo[i] = k.todo[j] => i = j
        /\ \A t \in DOMAIN xs : xs[t].run = r =>
               /\ k.at # "list"
               /\ \A i \in DOMAIN k.todo : k.todo[i] # xs[t].user
        /\ k.at \in Working => /\ k.user \in Wallets
                               /\ \A i \in DOMAIN k.todo : k.todo[i] # k.user
        /\ k.at \in {"send", "skip", "failed"} =>
               \A t \in DOMAIN xs : xs[t].run = r /\ xs[t].user = k.user => t \in ms
        /\ k.at \in {"receipt", "bought"} =>
               /\ k.tx \in DOMAIN xs /\ xs[k.tx].run = r /\ xs[k.tx].user = k.user
               /\ \A t \in DOMAIN xs :
                      xs[t].run = r /\ xs[t].user = k.user => t \in ms \/ t = k.tx

CallsOK == \A r \in DOMAIN runs : CallOK(keeper[r], r, txs, missed)

\* Of two transactions of a run for a wallet one is missed.
PairsOK ==
    \A s, t \in DOMAIN txs :
        s # t /\ txs[s].run = txs[t].run /\ txs[s].user = txs[t].user
            => s \in missed \/ t \in missed

RowsOK == \A t \in DOMAIN txs : HasRow(t) \/ Awaited(t) \/ t \in missed

KeepersInv == KeepersTyped /\ CallsOK /\ PairsOK /\ RowsOK

\* More transactions are missed, or some are mined.
LEMMA CallWeaken ==
    ASSUME NEW k, NEW r, NEW xs, NEW ys, NEW ms, NEW ns, CallOK(k, r, xs, ms),
           DOMAIN ys = DOMAIN xs, ms \subseteq ns,
           \A t \in DOMAIN xs : ys[t].run = xs[t].run /\ ys[t].user = xs[t].user
    PROVE  CallOK(k, r, ys, ns)
    BY DEF CallOK

\* Another run sends one.
LEMMA CallAppend ==
    ASSUME NEW k, NEW r, NEW xs \in Seq(Tx), NEW x \in Tx, NEW ms, NEW ns,
           CallOK(k, r, xs, ms), x.run # r, ms \subseteq ns
    PROVE  CallOK(k, r, Append(xs, x), ns)
<1> DEFINE ys == Append(xs, x)
<1>1. DOMAIN ys = DOMAIN xs \cup {Len(xs) + 1} /\ Len(xs) \in Nat /\ DOMAIN xs = 1 .. Len(xs)
    OBVIOUS
<1>2. \A t \in DOMAIN xs : ys[t] = xs[t]
    OBVIOUS
<1>3. ys[Len(xs) + 1] = x
    OBVIOUS
<1> HIDE DEF ys
<1>4. CallOK(k, r, ys, ns)
    BY <1>1, <1>2, <1>3 DEF CallOK
<1> QED
    BY <1>4 DEF ys

\* What run r sent of xs is missed, in a row of run, or awaited by k.
Told(r, k, run, xs, ms) ==
    \A t \in DOMAIN xs : xs[t].run = r =>
        \/ t \in ms
        \/ \E a \in run.attempts : a.status = "success" /\ a.tx = t
        \/ k.at \in {"receipt", "bought"} /\ k.tx = t

\* A call of run r moves on, nothing is sent and no success of another is lost.
LEMMA CallMoves ==
    ASSUME KeepersInv, NEW r \in DOMAIN runs, room' = room, txs' = txs,
           NEW k \in Call \cup {Done}, k.at # "list", keeper' = [keeper EXCEPT ![r] = k],
           NEW run \in Run, runs' = [runs EXCEPT ![r] = run],
           missed \subseteq missed',
           CallOK(k, r, txs, missed'),
           Told(r, k, run, txs, missed')
    PROVE  KeepersInv'
<1>1. /\ runs \in Seq(Run) /\ keeper \in Seq(Call \cup {Done}) /\ Len(keeper) = Len(runs)
      /\ txs' = txs /\ \A t \in DOMAIN txs : txs[t].run \in DOMAIN runs
    BY DEF KeepersInv, KeepersTyped
<1>2. /\ runs' \in Seq(Run) /\ keeper' \in Seq(Call \cup {Done})
      /\ Len(keeper') = Len(runs') /\ DOMAIN runs' = DOMAIN runs /\ DOMAIN keeper = DOMAIN runs
      /\ keeper'[r] = k /\ runs'[r] = run
      /\ \A o \in DOMAIN runs \ {r} : keeper'[o] = keeper[o] /\ runs'[o] = runs[o]
    BY <1>1
<1>3. KeepersTyped'
    <2>1. ASSUME NEW o \in DOMAIN runs, At(o, "list")', IsManual(o)'
          PROVE  keeper'[o].todo # <<>>
        <3>1. o # r /\ keeper'[o] = keeper[o] /\ runs'[o] = runs[o]
            BY <1>2, <2>1 DEF At
        <3> QED
            BY <2>1, <3>1 DEF KeepersInv, KeepersTyped, At, IsManual
    <2> QED
        BY <1>1, <1>2, <2>1 DEF KeepersInv, KeepersTyped
<1>4. CallsOK'
    <2> SUFFICES ASSUME NEW o \in DOMAIN runs PROVE CallOK(keeper'[o], o, txs, missed')
        BY <1>1, <1>2 DEF CallsOK
    <2>1. CASE o = r
        BY <1>2, <2>1
    <2>2. CASE o # r
        <3>1. CallOK(keeper[o], o, txs, missed)
            BY DEF KeepersInv, CallsOK
        <3>2. CallOK(keeper[o], o, txs, missed')
            BY <3>1 DEF CallOK
        <3> QED
            BY <1>2, <2>2, <3>2
    <2> QED
        BY <2>1, <2>2
<1>5. PairsOK'
    BY <1>1 DEF KeepersInv, PairsOK
<1>6. RowsOK'
    <2> SUFFICES ASSUME NEW t \in DOMAIN txs, t \notin missed'
                 PROVE  HasRow(t)' \/ Awaited(t)'
        BY <1>1 DEF RowsOK
    <2>1. CASE txs[t].run = r
        <3>1. CASE \E a \in run.attempts : a.status = "success" /\ a.tx = t
            BY <1>1, <1>2, <2>1, <3>1 DEF HasRow
        <3>2. CASE k.at \in {"receipt", "bought"} /\ k.tx = t
            BY <1>1, <1>2, <2>1, <3>2 DEF Awaited, Awaiting, At
        <3> QED
            BY <2>1, <3>1, <3>2 DEF Told
    <2>2. CASE txs[t].run # r
        <3>1. HasRow(t) \/ Awaited(t)
            BY DEF KeepersInv, RowsOK
        <3>2. CASE HasRow(t)
            BY <1>1, <1>2, <2>2, <3>2 DEF HasRow
        <3>3. CASE Awaited(t)
            <4>1. PICK o \in DOMAIN runs : keeper[o].at \in {"receipt", "bought"} /\ keeper[o].tx = t
                BY <3>3 DEF Awaited, Awaiting, At
            <4>2. txs[t].run = o
                BY <4>1 DEF KeepersInv, CallsOK, CallOK
            <4> QED
                BY <1>2, <2>2, <4>1, <4>2 DEF Awaited, Awaiting, At
        <3> QED
            BY <3>1, <3>2, <3>3
    <2> QED
        BY <2>1, <2>2
<1> QED
    BY <1>3, <1>4, <1>5, <1>6 DEF KeepersInv

\* The same where rows are only added, and the transaction that the call awaited
\* is missed, awaited still or in a row.
LEMMA CallGoes ==
    ASSUME KeepersInv, NEW r \in DOMAIN runs, room' = room, txs' = txs,
           NEW k \in Call \cup {Done}, k.at # "list", keeper' = [keeper EXCEPT ![r] = k],
           NEW run \in Run, runs' = [runs EXCEPT ![r] = run],
           runs[r].attempts \subseteq run.attempts,
           missed \subseteq missed',
           CallOK(k, r, txs, missed'),
           keeper[r].at \in {"receipt", "bought"} =>
               \/ keeper[r].tx \in missed'
               \/ \E a \in run.attempts : a.status = "success" /\ a.tx = keeper[r].tx
               \/ k.at \in {"receipt", "bought"} /\ k.tx = keeper[r].tx
    PROVE  KeepersInv'
<1>1. ASSUME NEW t \in DOMAIN txs, txs[t].run = r, t \notin missed'
      PROVE  \/ \E a \in run.attempts : a.status = "success" /\ a.tx = t
             \/ k.at \in {"receipt", "bought"} /\ k.tx = t
    <2>1. HasRow(t) \/ Awaited(t)
        BY <1>1 DEF KeepersInv, RowsOK
    <2>2. CASE HasRow(t)
        BY <1>1, <2>2 DEF HasRow
    <2>3. CASE Awaited(t)
        <3>1. PICK o \in DOMAIN runs : keeper[o].at \in {"receipt", "bought"} /\ keeper[o].tx = t
            BY <2>3 DEF Awaited, Awaiting, At
        <3>2. txs[t].run = o
            BY <3>1 DEF KeepersInv, CallsOK, CallOK
        <3> QED
            BY <1>1, <3>1, <3>2
    <2> QED
        BY <2>1, <2>2, <2>3
<1>2. Told(r, k, run, txs, missed')
    BY <1>1 DEF Told
<1> QED
    BY <1>2, CallMoves

\* Only the stage of a call changes, and no row.
LEMMA StageGoes ==
    ASSUME KeepersInv, NEW r \in DOMAIN runs, room' = room, txs' = txs, runs' = runs,
           keeper[r].at # "done", NEW k \in Call \cup {Done}, k.at # "list",
           keeper' = [keeper EXCEPT ![r] = k],
           missed \subseteq missed',
           CallOK(k, r, txs, missed'),
           keeper[r].at \in {"receipt", "bought"} =>
               \/ keeper[r].tx \in missed'
               \/ k.at \in {"receipt", "bought"} /\ k.tx = keeper[r].tx
    PROVE  KeepersInv'
<1>1. runs \in Seq(Run)
    BY DEF KeepersInv, KeepersTyped
<1>2. runs[r] \in Run /\ runs' = [runs EXCEPT ![r] = runs[r]]
    BY <1>1
<1> QED
    BY <1>2, CallGoes

\* A call under way is a record with all its fields, and knows its transactions.
LEMMA CallAt ==
    ASSUME KeepersInv, NEW r \in DOMAIN runs, keeper[r].at # "done"
    PROVE  /\ keeper[r] \in Call /\ runs[r] \in Run
           /\ CallOK(keeper[r], r, txs, missed)
<1>1. keeper[r] \in Call \cup {Done} /\ runs[r] \in Run
    BY DEF KeepersInv, KeepersTyped
<1> QED
    BY <1>1 DEF KeepersInv, CallsOK, Done

LEMMA DoneOK ==
    ASSUME NEW r, NEW xs, NEW ms
    PROVE  CallOK(Done, r, xs, ms) /\ Done.at = "done"
    BY DEF CallOK, Done

LEMMA LookUpKept ==
    ASSUME KeepersInv, NEW r \in DOMAIN runs, LookUp(r)
    PROVE  KeepersInv'
<1>1. keeper[r].at = "list" /\ UNCHANGED <<room, txs, runs, missed>>
    BY DEF LookUp, At, chainVars
<1>2. keeper[r] \in Call /\ CallOK(keeper[r], r, txs, missed)
    BY <1>1, CallAt
<1>3. ASSUME NEW stage \in {"next", "abort"}, Goes(r, stage) PROVE KeepersInv'
    <2> DEFINE k == [keeper[r] EXCEPT !.at = stage]
    <2>1. k \in Call /\ k.at = stage /\ k.todo = keeper[r].todo
        BY <1>2 DEF Call, Stages
    <2>2. keeper' = [keeper EXCEPT ![r] = k]
        BY <1>3 DEF Goes
    <2> HIDE DEF k
    <2>3. CallOK(k, r, txs, missed)
        BY <1>1, <1>2, <2>1 DEF CallOK, Working
    <2> QED
        BY <1>1, <2>1, <2>2, <2>3, StageGoes
<1>4. ASSUME keeper' = [keeper EXCEPT ![r] = Done] PROVE KeepersInv'
    BY <1>1, <1>4, DoneOK, StageGoes
<1> QED
    BY <1>3, <1>4 DEF LookUp

LEMMA UnlinkedKept ==
    ASSUME KeepersInv, NEW r \in DOMAIN runs, Unlinked(r)
    PROVE  KeepersInv'
<1>1. /\ keeper[r].at = "list" /\ UNCHANGED <<room, txs, missed>>
      /\ keeper' = [keeper EXCEPT ![r] = Done] /\ IsManual(r)
    BY DEF Unlinked, At, chainVars
<1>2. keeper[r] \in Call /\ runs[r] \in Run /\ CallOK(keeper[r], r, txs, missed)
    BY <1>1, CallAt
<1>3. keeper[r].todo # <<>>
    BY <1>1 DEF KeepersInv, KeepersTyped, At
<1> DEFINE row == [order |-> 1, user |-> Head(keeper[r].todo), status |-> "skipped", tx |-> 0]
           skipped == [runs[r] EXCEPT !.attempts = {row}]
           ended == [skipped EXCEPT !.status = "completed"]
<1>4. row \in [order : Nat, user : Wallets, status : {"success", "failed", "skipped"}, tx : Nat]
    BY <1>2, <1>3 DEF Call
<1>5. skipped \in Run /\ ended \in Run
    <2> HIDE DEF row
    <2> QED
        BY <1>2, <1>4 DEF Run
<1>6. runs \in Seq(Run)
    BY DEF KeepersInv, KeepersTyped
<1>7. \/ runs' = [runs EXCEPT ![r] = runs[r]]
      \/ runs' = [runs EXCEPT ![r] = skipped]
      \/ runs' = [runs EXCEPT ![r] = ended]
    <2>1. runs = [runs EXCEPT ![r] = runs[r]]
        BY <1>6
    <2>2. [runs EXCEPT ![r].attempts = {row}] = [runs EXCEPT ![r] = skipped]
        OBVIOUS
    <2>3. [[runs EXCEPT ![r].attempts = {row}] EXCEPT ![r].status = "completed"]
            = [runs EXCEPT ![r] = ended]
        BY <1>6
    <2> QED
        BY <2>1, <2>2, <2>3 DEF Unlinked
<1> HIDE DEF row, skipped, ended
<1>8. \A t \in DOMAIN txs : txs[t].run # r
    BY <1>1, <1>2 DEF CallOK
<1>9. Done.at # "list" /\ CallOK(Done, r, txs, missed')
    BY DoneOK
<1>10. ASSUME NEW run PROVE Told(r, Done, run, txs, missed')
    BY <1>8 DEF Told
<1> QED
    BY <1>1, <1>2, <1>5, <1>7, <1>9, <1>10, CallMoves

LEMMA ChooseKept ==
    ASSUME KeepersInv, NEW r \in DOMAIN runs, Choose(r)
    PROVE  KeepersInv'
<1>1. keeper[r].at = "next" /\ keeper[r].todo # <<>> /\ UNCHANGED <<room, txs, runs, missed>>
    BY DEF Choose, At, chainVars
<1>2. keeper[r] \in Call /\ CallOK(keeper[r], r, txs, missed)
    BY <1>1, CallAt
<1> DEFINE todo == keeper[r].todo
           u == Head(todo)
<1>3. PICK stage \in {"send", "skip"} :
          keeper' = [keeper EXCEPT ![r] =
                        [keeper[r] EXCEPT !.at = stage, !.todo = Tail(keeper[r].todo),
                                          !.user = Head(keeper[r].todo), !.order = @ + 1,
                                          !.call = "runBot"]]
    BY DEF Choose, Remaining
<1> DEFINE k == [keeper[r] EXCEPT !.at = stage, !.todo = Tail(todo), !.user = u,
                                  !.order = @ + 1, !.call = "runBot"]
<1>4. keeper' = [keeper EXCEPT ![r] = k]
    BY <1>3
<1>5. /\ todo \in Seq(Wallets) /\ todo # <<>> /\ u \in Wallets /\ u = todo[1]
      /\ Tail(todo) \in Seq(Wallets)
      /\ 1 \in DOMAIN todo
      /\ \A i \in DOMAIN Tail(todo) : /\ i + 1 \in DOMAIN todo /\ i # 0 /\ i \in Nat
                                      /\ Tail(todo)[i] = todo[i + 1]
    BY <1>1, <1>2 DEF Call
<1>6. k \in Call /\ k.at = stage /\ k.todo = Tail(todo) /\ k.user = u
    <2>1. stage \in Stages
        BY DEF Stages
    <2> DEFINE Lists == Seq(Wallets)
               Users == Wallets \cup {"none"}
               c == keeper[r]
               tail == Tail(todo)
    <2>2. tail \in Lists /\ u \in Users
        BY <1>5
    <2>3. Call = [at : Stages, todo : Lists, user : Users, order : Nat,
                  call : {"runBot", "botBuy"}, tx : Nat, successes : Nat, failures : Nat]
        BY DEF Call
    <2>4. c \in Call /\ k = [c EXCEPT !.at = stage, !.todo = tail, !.user = u,
                                      !.order = @ + 1, !.call = "runBot"]
        BY <1>2
    <2> HIDE DEF Lists, Users, todo, u, c, tail, k
    <2>5. c.order + 1 \in Nat
        BY <2>3, <2>4
    <2>6. k \in Call /\ k.at = stage /\ k.todo = tail /\ k.user = u
        BY <2>1, <2>2, <2>3, <2>4, <2>5
    <2> QED
        BY <2>6 DEF tail
<1> HIDE DEF k
<1>7. CallOK(k, r, txs, missed)
    <2>1. \A i, j \in DOMAIN todo : todo[i] = todo[j] => i = j
        BY <1>1, <1>2 DEF CallOK
    <2>2. \A t \in DOMAIN txs : txs[t].run = r => \A i \in DOMAIN todo : todo[i] # txs[t].user
        BY <1>1, <1>2 DEF CallOK
    <2> DEFINE tail == Tail(todo)
    <2>3. \A i \in DOMAIN tail : /\ i + 1 \in DOMAIN todo /\ i # 0 /\ i \in Nat
                                 /\ tail[i] = todo[i + 1]
        BY <1>5
    <2> HIDE DEF todo, u, tail
    <2>4. \A i, j \in DOMAIN tail : tail[i] = tail[j] => i = j
        <3> SUFFICES ASSUME NEW i \in DOMAIN tail, NEW j \in DOMAIN tail, tail[i] = tail[j]
                     PROVE  i = j
            OBVIOUS
        <3>1. i + 1 = j + 1
            BY <2>1, <2>3
        <3> QED
            BY <2>3, <3>1
    <2>5. \A i \in DOMAIN tail : tail[i] # u
        <3> SUFFICES ASSUME NEW i \in DOMAIN tail, tail[i] = u PROVE FALSE
            OBVIOUS
        <3>1. i + 1 = 1
            BY <1>5, <2>1, <2>3
        <3> QED
            BY <2>3, <3>1
    <2>6. \A t \in DOMAIN txs : txs[t].run = r => /\ txs[t].user # u
                                                  /\ \A i \in DOMAIN tail : tail[i] # txs[t].user
        BY <1>5, <2>2, <2>3
    <2>7. k.todo = tail
        BY <1>6 DEF tail
    <2> QED
        BY <1>5, <1>6, <2>4, <2>5, <2>6, <2>7 DEF CallOK, Working
<1> QED
    BY <1>1, <1>4, <1>6, <1>7, StageGoes

\* The run ends: its status is written.
LEMMA EndsKept ==
    ASSUME KeepersInv, NEW r \in DOMAIN runs, keeper[r].at \in {"next", "abort"},
           NEW status \in {"completed", "failed"}, Ends(r, status),
           room' = room, txs' = txs, missed' = missed
    PROVE  KeepersInv'
<1>1. runs[r] \in Run
    BY CallAt
<1> DEFINE run == [runs[r] EXCEPT !.status = status]
<1>2. run \in Run /\ run.attempts = runs[r].attempts
    BY <1>1 DEF Run
<1>3. runs' = [runs EXCEPT ![r] = run] /\ keeper' = [keeper EXCEPT ![r] = Done]
    BY DEF Ends
<1> HIDE DEF run
<1>4. Done.at # "list" /\ CallOK(Done, r, txs, missed')
    BY DoneOK
<1> QED
    BY <1>2, <1>3, <1>4, CallGoes

LEMMA FinishKept ==
    ASSUME KeepersInv, NEW r \in DOMAIN runs, Finish(r)
    PROVE  KeepersInv'
<1>1. keeper[r].at = "next" /\ UNCHANGED <<room, txs, missed>>
    BY DEF Finish, At, chainVars
<1>2. keeper[r] \in Call /\ CallOK(keeper[r], r, txs, missed)
    BY <1>1, CallAt
<1>3. CASE Ends(r, Verdict(r))
    <2>1. Verdict(r) \in {"completed", "failed"}
        BY DEF Verdict
    <2> QED
        BY <1>1, <1>3, <2>1, EndsKept
<1>4. CASE Goes(r, "abort") /\ UNCHANGED runs
    <2> DEFINE k == [keeper[r] EXCEPT !.at = "abort"]
    <2>1. k \in Call /\ k.at = "abort" /\ k.todo = keeper[r].todo
        BY <1>2 DEF Call, Stages
    <2>2. keeper' = [keeper EXCEPT ![r] = k]
        BY <1>4 DEF Goes
    <2> HIDE DEF k
    <2>3. CallOK(k, r, txs, missed)
        BY <1>1, <1>2, <2>1 DEF CallOK, Working
    <2> QED
        BY <1>1, <1>4, <2>1, <2>2, <2>3, StageGoes
<1> QED
    BY <1>3, <1>4 DEF Finish

LEMMA AbortKept ==
    ASSUME KeepersInv, NEW r \in DOMAIN runs, Abort(r)
    PROVE  KeepersInv'
<1>1. keeper[r].at = "abort" /\ UNCHANGED <<room, txs, missed>>
    BY DEF Abort, At, chainVars
<1>2. CASE Ends(r, "failed")
    BY <1>1, <1>2, EndsKept
<1>3. CASE keeper' = [keeper EXCEPT ![r] = Done] /\ UNCHANGED runs
    BY <1>1, <1>3, DoneOK, StageGoes
<1> QED
    BY <1>2, <1>3 DEF Abort

\* Where a call that worked for a wallet may stand next.
LEMMA CallFrom ==
    ASSUME NEW c, NEW k, NEW r, NEW xs, NEW ms, NEW ns, CallOK(c, r, xs, ms),
           c.at \in Working, k.todo = c.todo, k.user = c.user, ms \subseteq ns,
           \/ k.at \in {"next", "abort"}
           \/ k.at \in {"send", "failed"} /\ c.at \in {"send", "skip", "failed"}
           \/ k.at \in {"send", "failed"} /\ c.tx \in ns
           \/ c.at = "receipt" /\ k.at = "bought" /\ k.tx = c.tx
    PROVE  CallOK(k, r, xs, ns)
<1>1. c.at # "done" /\ c.at # "list"
    BY DEF Working
<1>2. CASE k.at \in {"next", "abort"}
    BY <1>1, <1>2 DEF CallOK, Working
<1>3. CASE k.at \in {"send", "failed"} /\ c.at \in {"send", "skip", "failed"}
    BY <1>1, <1>3 DEF CallOK, Working
<1>4. CASE k.at \in {"send", "failed"} /\ c.tx \in ns
    <2>1. CASE c.at \in {"send", "skip", "failed"}
        BY <1>3, <1>4, <2>1
    <2>2. CASE c.at \in {"receipt", "bought"}
        BY <1>1, <1>4, <2>2 DEF CallOK, Working
    <2> QED
        BY <2>1, <2>2 DEF Working
<1>5. CASE c.at = "receipt" /\ k.at = "bought" /\ k.tx = c.tx
    BY <1>1, <1>5 DEF CallOK, Working
<1> QED
    BY <1>2, <1>3, <1>4, <1>5

\* A transaction is sent: its call awaits it, or it is missed.
LEMMA SendMoves ==
    ASSUME KeepersInv, NEW r \in DOMAIN runs, keeper[r].at = "send",
           NEW x \in Tx, x.run = r, x.user = keeper[r].user,
           txs' = Append(txs, x), room' = room, runs' = runs,
           NEW k \in Call, k.todo = keeper[r].todo, k.user = keeper[r].user,
           keeper' = [keeper EXCEPT ![r] = k],
           \/ k.at = "receipt" /\ k.tx = Len(txs) + 1 /\ missed' = missed
           \/ k.at = "failed" /\ missed' = missed \cup {Len(txs) + 1}
    PROVE  KeepersInv'
<1> DEFINE n == Len(txs) + 1
<1>1. /\ runs \in Seq(Run) /\ keeper \in Seq(Call \cup {Done}) /\ Len(keeper) = Len(runs)
      /\ txs \in Seq(Tx) /\ \A t \in DOMAIN txs : txs[t].run \in DOMAIN runs
    BY DEF KeepersInv, KeepersTyped
<1>2. /\ keeper' \in Seq(Call \cup {Done}) /\ Len(keeper') = Len(runs)
      /\ keeper'[r] = k /\ \A o \in DOMAIN runs \ {r} : keeper'[o] = keeper[o]
    BY <1>1
<1>3. /\ txs' \in Seq(Tx) /\ DOMAIN txs' = DOMAIN txs \cup {n} /\ n \notin DOMAIN txs
      /\ txs'[n] = x /\ \A t \in DOMAIN txs : txs'[t] = txs[t]
    BY <1>1
<1>4. /\ k.at \in {"receipt", "failed"} /\ missed \subseteq missed'
      /\ k.at = "receipt" => k.tx = n
      /\ n \in missed' \/ k.at = "receipt"
    OBVIOUS
<1>5. CallOK(keeper[r], r, txs, missed)
    BY DEF KeepersInv, CallsOK
<1> HIDE DEF n
<1>6. KeepersTyped'
    <2>1. \A t \in DOMAIN txs' : txs'[t].run \in DOMAIN runs
        BY <1>1, <1>3
    <2>2. \A o \in DOMAIN runs : At(o, "list")' => o # r
        BY <1>2, <1>4 DEF At
    <2>3. \A o \in DOMAIN runs : (At(o, "list") /\ IsManual(o))' => keeper'[o].todo # <<>>
        BY <1>2, <2>2 DEF KeepersInv, KeepersTyped, At, IsManual
    <2> QED
        BY <1>1, <1>2, <1>3, <2>1, <2>3 DEF KeepersInv, KeepersTyped
<1>7. CallsOK'
    <2> SUFFICES ASSUME NEW o \in DOMAIN runs PROVE CallOK(keeper'[o], o, txs', missed')
        BY DEF CallsOK
    <2>1. CASE o = r
        <3>1. CallOK(k, r, txs', missed')
            BY <1>3, <1>4, <1>5 DEF CallOK, Working
        <3> QED
            BY <1>2, <2>1, <3>1
    <2>2. CASE o # r
        <3>1. CallOK(keeper[o], o, txs, missed)
            BY DEF KeepersInv, CallsOK
        <3>2. CallOK(keeper[o], o, txs', missed')
            BY <1>1, <1>4, <2>2, <3>1, CallAppend
        <3> QED
            BY <1>2, <2>2, <3>2
    <2> QED
        BY <2>1, <2>2
<1>8. PairsOK'
    <2>1. \A t \in DOMAIN txs : txs[t].run = r /\ txs[t].user = x.user => t \in missed
        BY <1>5 DEF CallOK
    <2>2. \A s, t \in DOMAIN txs :
            s # t /\ txs[s].run = txs[t].run /\ txs[s].user = txs[t].user
                => s \in missed \/ t \in missed
        BY DEF KeepersInv, PairsOK
    <2> QED
        BY <1>3, <1>4, <2>1, <2>2 DEF PairsOK
<1>9. RowsOK'
    <2> SUFFICES ASSUME NEW t \in DOMAIN txs', t \notin missed'
                 PROVE  HasRow(t)' \/ Awaited(t)'
        BY DEF RowsOK
    <2>1. CASE t = n
        BY <1>2, <1>4, <2>1 DEF Awaited, Awaiting, At
    <2>2. CASE t \in DOMAIN txs
        <3>1. HasRow(t) \/ Awaited(t)
            BY <1>4, <2>2 DEF KeepersInv, RowsOK
        <3>2. CASE HasRow(t)
            BY <1>3, <2>2, <3>2 DEF HasRow
        <3>3. CASE Awaited(t)
            <4>1. PICK o \in DOMAIN runs : keeper[o].at \in {"receipt", "bought"} /\ keeper[o].tx = t
                BY <3>3 DEF Awaited, Awaiting, At
            <4>2. o # r
                BY <4>1
            <4> QED
                BY <1>2, <4>1, <4>2 DEF Awaited, Awaiting, At
        <3> QED
            BY <3>1, <3>2, <3>3
    <2> QED
        BY <1>3, <2>1, <2>2
<1> QED
    BY <1>6, <1>7, <1>8, <1>9 DEF KeepersInv

LEMMA SendKept ==
    ASSUME KeepersInv, NEW r \in DOMAIN runs, Send(r)
    PROVE  KeepersInv'
<1> DEFINE x == [run |-> r, user |-> keeper[r].user, call |-> keeper[r].call,
                 mined |-> FALSE, bought |-> 0]
<1>1. /\ keeper[r].at = "send" /\ room' = room /\ runs' = runs
      /\ txs' = Append(txs, x)
    BY DEF Send, At, chainVars
<1>2. keeper[r] \in Call /\ CallOK(keeper[r], r, txs, missed)
    BY <1>1, CallAt
<1>3. runs \in Seq(Run) /\ txs \in Seq(Tx)
    BY DEF KeepersInv, KeepersTyped
<1>4. r \in Nat /\ keeper[r].user \in Wallets /\ Len(txs) + 1 \in Nat
    BY <1>1, <1>2, <1>3 DEF CallOK, Working
<1>5. x \in Tx /\ x.run = r /\ x.user = keeper[r].user
    BY <1>2, <1>4 DEF Tx, Call
<1> HIDE DEF x
<1>6. CASE keeper' = [keeper EXCEPT ![r].at = "receipt", ![r].tx = Len(txs) + 1]
           /\ missed' = missed
    <2> DEFINE k == [keeper[r] EXCEPT !.at = "receipt", !.tx = Len(txs) + 1]
    <2>1. /\ k \in Call /\ k.at = "receipt" /\ k.todo = keeper[r].todo
          /\ k.user = keeper[r].user /\ k.tx = Len(txs) + 1
        BY <1>2, <1>4 DEF Call, Stages
    <2>2. keeper' = [keeper EXCEPT ![r] = k]
        BY <1>6
    <2> HIDE DEF k
    <2> QED
        BY <1>1, <1>5, <1>6, <2>1, <2>2, SendMoves
<1>7. CASE Goes(r, "failed") /\ missed' = missed \cup {Len(txs) + 1}
    <2> DEFINE k == [keeper[r] EXCEPT !.at = "failed"]
    <2>1. k \in Call /\ k.at = "failed" /\ k.todo = keeper[r].todo /\ k.user = keeper[r].user
        BY <1>2 DEF Call, Stages
    <2>2. keeper' = [keeper EXCEPT ![r] = k]
        BY <1>7 DEF Goes
    <2> HIDE DEF k
    <2> QED
        BY <1>1, <1>5, <1>7, <2>1, <2>2, SendMoves
<1> QED
    BY <1>6, <1>7 DEF Send

\* A call that works for a wallet goes to another stage; nothing is recorded.
LEMMA StageKept ==
    ASSUME KeepersInv, NEW r \in DOMAIN runs, keeper[r].at \in Working,
           NEW stage \in Stages, Goes(r, stage),
           room' = room, txs' = txs, runs' = runs, missed \subseteq missed',
           \/ stage \in {"next", "abort", "send", "failed"}
              /\ keeper[r].at \in {"send", "skip", "failed"}
           \/ stage = "failed" /\ keeper[r].tx \in missed'
    PROVE  KeepersInv'
<1>1. keeper[r].at # "done" /\ keeper[r].at # "list" /\ stage # "list"
    BY DEF Working
<1>2. keeper[r] \in Call /\ CallOK(keeper[r], r, txs, missed)
    BY <1>1, CallAt
<1> DEFINE k == [keeper[r] EXCEPT !.at = stage]
<1>3. /\ k \in Call /\ k.at = stage /\ k.todo = keeper[r].todo
      /\ k.user = keeper[r].user /\ k.tx = keeper[r].tx
    BY <1>2 DEF Call
<1>4. keeper' = [keeper EXCEPT ![r] = k]
    BY DEF Goes
<1> HIDE DEF k
<1>5. CallOK(k, r, txs, missed')
    BY <1>2, <1>3, CallFrom
<1> QED
    BY <1>1, <1>3, <1>4, <1>5, StageGoes

LEMMA RefusedKept ==
    ASSUME KeepersInv, NEW r \in DOMAIN runs, Refused(r)
    PROVE  KeepersInv'
<1>1. /\ keeper[r].at = "send" /\ Goes(r, "failed")
      /\ room' = room /\ txs' = txs /\ runs' = runs /\ missed' = missed
    BY DEF Refused, At, chainVars
<1>2. keeper[r].at \in Working /\ "failed" \in Stages
    BY <1>1 DEF Working, Stages
<1> QED
    BY <1>1, <1>2, StageKept

LEMMA GiveUpKept ==
    ASSUME KeepersInv, NEW r \in DOMAIN runs, GiveUp(r)
    PROVE  KeepersInv'
<1>1. /\ keeper[r].at = "receipt" /\ Goes(r, "failed")
      /\ room' = room /\ txs' = txs /\ runs' = runs /\ missed' = missed \cup {keeper[r].tx}
    BY DEF GiveUp, At, chainVars
<1>2. keeper[r].at \in Working /\ "failed" \in Stages
    BY <1>1 DEF Working, Stages
<1>3. missed \subseteq missed' /\ keeper[r].tx \in missed'
    BY <1>1
<1> QED
    BY <1>1, <1>2, <1>3, StageKept

LEMMA ReceiptKept ==
    ASSUME KeepersInv, NEW r \in DOMAIN runs, Receipt(r)
    PROVE  KeepersInv'
<1> DEFINE k == [keeper[r] EXCEPT !.at = "bought", !.successes = @ + 1]
<1>1. /\ keeper[r].at = "receipt" /\ keeper' = [keeper EXCEPT ![r] = k]
      /\ room' = room /\ txs' = txs /\ runs' = runs /\ missed' = missed
    BY DEF Receipt, At, chainVars
<1>2. keeper[r] \in Call /\ CallOK(keeper[r], r, txs, missed)
    BY <1>1, CallAt
<1>3. /\ k \in Call /\ k.at = "bought" /\ k.todo = keeper[r].todo
      /\ k.user = keeper[r].user /\ k.tx = keeper[r].tx
    <2>1. keeper[r].successes + 1 \in Nat
        BY <1>2 DEF Call
    <2> QED
        BY <1>2, <2>1 DEF Call, Stages
<1> HIDE DEF k
<1>4. CallOK(k, r, txs, missed')
    BY <1>1, <1>2, <1>3, CallFrom DEF Working
<1> QED
    BY <1>1, <1>3, <1>4, StageGoes

LEMMA FallBackKept ==
    ASSUME KeepersInv, NEW r \in DOMAIN runs, FallBack(r)
    PROVE  KeepersInv'
<1> DEFINE k == [keeper[r] EXCEPT !.at = "send", !.call = "botBuy"]
<1>1. /\ keeper[r].at = "failed" /\ keeper' = [keeper EXCEPT ![r] = k]
      /\ room' = room /\ txs' = txs /\ runs' = runs /\ missed' = missed
    BY DEF FallBack, At, chainVars
<1>2. keeper[r] \in Call /\ CallOK(keeper[r], r, txs, missed)
    BY <1>1, CallAt
<1>3. /\ k \in Call /\ k.at = "send" /\ k.todo = keeper[r].todo /\ k.user = keeper[r].user
    BY <1>2 DEF Call, Stages
<1> HIDE DEF k
<1>4. CallOK(k, r, txs, missed')
    BY <1>1, <1>2, <1>3, CallFrom DEF Working
<1> QED
    BY <1>1, <1>3, <1>4, StageGoes

\* A row is added or not, and the call goes on.
LEMMA RowKept ==
    ASSUME KeepersInv, NEW r \in DOMAIN runs, keeper[r].at \in {"bought", "failed", "skip"},
           NEW status \in {"success", "failed", "skipped"},
           runs' = runs \/ Stored(r, status),
           NEW k \in Call, k.at \in {"next", "abort", "failed"},
           k.todo = keeper[r].todo, k.user = keeper[r].user,
           keeper' = [keeper EXCEPT ![r] = k],
           room' = room, txs' = txs, missed \subseteq missed',
           k.at = "failed" => keeper[r].tx \in missed',
           keeper[r].at = "bought" =>
               keeper[r].tx \in missed' \/ (Stored(r, status) /\ status = "success")
    PROVE  KeepersInv'
<1>1. keeper[r] \in Call /\ runs[r] \in Run /\ CallOK(keeper[r], r, txs, missed)
    BY CallAt
<1> DEFINE row == AttemptRow(r, status)
           run == [runs[r] EXCEPT !.attempts = @ \cup {row}]
<1>2. keeper[r].user \in Wallets
    BY <1>1 DEF CallOK, Working
<1>3. /\ row \in [order : Nat, user : Wallets, status : {"success", "failed", "skipped"}, tx : Nat]
      /\ row.status = status
      /\ status = "success" => row.tx = keeper[r].tx
    BY <1>1, <1>2 DEF AttemptRow, Call
<1> HIDE DEF row
<1>4. run \in Run /\ run.attempts = runs[r].attempts \cup {row}
    BY <1>1, <1>3 DEF Run
<1>5. runs \in Seq(Run)
    BY DEF KeepersInv, KeepersTyped
<1>6. Stored(r, status) => runs' = [runs EXCEPT ![r] = run]
    BY DEF Stored, row
<1>7. runs' = runs => runs' = [runs EXCEPT ![r] = runs[r]]
    BY <1>5
<1> HIDE DEF run
<1>8. CallOK(k, r, txs, missed')
    BY <1>1, CallFrom DEF Working
<1>9. CASE Stored(r, status)
    <2>1. runs[r].attempts \subseteq run.attempts
        BY <1>4
    <2>2. keeper[r].at \in {"receipt", "bought"} =>
              \/ keeper[r].tx \in missed'
              \/ \E a \in run.attempts : a.status = "success" /\ a.tx = keeper[r].tx
        <3>1. row \in run.attempts
            BY <1>4
        <3> SUFFICES ASSUME keeper[r].at = "bought", keeper[r].tx \notin missed'
                     PROVE  \E a \in run.attempts : a.status = "success" /\ a.tx = keeper[r].tx
            OBVIOUS
        <3>2. row.status = "success" /\ row.tx = keeper[r].tx
            BY <1>3
        <3> QED
            BY <3>1, <3>2
    <2> QED
        BY <1>4, <1>6, <1>8, <1>9, <2>1, <2>2, CallGoes
<1>10. CASE runs' = runs /\ ~Stored(r, status)
    BY <1>1, <1>7, <1>8, <1>10, CallGoes
<1> QED
    BY <1>9, <1>10

LEMMA ThrowsAdd ==
    ASSUME NEW r, NEW status, WriteThrows(r, status)
    PROVE  runs' = runs \/ Stored(r, status)
    BY DEF WriteThrows, Records

LEMMA RecordSuccessKept ==
    ASSUME KeepersInv, NEW r \in DOMAIN runs, RecordSuccess(r)
    PROVE  KeepersInv'
<1>1. keeper[r].at = "bought" /\ room' = room /\ txs' = txs
    BY DEF RecordSuccess, At, chainVars
<1>2. keeper[r] \in Call
    BY <1>1, CallAt
<1>3. \E stage \in {"next", "failed"} :
          /\ Goes(r, stage) /\ (runs' = runs \/ Stored(r, "success"))
          /\ \/ stage = "next" /\ Stored(r, "success") /\ missed' = missed
             \/ stage = "failed" /\ missed' = missed \cup {keeper[r].tx}
    BY ThrowsAdd DEF RecordSuccess, Records
<1>4. PICK stage \in {"next", "failed"} :
          /\ Goes(r, stage) /\ (runs' = runs \/ Stored(r, "success"))
          /\ \/ stage = "next" /\ Stored(r, "success") /\ missed' = missed
             \/ stage = "failed" /\ missed' = missed \cup {keeper[r].tx}
    BY <1>3
<1> DEFINE k == [keeper[r] EXCEPT !.at = stage]
<1>5. k \in Call /\ k.at = stage /\ k.todo = keeper[r].todo /\ k.user = keeper[r].user
    BY <1>2 DEF Call, Stages
<1>6. keeper' = [keeper EXCEPT ![r] = k]
    BY <1>4 DEF Goes
<1> HIDE DEF k
<1>7. /\ missed \subseteq missed'
      /\ k.at = "failed" => keeper[r].tx \in missed'
      /\ keeper[r].tx \in missed' \/ Stored(r, "success")
    BY <1>4, <1>5
<1> QED
    BY <1>1, <1>4, <1>5, <1>6, <1>7, RowKept

LEMMA RecordFailureKept ==
    ASSUME KeepersInv, NEW r \in DOMAIN runs, RecordFailure(r)
    PROVE  KeepersInv'
<1>1. keeper[r].at = "failed" /\ room' = room /\ txs' = txs /\ missed' = missed
    BY DEF RecordFailure, At, chainVars
<1>2. keeper[r] \in Call
    BY <1>1, CallAt
<1>3. runs' = runs \/ Stored(r, "failed")
    BY ThrowsAdd DEF RecordFailure, Records
<1>4. CASE keeper' = [keeper EXCEPT ![r].at = "next", ![r].failures = @ + 1]
    <2> DEFINE k == [keeper[r] EXCEPT !.at = "next", !.failures = @ + 1]
    <2>1. k \in Call /\ k.at = "next" /\ k.todo = keeper[r].todo /\ k.user = keeper[r].user
        <3>1. keeper[r].failures + 1 \in Nat
            BY <1>2 DEF Call
        <3> QED
            BY <1>2, <3>1 DEF Call, Stages
    <2>2. keeper' = [keeper EXCEPT ![r] = k]
        BY <1>4
    <2> HIDE DEF k
    <2> QED
        BY <1>1, <1>3, <2>1, <2>2, RowKept
<1>5. CASE Goes(r, "abort")
    <2> DEFINE k == [keeper[r] EXCEPT !.at = "abort"]
    <2>1. k \in Call /\ k.at = "abort" /\ k.todo = keeper[r].todo /\ k.user = keeper[r].user
        BY <1>2 DEF Call, Stages
    <2>2. keeper' = [keeper EXCEPT ![r] = k]
        BY <1>5 DEF Goes
    <2> HIDE DEF k
    <2> QED
        BY <1>1, <1>3, <2>1, <2>2, RowKept
<1> QED
    BY <1>4, <1>5 DEF RecordFailure

LEMMA RecordSkipKept ==
    ASSUME KeepersInv, NEW r \in DOMAIN runs, RecordSkip(r)
    PROVE  KeepersInv'
<1>1. keeper[r].at = "skip" /\ room' = room /\ txs' = txs /\ missed' = missed
    BY DEF RecordSkip, At, chainVars
<1>2. keeper[r] \in Call
    BY <1>1, CallAt
<1>3. runs' = runs \/ Stored(r, "skipped")
    BY ThrowsAdd DEF RecordSkip, Records
<1>4. PICK stage \in {"next", "abort"} : Goes(r, stage)
    BY DEF RecordSkip
<1> DEFINE k == [keeper[r] EXCEPT !.at = stage]
<1>5. k \in Call /\ k.at = stage /\ k.todo = keeper[r].todo /\ k.user = keeper[r].user
    BY <1>2 DEF Call, Stages
<1>6. keeper' = [keeper EXCEPT ![r] = k]
    BY <1>4 DEF Goes
<1> HIDE DEF k
<1> QED
    BY <1>1, <1>3, <1>5, <1>6, RowKept

LEMMA BeginKept ==
    ASSUME KeepersInv, NEW kind \in {"scheduled", "manual"}, NEW wallets \in Seq(Wallets),
           \A i, j \in DOMAIN wallets : wallets[i] = wallets[j] => i = j,
           kind = "manual" => wallets # <<>>,
           Begin(kind, wallets)
    PROVE  KeepersInv'
<1> DEFINE run == [kind |-> kind, status |-> "running", attempts |-> {}]
           k == [at |-> "list", todo |-> wallets, user |-> "none", order |-> 0,
                 call |-> "runBot", tx |-> 0, successes |-> 0, failures |-> 0]
           n == Len(runs) + 1
<1>1. /\ runs' = Append(runs, run) /\ keeper' = Append(keeper, k)
      /\ room' = room /\ txs' = txs /\ missed' = missed
    BY DEF Begin, chainVars
<1>2. /\ runs \in Seq(Run) /\ keeper \in Seq(Call \cup {Done}) /\ Len(keeper) = Len(runs)
      /\ \A t \in DOMAIN txs : txs[t].run \in DOMAIN runs
    BY DEF KeepersInv, KeepersTyped
<1>3. run \in Run /\ run.kind = kind
    BY DEF Run
<1>4. k \in Call /\ k.at = "list" /\ k.todo = wallets
    BY DEF Call, Stages
<1> HIDE DEF run, k, n
<1>5. /\ runs' \in Seq(Run) /\ keeper' \in Seq(Call \cup {Done}) /\ Len(keeper') = Len(runs')
      /\ DOMAIN runs' = DOMAIN runs \cup {n} /\ n \notin DOMAIN runs
      /\ runs'[n] = run /\ keeper'[n] = k
      /\ \A o \in DOMAIN runs : runs'[o] = runs[o] /\ keeper'[o] = keeper[o]
    BY <1>1, <1>2, <1>3, <1>4 DEF n
<1>6. KeepersTyped'
    <2>1. ASSUME NEW o \in DOMAIN runs', (At(o, "list") /\ IsManual(o))'
          PROVE  keeper'[o].todo # <<>>
        <3>1. CASE o = n
            BY <1>3, <1>4, <1>5, <2>1, <3>1 DEF IsManual
        <3>2. CASE o \in DOMAIN runs
            BY <1>5, <2>1, <3>2 DEF KeepersInv, KeepersTyped, At, IsManual
        <3> QED
            BY <1>5, <2>1, <3>1, <3>2
    <2>2. \A t \in DOMAIN txs' : txs'[t].run \in DOMAIN runs'
        BY <1>1, <1>2, <1>5
    <2> QED
        BY <1>1, <1>5, <2>1, <2>2 DEF KeepersInv, KeepersTyped
<1>7. CallsOK'
    <2> SUFFICES ASSUME NEW o \in DOMAIN runs' PROVE CallOK(keeper'[o], o, txs, missed)
        BY <1>1 DEF CallsOK
    <2>1. CASE o = n
        <3>1. CallOK(k, n, txs, missed)
            BY <1>2, <1>4, <1>5 DEF CallOK, Working
        <3> QED
            BY <1>5, <2>1, <3>1
    <2>2. CASE o \in DOMAIN runs
        BY <1>5, <2>2 DEF KeepersInv, CallsOK
    <2> QED
        BY <1>5, <2>1, <2>2
<1>8. PairsOK'
    BY <1>1 DEF KeepersInv, PairsOK
<1>9. RowsOK'
    <2> SUFFICES ASSUME NEW t \in DOMAIN txs, t \notin missed
                 PROVE  HasRow(t)' \/ Awaited(t)'
        BY <1>1 DEF RowsOK
    <2>1. HasRow(t) \/ Awaited(t)
        BY DEF KeepersInv, RowsOK
    <2>2. CASE HasRow(t)
        BY <1>1, <1>2, <1>5, <2>2 DEF HasRow
    <2>3. CASE Awaited(t)
        <3>1. PICK o \in DOMAIN runs : keeper[o].at \in {"receipt", "bought"} /\ keeper[o].tx = t
            BY <2>3 DEF Awaited, Awaiting, At
        <3> QED
            BY <1>5, <3>1 DEF Awaited, Awaiting, At
    <2> QED
        BY <2>1, <2>2, <2>3
<1> QED
    BY <1>6, <1>7, <1>8, <1>9 DEF KeepersInv

LEMMA RunForAllKept ==
    ASSUME KeepersInv, RunForAll PROVE KeepersInv'
<1>1. Enrolled \in Seq(Wallets) /\ \A i, j \in DOMAIN Enrolled : Enrolled[i] = Enrolled[j] => i = j
    BY KeepersAssumption
<1> QED
    BY <1>1, BeginKept DEF RunForAll

LEMMA TradeNowKept ==
    ASSUME KeepersInv, NEW u \in Wallets, TradeNow(u) PROVE KeepersInv'
<1> DEFINE one == <<u>>
<1>1. /\ one \in Seq(Wallets) /\ one # <<>>
      /\ \A i, j \in DOMAIN one : one[i] = one[j] => i = j
    OBVIOUS
<1>2. Begin("manual", one)
    BY DEF TradeNow
<1> HIDE DEF one
<1> QED
    BY <1>1, <1>2, BeginKept

LEMMA MineKept ==
    ASSUME KeepersInv, NEW t \in DOMAIN txs, Mine(t) PROVE KeepersInv'
<1>1. /\ room \in [Wallets -> Int] /\ txs \in Seq(Tx)
      /\ runs' = runs /\ keeper' = keeper /\ missed' = missed
    BY DEF Mine, KeepersInv, KeepersTyped
<1>2. PICK n \in Buyable(t) :
          /\ txs' = [txs EXCEPT ![t].mined = TRUE, ![t].bought = n]
          /\ room' = [room EXCEPT ![txs[t].user] = @ - n]
    BY DEF Mine
<1>3. txs[t] \in Tx /\ txs[t].user \in Wallets /\ room[txs[t].user] \in Int
    <2>1. txs[t] \in Tx
        BY <1>1
    <2>2. txs[t].user \in Wallets
        BY <2>1 DEF Tx
    <2> QED
        BY <1>1, <2>1, <2>2
<1>4. n \in Int
    <2>1. MaxTrades \in Int
        BY KeepersAssumption
    <2> QED
        BY <1>3, <2>1 DEF Buyable
<1>5. room' \in [Wallets -> Int]
    BY <1>1, <1>2, <1>3, <1>4
<1> DEFINE x == [txs[t] EXCEPT !.mined = TRUE, !.bought = n]
<1>6. x \in Tx /\ x.run = txs[t].run /\ x.user = txs[t].user
    BY <1>3, <1>4 DEF Tx
<1>7. txs' = [txs EXCEPT ![t] = x]
    BY <1>1, <1>2
<1> HIDE DEF x
<1>8. /\ txs' \in Seq(Tx) /\ DOMAIN txs' = DOMAIN txs
      /\ \A s \in DOMAIN txs : txs'[s].run = txs[s].run /\ txs'[s].user = txs[s].user
    BY <1>1, <1>6, <1>7
<1>9. KeepersTyped'
    BY <1>1, <1>5, <1>8 DEF KeepersInv, KeepersTyped, At, IsManual
<1>10. CallsOK'
    <2> SUFFICES ASSUME NEW o \in DOMAIN runs PROVE CallOK(keeper[o], o, txs', missed)
        BY <1>1 DEF CallsOK
    <2>1. CallOK(keeper[o], o, txs, missed)
        BY DEF KeepersInv, CallsOK
    <2> QED
        BY <1>8, <2>1, CallWeaken
<1>11. PairsOK'
    BY <1>1, <1>8 DEF KeepersInv, PairsOK
<1>12. RowsOK'
    BY <1>1, <1>8 DEF KeepersInv, RowsOK, HasRow, Awaited, Awaiting, At
<1> QED
    BY <1>9, <1>10, <1>11, <1>12 DEF KeepersInv

LEMMA StopKept ==
    ASSUME KeepersInv, Stop PROVE KeepersInv'
<1>1. /\ runs \in Seq(Run) /\ Len(keeper) = Len(runs)
      /\ runs' = runs /\ txs' = txs /\ room' = room
      /\ keeper' = [r \in DOMAIN runs |-> Done]
      /\ missed' = missed \cup {keeper[r].tx : r \in {o \in DOMAIN runs : Awaiting(o)}}
    BY DEF Stop, chainVars, KeepersInv, KeepersTyped
<1>2. keeper' \in Seq(Call \cup {Done}) /\ Len(keeper') = Len(runs)
      /\ \A r \in DOMAIN runs : keeper'[r] = Done
    <2>1. DOMAIN runs = 1 .. Len(runs) /\ Len(runs) \in Nat
        BY <1>1
    <2> QED
        BY <1>1, <2>1
<1>3. KeepersTyped'
    BY <1>1, <1>2, DoneOK DEF KeepersInv, KeepersTyped, At
<1>4. CallsOK'
    BY <1>1, <1>2, DoneOK DEF CallsOK
<1>5. PairsOK'
    BY <1>1 DEF KeepersInv, PairsOK
<1>6. RowsOK'
    <2> SUFFICES ASSUME NEW t \in DOMAIN txs, t \notin missed'
                 PROVE  HasRow(t)'
        BY <1>1 DEF RowsOK
    <2>1. ~Awaited(t)
        BY <1>1 DEF Awaited
    <2>2. HasRow(t)
        BY <1>1, <2>1 DEF KeepersInv, RowsOK
    <2> QED
        BY <1>1, <2>2 DEF HasRow
<1> QED
    BY <1>3, <1>4, <1>5, <1>6 DEF KeepersInv

\* The facts do not mention what an idle step or SetUserBot changes.
LEMMA KeepersIdle ==
    ASSUME KeepersInv, room' = room, runs' = runs, txs' = txs, keeper' = keeper, missed' = missed
    PROVE  KeepersInv'
    BY DEF KeepersInv, KeepersTyped, CallsOK, CallOK, PairsOK, RowsOK, HasRow, Awaited, Awaiting,
           At, IsManual

LEMMA KeepersStart ==
    ASSUME KeepersInit PROVE KeepersInv
<1>1. Room \in Int
    BY KeepersAssumption
<1>2. KeepersTyped
    BY <1>1 DEF KeepersInit, KeepersTyped
<1> QED
    BY <1>2 DEF KeepersInit, KeepersInv, CallsOK, PairsOK, RowsOK

LEMMA KeepersStep ==
    ASSUME KeepersInv, [KeepersNext]_keeperVars PROVE KeepersInv'
<1>1. CASE RunForAll
    BY <1>1, RunForAllKept
<1>2. ASSUME NEW u \in Wallets, TradeNow(u) PROVE KeepersInv'
    BY <1>2, TradeNowKept
<1>3. ASSUME NEW r \in DOMAIN runs, Step(r) PROVE KeepersInv'
    BY <1>3, LookUpKept, UnlinkedKept, ChooseKept, FinishKept, AbortKept, SendKept, RefusedKept,
       ReceiptKept, GiveUpKept, RecordSuccessKept, FallBackKept, RecordFailureKept,
       RecordSkipKept DEF Step
<1>4. ASSUME NEW u \in Wallets, SetUserBot(u) PROVE KeepersInv'
    BY <1>4, KeepersIdle DEF SetUserBot
<1>5. ASSUME NEW t \in DOMAIN txs, Mine(t) PROVE KeepersInv'
    BY <1>5, MineKept
<1>6. CASE Stop
    BY <1>6, StopKept
<1>7. CASE UNCHANGED keeperVars
    BY <1>7, KeepersIdle DEF keeperVars, chainVars
<1> QED
    BY <1>1, <1>2, <1>3, <1>4, <1>5, <1>6, <1>7 DEF KeepersNext

LEMMA RowsFollow == KeepersInv => RowsTellTrades
    BY DEF KeepersInv, PairsOK, RowsOK, RowsTellTrades

\* What a run bought is in its rows, awaited or missed, and of two purchases of
\* a run for one wallet one is missed: its answer was lost, or its row refused,
\* after which "Trade Now" buys again (resale-bot-keeper.service.ts 167-199,
\* 345-381).
THEOREM RowsTellWhatWasBought ==
    KeepersInit /\ [][KeepersNext]_keeperVars => []RowsTellTrades
<1>1. KeepersInit => KeepersInv
    BY KeepersStart
<1>2. KeepersInv /\ [KeepersNext]_keeperVars => KeepersInv'
    BY KeepersStep
<1> QED
    BY <1>1, <1>2, RowsFollow, PTL
=============================================================================
