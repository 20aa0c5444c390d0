----------------------------- MODULE ByokProofs -----------------------------
(* Theorems about Byok for every number of users, keys, providers, values  *)
(* of ENCRYPTION_KEY and concurrent requests.                              *)
EXTENDS Byok, TLAPS

LEMMA TypeStep == TypeOK /\ [Next]_vars => TypeOK'
<1> SUFFICES ASSUME TypeOK, [Next]_vars PROVE TypeOK'
    OBVIOUS
<1> USE ConstantsOK DEF TypeOK, Pcs, Goto, Start, End, tables, request
<1>1. ASSUME NEW p \in Slots, Upsert(p) PROVE TypeOK'
  <2>1. ASSUME NEW k \in Keys, NEW v \in Providers, StartUpsert(p, KeyOwner[k], v, k)
        PROVE  TypeOK'
        BY <2>1 DEF StartUpsert
  <2>2. CASE Validate(p)
        BY <2>2 DEF Validate
  <2>3. CASE Store(p)
    <3>1. /\ who[p] \in Users /\ provider[p] \in Providers /\ apiKey[p] \in Keys
          /\ master \in Masters
          BY <2>3 DEF Store
    <3>2. record' \in [Users -> [Providers -> Ciphertexts \cup {None}]]
          BY <2>3, <3>1 DEF Store, Ciphertexts
    <3> QED BY <2>3, <3>2 DEF Store
  <2> QED BY <1>1, <2>1, <2>2, <2>3 DEF Upsert
<1>2. ASSUME NEW p \in Slots, Prompt(p) PROVE TypeOK'
  <2>1. ASSUME NEW u \in Users, NEW v \in Providers, ReadRecord(p, u, v)
        PROVE  TypeOK'
        BY <2>1 DEF ReadRecord
  <2>2. CASE Resolve(p)
    <3>1. Decrypt(read[p]) \in Keys \cup {None}
          BY DEF Decrypt, Decrypts, Ciphertexts
    <3> QED BY <2>2, <3>1 DEF Resolve
  <2>3. CASE Succeed(p)
        BY <2>3 DEF Succeed
  <2>4. ASSUME NEW e \in SdkErrors, CallFails(p, e) PROVE TypeOK'
        BY <2>4 DEF CallFails
  <2> QED BY <1>2, <2>1, <2>2, <2>3, <2>4 DEF Prompt
<1>3. ASSUME NEW p \in Slots, Fail(p) PROVE TypeOK'
      BY <1>3 DEF Fail
<1>4. ASSUME NEW u \in Users, NEW v \in Providers, Remove(u, v) PROVE TypeOK'
      BY <1>4 DEF Remove
<1>5. ASSUME NEW k \in Keys, Revoke(k) PROVE TypeOK'
      BY <1>5 DEF Revoke
<1>6. ASSUME NEW m \in Masters \cup {None}, NEW N \in SUBSET Providers, Restart(m, N)
      PROVE  TypeOK'
      BY <1>6 DEF Restart
<1>7. CASE UNCHANGED vars
      BY <1>7 DEF vars
<1> QED BY <1>1, <1>2, <1>3, <1>4, <1>5, <1>6, <1>7 DEF Next

(* A record is written with the key of the request that writes it, and     *)
(* that key was let in before; a prompt's key comes out of its record, and *)
(* a connected key that is refused has been revoked.                       *)
OwnKey(u, v, c) == c = None \/ (KeyOwner[c.key] = u /\ KeyProvider[c.key] = v)

RequestInv ==
    /\ \A p \in Slots : pc[p] \in {"validate", "store"} => KeyOwner[apiKey[p]] = who[p]
    /\ \A p \in Slots : pc[p] = "store" => KeyProvider[apiKey[p]] = provider[p]
    /\ \A p \in Slots : pc[p] = "decrypt" => OwnKey(who[p], provider[p], read[p])
    /\ \A p \in Slots :
          pc[p] = "failed" /\ error[p].cause = "key" /\ apiKey[p] # None =>
             apiKey[p] \notin accepted

IInv == TypeOK /\ RequestInv /\ RecordsAreVetted
            /\ KeysStayWithTheirUser /\ RotationDegrades

LEMMA InvStep == IInv /\ [Next]_vars => IInv'
<1> SUFFICES ASSUME IInv, [Next]_vars PROVE IInv'
    OBVIOUS
<1>0. TypeOK'
      BY TypeStep DEF IInv
<1> USE ConstantsOK
    DEF IInv, TypeOK, RequestInv, RecordsAreVetted, KeysStayWithTheirUser,
        RotationDegrades, Goto, Start, End, tables, request, OwnKey
<1>1. ASSUME NEW p \in Slots, Upsert(p) PROVE IInv'
  <2>1. ASSUME NEW k \in Keys, NEW v \in Providers, StartUpsert(p, KeyOwner[k], v, k)
        PROVE  IInv'
        BY <1>0, <2>1 DEF StartUpsert
  <2>2. CASE Validate(p)
        BY <1>0, <2>2 DEF Validate, LetsIn
  <2>3. CASE Store(p)
    <3>1. RecordsAreVetted'
          BY <2>3 DEF Store
    <3> QED BY <1>0, <2>3, <3>1 DEF Store
  <2> QED BY <1>1, <2>1, <2>2, <2>3 DEF Upsert
<1>2. ASSUME NEW p \in Slots, Prompt(p) PROVE IInv'
  <2>1. ASSUME NEW u \in Users, NEW v \in Providers, ReadRecord(p, u, v)
        PROVE  IInv'
        BY <1>0, <2>1 DEF ReadRecord
  <2>2. CASE Resolve(p)
    <3> DEFINE userKey == Decrypt(read[p])
    <3>1. /\ pc[p] = "decrypt" /\ who[p] \in Users /\ provider[p] \in Providers
          /\ read[p] # None => read[p].key # None /\ read[p].under # None
          BY <2>2 DEF Resolve, Ciphertexts
    <3>2. /\ userKey # None =>
                /\ KeyOwner[userKey] = who[p] /\ KeyProvider[userKey] = provider[p]
                /\ read[p].under = master
          /\ userKey = None => read[p] = None \/ read[p].under # master \/ master = None
          BY <3>1 DEF Decrypt, Decrypts
    <3> HIDE DEF userKey
    <3>3. /\ pc'[p] = IF userKey # None \/ provider[p] \in nutch THEN "call" ELSE "refused"
          /\ apiKey'[p] = userKey
          /\ keySource'[p] = IF userKey = None THEN "nutch" ELSE "user"
          /\ UNCHANGED <<tables, who, provider, read, error>>
          BY <2>2 DEF Resolve, userKey
    <3>4. \A q \in Slots \ {p} :
             pc'[q] = pc[q] /\ apiKey'[q] = apiKey[q] /\ keySource'[q] = keySource[q]
          BY <2>2 DEF Resolve
    <3>5. /\ RecordsAreVetted'
          /\ \A q \in Slots : pc'[q] \in {"validate", "store", "decrypt", "failed"} =>
                q # p /\ pc'[q] = pc[q] /\ apiKey'[q] = apiKey[q]
          BY <3>3, <3>4
    <3>8. RequestInv'
          BY <3>3, <3>5
    <3>6. KeysStayWithTheirUser'
          BY <3>2, <3>3, <3>4
    <3>7. RotationDegrades'
          BY <3>1, <3>2, <3>3, <3>4
    <3> QED BY <1>0, <3>5, <3>6, <3>7, <3>8
  <2>3. CASE Succeed(p)
        BY <1>0, <2>3 DEF Succeed
  <2>4. ASSUME NEW e \in SdkErrors, CallFails(p, e) PROVE IInv'
    <3>1. e.cause = "key" /\ apiKey[p] # None => apiKey[p] \notin accepted
          BY <2>4 DEF CallFails, LetsIn
    <3> QED BY <1>0, <2>4, <3>1 DEF CallFails
  <2> QED BY <1>2, <2>1, <2>2, <2>3, <2>4 DEF Prompt
<1>3. ASSUME NEW p \in Slots, Fail(p) PROVE IInv'
      BY <1>0, <1>3 DEF Fail
<1>4. ASSUME NEW u \in Users, NEW v \in Providers, Remove(u, v) PROVE IInv'
      BY <1>0, <1>4 DEF Remove
<1>5. ASSUME NEW k \in Keys, Revoke(k) PROVE IInv'
      BY <1>0, <1>5 DEF Revoke
<1>6. ASSUME NEW m \in Masters \cup {None}, NEW N \in SUBSET Providers, Restart(m, N)
      PROVE  IInv'
      BY <1>0, <1>6 DEF Restart
<1>7. CASE UNCHANGED vars
      BY <1>0, <1>7 DEF vars
<1> QED BY <1>1, <1>2, <1>3, <1>4, <1>5, <1>6, <1>7 DEF Next

THEOREM Invariance == Spec => []IInv
<1>1. Init => IInv
      BY ConstantsOK
      DEF Init, IInv, TypeOK, RequestInv, RecordsAreVetted, KeysStayWithTheirUser,
          RotationDegrades, OwnKey, Pcs
<1> QED BY <1>1, InvStep, PTL DEF Spec

(* Type correctness.                                                       *)
THEOREM TypeCorrect == Spec => []TypeOK
<1>1. IInv => TypeOK
      BY DEF IInv
<1> QED BY <1>1, Invariance, PTL

(* A stored key is its user's, and was let in by the provider it is for.   *)
THEOREM StoredKeysAreVetted == Spec => []RecordsAreVetted
<1>1. IInv => RecordsAreVetted
      BY DEF IInv
<1> QED BY <1>1, Invariance, PTL

(* No prompt runs on another person's key, or on its user's own while      *)
(* saying it ran on Nutch's.                                               *)
THEOREM KeysAreNotMixed == Spec => []KeysStayWithTheirUser
<1>1. IInv => KeysStayWithTheirUser
      BY DEF IInv
<1> QED BY <1>1, Invariance, PTL

(* A prompt that found an undecryptable record runs on the Nutch key, and  *)
(* is refused only if none is configured.                                  *)
THEOREM RotationIsHarmless == Spec => []RotationDegrades
<1>1. IInv => RotationDegrades
      BY DEF IInv
<1> QED BY <1>1, Invariance, PTL

\* What each answer leaves as its cause, whatever an SDK may throw.
LEMMA WhatAnAnswerSays ==
    ASSUME NEW e \in SdkErrors
    PROVE  /\ classifyProviderError(e) = "auth_failed" => e.cause = "key"
           /\ classifyProviderError(e) = "rate_limited" => e.cause = "rate"
           /\ classifyProviderError(e) = "bad_request" => e.cause = "request"
           /\ classifyProviderError(e) = "quota_exhausted" => e.cause = "credit" \/ e.billing
           /\ classifyProviderError(e) = "unavailable" => e.cause = "outage" \/ e.status = 0
<1>1. /\ e.cause \in {"key", "credit", "rate", "request", "outage"}
      /\ e.status \in {0, 400, 401, 403, 404, 429, 500, 529}
      /\ e.status # 0 => /\ e.status \in Statuses[e.cause]
                         /\ e.cause = "credit" => e.billing
      BY DEF SdkErrors, Statuses
<1>2. /\ Statuses["key"] = {401, 403} /\ Statuses["credit"] = {400, 429}
      /\ Statuses["rate"] = {429} /\ Statuses["request"] = {400, 404}
      /\ Statuses["outage"] = {500, 529}
      BY DEF Statuses
<1>3. CASE e.status = 0
      BY <1>3 DEF classifyProviderError
<1>4. CASE e.status # 0 /\ e.billing
      BY <1>4 DEF classifyProviderError
<1>5. CASE e.status # 0 /\ ~ e.billing
  <2>1. classifyProviderError(e) =
           IF e.status \in {401, 403} THEN "auth_failed"
           ELSE IF e.status = 429 THEN "rate_limited"
           ELSE IF e.status >= 500 THEN "unavailable"
           ELSE IF e.status >= 400 THEN "bad_request"
           ELSE "unavailable"
        BY <1>5 DEF classifyProviderError
  <2>2. /\ e.cause = "key" => e.status \in {401, 403}
        /\ e.cause = "rate" => e.status = 429
        /\ e.cause = "request" => e.status \in {400, 404}
        /\ e.cause = "outage" => e.status \in {500, 529}
        /\ e.cause # "credit"
    <3> DEFINE c == e.cause
               n == e.status
    <3>1. n \in Statuses[c] /\ c # "credit"
          BY <1>1, <1>5
    <3> HIDE DEF c, n
    <3>2. /\ c = "key" => n \in {401, 403}
          /\ c = "rate" => n \in {429}
          /\ c = "request" => n \in {400, 404}
          /\ c = "outage" => n \in {500, 529}
          BY <3>1, <1>2
    <3> QED BY <3>1, <3>2 DEF c, n
  <2>3. /\ e.status \in {401, 403} => classifyProviderError(e) = "auth_failed"
        /\ e.status = 429 => classifyProviderError(e) = "rate_limited"
        /\ e.status \in {400, 404} => classifyProviderError(e) = "bad_request"
        /\ e.status \in {500, 529} => classifyProviderError(e) = "unavailable"
        BY <2>1
  <2> QED BY <1>1, <1>5, <2>2, <2>3
<1> QED BY <1>3, <1>4, <1>5

(* Whatever the SDKs throw, the client is told nothing false of a failed   *)
(* call but by a misleading text or the want of a status, and a connected  *)
(* key is blamed only if it was revoked after it was connected.            *)
THEOREM BlameIsTrue == Spec => []BlameIsDeserved
<1>1. ASSUME IInv, NEW p \in Slots, pc[p] = "failed"
      PROVE  LET e == error[p]
                 told == classifyProviderError(e)
             IN  /\ told = "auth_failed" =>
                       e.cause = "key" /\ (apiKey[p] # None => apiKey[p] \notin accepted)
                 /\ told = "rate_limited" => e.cause = "rate"
                 /\ told = "bad_request" => e.cause = "request"
                 /\ told = "quota_exhausted" => e.cause = "credit" \/ e.billing
                 /\ told = "unavailable" => e.cause = "outage" \/ e.status = 0
  <2>1. error[p] \in SdkErrors
        BY <1>1 DEF IInv, TypeOK
  <2>2. error[p].cause = "key" /\ apiKey[p] # None => apiKey[p] \notin accepted
        BY <1>1 DEF IInv, RequestInv
  <2> QED BY <2>1, <2>2, WhatAnAnswerSays
<1>2. IInv => BlameIsDeserved
      BY <1>1 DEF BlameIsDeserved
<1> QED BY <1>2, Invariance, PTL
=============================================================================
