-------------------------------- MODULE Byok --------------------------------
(***************************************************************************)
(* Bring-your-own keys: a signed-in user connects, replaces and removes an *)
(* API key per provider; it is stored encrypted under the ENCRYPTION_KEY   *)
(* of the process, and a prompt runs on it or else on the Nutch key of     *)
(* that provider.  Keys are revoked at the provider at any time, and a     *)
(* restart may bring another ENCRYPTION_KEY and other Nutch keys.          *)
(*                                                                         *)
(* Left out: sessions and messages of the prompt (Exchange), hints, and    *)
(* the cipher: a record decrypts under the master it was made with.        *)
(***************************************************************************)
EXTENDS Naturals

CONSTANTS
    Users, SignedIn,       \* all accounts / those with an email
    Providers,             \* AI providers with a client
    DefaultProvider,       \* the provider of DEFAULT_MODEL_ID
    Keys,                  \* API keys people hold
    KeyOwner, KeyProvider, \* who holds a key, and which provider issued it
    Masters,               \* usable values of ENCRYPTION_KEY
    Slots,                 \* the requests that can run at once
    None                   \* no key / no record / no user

ASSUME ConstantsOK ==
    /\ SignedIn \subseteq Users /\ DefaultProvider \in Providers
    /\ KeyOwner \in [Keys -> SignedIn] /\ KeyProvider \in [Keys -> Providers]
    /\ None \notin Users \cup Providers \cup Keys \cup Masters

VARIABLES
    record,     \* byok_keys: one encryptedKey per user and provider, or None
    master,     \* ENCRYPTION_KEY; None is unset or the shipped placeholder
    nutch,      \* the providers for which a usable Nutch key is configured
    accepted,   \* the keys their provider still accepts
    pc, who, provider,  \* the await a request is at, its user and provider
    read,       \* what a prompt's query of the key records returned
    apiKey,     \* the key submitted, or decrypted for a prompt; None is Nutch
    keySource,  \* whose key a prompt says it runs on
    error       \* what the provider's SDK threw

vars == <<record, master, nutch, accepted,
          pc, who, provider, read, apiKey, keySource, error>>

-----------------------------------------------------------------------------
Ciphertexts == [key : Keys, under : Masters]

Decrypts(c) == c # None /\ master # None /\ c.under = master

\* The plaintext key, or None when there is no record or it fails to decrypt.
Decrypt(c) == IF Decrypts(c) THEN c.key ELSE None

\* Whether v, asked with this key, lets the caller in.  The status of the
\* Nutch key is the provider's own business and left open.
LetsIn(v, k) == k \in accepted /\ KeyProvider[k] = v

\* The statuses a provider has for a cause of failure: an account without
\* credit is a 400 at one and a 429 at the other.
Statuses == [key |-> {401, 403}, credit |-> {400, 429}, rate |-> {429},
             request |-> {400, 404}, outage |-> {500, 529}]

\* What an SDK throws.  Status 0 stands for none: a lost connection, and any
\* error that comes as an event of a stream that has begun.  The text of an
\* account without credit says so; any other may mention billing too.
SdkErrors ==
    {e \in [cause : DOMAIN Statuses, status : {0, 400, 401, 403, 404, 429, 500, 529},
            billing : BOOLEAN] :
        e.status # 0 => /\ e.status \in Statuses[e.cause]
                        /\ e.cause = "credit" => e.billing}

\* Mutant: the status is looked at before the text of the message.
ClassifyStatusFirst(e) ==
    IF e.status = 0 \/ e.status >= 500 THEN "unavailable"
    ELSE IF e.status \in {401, 403} THEN "auth_failed"
    ELSE IF e.status = 429 THEN "rate_limited"
    ELSE IF e.billing THEN "quota_exhausted"
    ELSE "bad_request"

classifyProviderError(e) ==
    IF e.status = 0 THEN "unavailable"
    ELSE IF e.billing THEN "quota_exhausted"
    ELSE IF e.status \in {401, 403} THEN "auth_failed"
    ELSE IF e.status = 429 THEN "rate_limited"
    ELSE IF e.status >= 500 THEN "unavailable"
    ELSE IF e.status >= 400 THEN "bad_request"
    ELSE "unavailable"

-----------------------------------------------------------------------------
Pcs == {"idle", "validate", "store", "decrypt", "call", "refused", "failed"}

Init ==
    /\ record = [u \in Users |-> [v \in Providers |-> None]]
    /\ master \in Masters \cup {None}
    /\ nutch \in SUBSET Providers
    /\ accepted = Keys
    /\ pc = [p \in Slots |-> "idle"]
    /\ who = [p \in Slots |-> None]
    /\ provider = [p \in Slots |-> None]
    /\ read = [p \in Slots |-> None]
    /\ apiKey = [p \in Slots |-> None]
    /\ keySource = [p \in Slots |-> None]
    /\ error = [p \in Slots |-> None]

tables == <<record, master, nutch, accepted>>
request == <<who, provider, read, apiKey, keySource>>

Goto(p, l) == pc' = [pc EXCEPT ![p] = l]

Start(p, u, v, l) ==
    /\ pc[p] = "idle"
    /\ Goto(p, l)
    /\ who' = [who EXCEPT ![p] = u]
    /\ provider' = [provider EXCEPT ![p] = v]

\* Mutant: the key of a finished request stays in the request's memory.
EndWithKey(p) ==
    /\ Goto(p, "idle")
    /\ who' = [who EXCEPT ![p] = None]
    /\ provider' = [provider EXCEPT ![p] = None]
    /\ read' = [read EXCEPT ![p] = None]
    /\ keySource' = [keySource EXCEPT ![p] = None]
    /\ error' = [error EXCEPT ![p] = None]
    /\ UNCHANGED apiKey

End(p) ==
    /\ Goto(p, "idle")
    /\ who' = [who EXCEPT ![p] = None]
    /\ provider' = [provider EXCEPT ![p] = None]
    /\ read' = [read EXCEPT ![p] = None]
    /\ apiKey' = [apiKey EXCEPT ![p] = None]
    /\ keySource' = [keySource EXCEPT ![p] = None]
    /\ error' = [error EXCEPT ![p] = None]

-----------------------------------------------------------------------------
(* upsert and remove.  An anonymous account gets a 403 and changes nothing;*)
(* it is the only kind that is ever deleted, so no record cascades.        *)

StartUpsert(p, u, v, k) ==
    /\ u \in SignedIn
    /\ Start(p, u, v, "validate")
    /\ apiKey' = [apiKey EXCEPT ![p] = k]
    /\ UNCHANGED <<tables, read, keySource, error>>

\* Mutant: the key is tried with whichever client lets it in.
ValidateAnywhere(p) ==
    /\ pc[p] = "validate"
    /\ apiKey[p] \in accepted
    /\ Goto(p, "store")
    /\ UNCHANGED <<tables, request, error>>

Validate(p) ==
    /\ pc[p] = "validate"
    /\ LetsIn(provider[p], apiKey[p])
    /\ Goto(p, "store")
    /\ UNCHANGED <<tables, request, error>>

Store(p) ==
    /\ pc[p] = "store"
    /\ master # None
    /\ record' = [record EXCEPT ![who[p]][provider[p]] =
                    [key |-> apiKey[p], under |-> master]]
    /\ End(p)
    /\ UNCHANGED <<master, nutch, accepted>>

Remove(u, v) ==
    /\ u \in SignedIn
    /\ record[u][v] # None
    /\ record' = [record EXCEPT ![u][v] = None]
    /\ UNCHANGED <<master, nutch, accepted, pc, request, error>>

-----------------------------------------------------------------------------
(* A prompt, as far as keys go.  Every stored key was let in once, so none *)
(* is a placeholder, and a decrypted key always is "configured".           *)

\* Mutant: the record is looked up by its provider alone.
ReadRecordOfProvider(p, u, v) ==
    /\ u \in SignedIn \/ v = DefaultProvider
    /\ Start(p, u, v, "decrypt")
    /\ \E w \in SignedIn :
          read' = [read EXCEPT ![p] = IF u \in SignedIn THEN record[w][v] ELSE None]
    /\ UNCHANGED <<tables, apiKey, keySource, error>>

ReadRecord(p, u, v) ==
    /\ u \in SignedIn \/ v = DefaultProvider
    /\ Start(p, u, v, "decrypt")
    /\ read' = [read EXCEPT ![p] = IF u \in SignedIn THEN record[u][v] ELSE None]
    /\ UNCHANGED <<tables, apiKey, keySource, error>>

\* Mutant: a record that fails to decrypt fails the prompt.
ResolveOrThrow(p) ==
    /\ pc[p] = "decrypt"
    /\ Goto(p, IF Decrypts(read[p]) \/ (read[p] = None /\ provider[p] \in nutch)
               THEN "call" ELSE "refused")
    /\ apiKey' = [apiKey EXCEPT ![p] = Decrypt(read[p])]
    /\ keySource' = [keySource EXCEPT ![p] = IF Decrypt(read[p]) = None THEN "nutch" ELSE "user"]
    /\ UNCHANGED <<tables, who, provider, read, error>>

\* The record the database returned may have been replaced or removed since.
Resolve(p) ==
    /\ pc[p] = "decrypt"
    /\ LET userKey == Decrypt(read[p])
       IN  /\ Goto(p, IF userKey # None \/ provider[p] \in nutch THEN "call" ELSE "refused")
           /\ apiKey' = [apiKey EXCEPT ![p] = userKey]
           /\ keySource' = [keySource EXCEPT
                              ![p] = IF userKey = None THEN "nutch" ELSE "user"]
    /\ UNCHANGED <<tables, who, provider, read, error>>

Succeed(p) ==
    /\ pc[p] = "call"
    /\ apiKey[p] = None \/ LetsIn(provider[p], apiKey[p])
    /\ End(p)
    /\ UNCHANGED tables

CallFails(p, e) ==
    /\ pc[p] = "call"
    /\ apiKey[p] # None /\ e.cause # "outage" =>
          (e.cause = "key" <=> ~ LetsIn(provider[p], apiKey[p]))
    /\ Goto(p, "failed")
    /\ error' = [error EXCEPT ![p] = e]
    /\ UNCHANGED <<tables, request>>

\* The error filter answers, and so it does for any await that rejects.
Fail(p) ==
    /\ pc[p] # "idle"
    /\ End(p)
    /\ UNCHANGED tables

-----------------------------------------------------------------------------
Revoke(k) ==
    /\ accepted' = accepted \ {k}
    /\ UNCHANGED <<record, master, nutch, pc, request, error>>

\* The process starts again, with what is then in its environment.
Restart(m, N) ==
    /\ master' = m /\ nutch' = N
    /\ pc' = [p \in Slots |-> "idle"]
    /\ who' = [p \in Slots |-> None]
    /\ provider' = [p \in Slots |-> None]
    /\ read' = [p \in Slots |-> None]
    /\ apiKey' = [p \in Slots |-> None]
    /\ keySource' = [p \in Slots |-> None]
    /\ error' = [p \in Slots |-> None]
    /\ UNCHANGED <<record, accepted>>

\* People connect keys they hold, sometimes for the wrong provider.
Upsert(p) ==
    \/ \E k \in Keys, v \in Providers : StartUpsert(p, KeyOwner[k], v, k)
    \/ Validate(p) \/ Store(p)
Prompt(p) ==
    \/ (\E u \in Users, v \in Providers : ReadRecord(p, u, v)) \/ Resolve(p)
    \/ Succeed(p)
    \/ \E e \in SdkErrors : CallFails(p, e)

Next ==
    \/ \E p \in Slots : Upsert(p) \/ Prompt(p) \/ Fail(p)
    \/ \E u \in Users, v \in Providers : Remove(u, v)
    \/ \E k \in Keys : Revoke(k)
    \/ \E m \in Masters \cup {None}, N \in SUBSET Providers : Restart(m, N)

Spec == Init /\ [][Next]_vars

-----------------------------------------------------------------------------
TypeOK ==
    /\ record \in [Users -> [Providers -> Ciphertexts \cup {None}]]
    /\ master \in Masters \cup {None}
    /\ nutch \subseteq Providers /\ accepted \subseteq Keys
    /\ pc \in [Slots -> Pcs]
    /\ who \in [Slots -> Users \cup {None}]
    /\ provider \in [Slots -> Providers \cup {None}]
    /\ read \in [Slots -> Ciphertexts \cup {None}]
    /\ apiKey \in [Slots -> Keys \cup {None}]
    /\ keySource \in [Slots -> {"user", "nutch", None}]
    /\ error \in [Slots -> SdkErrors \cup {None}]
    /\ \A p \in Slots :
          /\ pc[p] = "idle" => who[p] = None /\ provider[p] = None
                               /\ read[p] = None /\ apiKey[p] = None
          /\ pc[p] # "idle" => who[p] \in Users /\ provider[p] \in Providers
          /\ pc[p] \in {"validate", "store"} => apiKey[p] # None
          /\ pc[p] = "failed" => error[p] \in SdkErrors

(* "Checked before storing": a stored key is its user's and was let in by  *)
(* the provider it is stored for, whatever ran between the check of a key  *)
(* and its storing: other upserts, removals, revocations, restarts.        *)
RecordsAreVetted ==
    \A u \in Users, v \in Providers : record[u][v] # None =>
        /\ KeyOwner[record[u][v].key] = u
        /\ KeyProvider[record[u][v].key] = v

(* A prompt calls the provider with a key of its own user, or with a Nutch *)
(* key that is configured, and says truly which ("key_source"); also when  *)
(* the record was replaced, removed or made undecryptable in the meantime. *)
KeysStayWithTheirUser ==
    \A p \in Slots : pc[p] \in {"call", "failed"} =>
        IF apiKey[p] = None
        THEN keySource[p] = "nutch" /\ provider[p] \in nutch
        ELSE /\ keySource[p] = "user"
             /\ KeyOwner[apiKey[p]] = who[p] /\ KeyProvider[apiKey[p]] = provider[p]

(* "A rotated ENCRYPTION_KEY should degrade to the Nutch key rather than   *)
(* breaking every prompt": a prompt that found a record made under another *)
(* ENCRYPTION_KEY than the process now has runs, and says it runs, on the  *)
(* Nutch key, and is refused only if there is none; whatever becomes of    *)
(* the record behind it.  (A record that decrypts is another matter: its   *)
(* key is used, and if it is revoked the prompt fails, Nutch key or not.)  *)
RotationDegrades ==
    \A p \in Slots :
        /\ pc[p] \in {"call", "failed", "refused"}
        /\ read[p] # None /\ read[p].under # master
        => /\ apiKey[p] = None /\ keySource[p] = "nutch"
           /\ pc[p] = "refused" <=> provider[p] \notin nutch

(* What the client is told of a failed call is true of it where it is      *)
(* specific.  "auth_failed" is a matter of the key, and of a connected key *)
(* only if it was revoked after it was connected: "checked before storing, *)
(* so an invalid key is refused at the settings screen rather than         *)
(* surfacing later as a failed prompt".  "rate_limited" and "bad_request"  *)
(* are never an account without credit.  "quota_exhausted" may be wrong    *)
(* only by a text that mentions billing, and "unavailable" for an error    *)
(* without a status.                                                       *)
BlameIsDeserved ==
    \A p \in Slots : pc[p] = "failed" =>
        LET e == error[p]
            told == classifyProviderError(e)
        IN  /\ told = "auth_failed" =>
                  e.cause = "key" /\ (apiKey[p] # None => apiKey[p] \notin accepted)
            /\ told = "rate_limited" => e.cause = "rate"
            /\ told = "bad_request" => e.cause = "request"
            /\ told = "quota_exhausted" => e.cause = "credit" \/ e.billing
            /\ told = "unavailable" => e.cause = "outage" \/ e.status = 0
=============================================================================
