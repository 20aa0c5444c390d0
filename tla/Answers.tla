------------------------------- MODULE Answers -------------------------------
(***************************************************************************)
(* What POST /ai/prompt answers, and why.  One request of one account is   *)
(* followed from its checks to the error filter; between its awaits        *)
(* everything else may happen to the account: other requests create and    *)
(* delete its rows and convert it (AccountLife), connect and remove keys,  *)
(* and the process restarts with other keys.                               *)
(*                                                                         *)
(* Left out: what the rows contain, the calls of the provider's client     *)
(* (Byok), and streams, whose status is 200 before the first check and     *)
(* whose errors are cut down to a message (Exchange).                      *)
(***************************************************************************)
EXTENDS Naturals, FiniteSets, TLC

CONSTANTS
    Sessions, Files,            \* row ids
    SessionLimit, FileLimit,    \* the limits of an anonymous account
    None                        \* no model, row, key or detail

VARIABLES
    kind,       \* "anonymous", "signed_in" or, converted, "closed"
    session,    \* session[s], see AccountLife
    file,       \* file[f], likewise
    record,     \* the account's key of each provider, see KeyStates
    nutch,      \* the providers with a usable Nutch key
    pc,         \* the await the request is at
    request,    \* the body of the request
    at,         \* the session it runs in
    block,      \* the file it has inserted last
    wrote,      \* history: what it has stored
    keySource,  \* whose key it runs on
    answer,     \* the error filter's status, error and extra fields
    fault       \* history: a store was down or could not be reached

\* The model registry: each model's provider, and whether it takes an image.
Chat(provider, vision) == [provider |-> provider, vision |-> vision]

MODELS ==
    "claude-opus-5"      :> Chat("anthropic", TRUE)
    @@ "claude-sonnet-5" :> Chat("anthropic", TRUE)
    @@ "claude-haiku-4-5" :> Chat("anthropic", TRUE)
    @@ "gpt-4o"          :> Chat("openai", TRUE)
    @@ "gpt-4"           :> Chat("openai", FALSE)

DEFAULT_MODEL_ID == "claude-opus-5"

Models == DOMAIN MODELS
Provider(m) == MODELS[m].provider
Providers == {Provider(m) : m \in Models}

ASSUME ConstantsOK ==
    /\ None \notin Sessions \cup Files \cup Models
    /\ SessionLimit \in Nat /\ FileLimit \in Nat

\* What may happen to the account and its rows.
Life == INSTANCE AccountLife

account == <<kind, session, file, record, nutch>>
vars == <<account, pc, request, at, block, wrote, keySource, answer, fault>>

\* A record that was made under another ENCRYPTION_KEY is "stale".
KeyStates == {"none", "good", "stale"}
Pcs == {"idle", "kind", "key", "session", "limit", "insert", "prompt", "call",
        "reply", "files", "insertFile", "offload", "answered"}

\* None as a model is an id the registry does not know.
Requests == [model : Models \cup {None}, image : BOOLEAN, url : BOOLEAN,
             session : Sessions \cup {None}]

Own(rows) == {r \in DOMAIN rows : rows[r] = "own"}

-----------------------------------------------------------------------------
(* Errors and what the filter makes of them.                               *)

PRISMA_STATUS == [P2025 |-> 404, P2002 |-> 409, P2003 |-> 400]

\* Mutant: the code of a missing foreign key is not in the table.
MapWithoutForeignKey(e) ==
    IF e.type = "http" THEN [status |-> e.status, error |-> e.error, extra |-> e.extra]
    ELSE IF e.error \in {"P2025", "P2002"}
    THEN [status |-> PRISMA_STATUS[e.error], error |-> e.error, extra |-> None]
    ELSE [status |-> 500, error |-> "InternalServerError", extra |-> None]

resolve(e) ==
    IF e.type = "http" THEN [status |-> e.status, error |-> e.error, extra |-> e.extra]
    ELSE IF e.error \in DOMAIN PRISMA_STATUS
    THEN [status |-> PRISMA_STATUS[e.error], error |-> e.error, extra |-> None]
    ELSE [status |-> 500, error |-> "InternalServerError", extra |-> None]

HttpException(status, error) ==
    [type |-> "http", status |-> status, error |-> error, extra |-> None]

LimitExceeded(limit, current) ==
    [HttpException(403, "LIMIT_REACHED") EXCEPT
        !.extra = [limit |-> limit, current |-> current]]

ProviderStatus ==
    [quota_exhausted |-> 402, auth_failed |-> 502, rate_limited |-> 429,
     bad_request |-> 400, unavailable |-> 502]

ProviderException(failure) == HttpException(ProviderStatus[failure], "PROVIDER_ERROR")

Prisma(code) == [type |-> "prisma", error |-> code]

NoAnswer == [status |-> 0, error |-> "none", extra |-> None]
Created == [status |-> 201, error |-> "none", extra |-> None]

Goto(l) == pc' = l

Throw(e) == answer' = resolve(e) /\ Goto("answered")

-----------------------------------------------------------------------------
(* The rules for a request, and the model list that announces them.        *)

isAnonymous == kind # "signed_in"

\* Mutant: the key decides whether the request is looked at.
MalformedWithKeys(r) ==
    /\ r.model = None \/ Provider(r.model) \in nutch
    /\ \/ r.model = None
       \/ r.image /\ ~ r.url
       \/ r.url /\ ~ MODELS[r.model].vision

Malformed(r) ==
    \/ r.model = None
    \/ r.image /\ ~ r.url
    \/ r.url /\ ~ MODELS[r.model].vision

\* Mutant: the list asks for the Nutch key only.
ListedByNutch(m) ==
    LET own == ~ isAnonymous /\ record[Provider(m)] # "none"
    IN  [source    |-> IF own THEN "user" ELSE "nutch",
         available |-> Provider(m) \in nutch,
         locked    |-> isAnonymous /\ m # DEFAULT_MODEL_ID]

\* listAvailableModels: one entry of the list as it is now.
Listed(m) ==
    LET own == ~ isAnonymous /\ record[Provider(m)] # "none"
    IN  [source    |-> IF own THEN "user" ELSE "nutch",
         available |-> own \/ Provider(m) \in nutch,
         locked    |-> isAnonymous /\ m # DEFAULT_MODEL_ID]

NoRequest == [model |-> None, image |-> FALSE, url |-> FALSE, session |-> None]

Init ==
    /\ kind \in {"anonymous", "signed_in"}
    /\ session = [s \in Sessions |-> "free"] /\ file = [f \in Files |-> "free"]
    /\ record = [v \in Providers |-> "none"] /\ nutch \in SUBSET Providers
    /\ pc = "idle" /\ request = NoRequest /\ at = None /\ block = None
    /\ wrote = {} /\ keySource = None /\ answer = NoAnswer /\ fault = FALSE

-----------------------------------------------------------------------------
(* The request.                                                            *)

\* The checks up to the first await.  Clients name sessions they were shown.
Receive(r) ==
    /\ pc = "idle"
    /\ r.session # None => session[r.session] # "free"
    /\ request' = r
    /\ IF Malformed(r) THEN Throw(HttpException(400, "BadRequest"))
                       ELSE Goto("kind") /\ UNCHANGED answer
    /\ UNCHANGED <<account, at, block, wrote, keySource, fault>>

\* isConfigured of the provider, for its own key or the Nutch key.
UseKey(source) ==
    /\ keySource' = source
    /\ IF source = "user" \/ Provider(request.model) \in nutch
       THEN /\ Goto(IF request.session # None THEN "session" ELSE "limit")
            /\ UNCHANGED answer
       ELSE Throw(HttpException(503, "ServiceUnavailable"))

ReadKind ==
    /\ pc = "kind"
    /\ IF ~ isAnonymous THEN Goto("key") /\ UNCHANGED <<keySource, answer>>
       ELSE IF request.model # DEFAULT_MODEL_ID
       THEN Throw(HttpException(403, "Forbidden")) /\ UNCHANGED keySource
       ELSE UseKey("nutch")
    /\ UNCHANGED <<account, request, at, block, wrote, fault>>

DecryptKey ==
    /\ pc = "key"
    /\ UseKey(IF record[Provider(request.model)] = "good" THEN "user" ELSE "nutch")
    /\ UNCHANGED <<account, request, at, block, wrote, fault>>

FindSession ==
    /\ pc = "session"
    /\ IF session[request.session] = "own"
       THEN at' = request.session /\ Goto("prompt") /\ UNCHANGED answer
       ELSE Throw(HttpException(400, "BadRequest")) /\ UNCHANGED at
    /\ UNCHANGED <<account, request, block, wrote, keySource, fault>>

CheckLimit ==
    /\ pc = "limit"
    /\ IF isAnonymous /\ Cardinality(Own(session)) >= SessionLimit
       THEN Throw(LimitExceeded(SessionLimit, Cardinality(Own(session))))
       ELSE Goto("insert") /\ UNCHANGED answer
    /\ UNCHANGED <<account, request, at, block, wrote, keySource, fault>>

InsertSession(s) ==
    /\ pc = "insert" /\ session[s] = "free"
    /\ IF kind = "closed"
       THEN Throw(Prisma("P2003")) /\ UNCHANGED <<session, at, wrote>>
       ELSE /\ session' = [session EXCEPT ![s] = "own"]
            /\ at' = s /\ wrote' = wrote \cup {"session"}
            /\ Goto("prompt") /\ UNCHANGED answer
    /\ UNCHANGED <<kind, file, record, nutch, request, block, keySource, fault>>

\* addMessage by the session's id alone.
AddMessage(what, next) ==
    /\ IF session[at] = "deleted"
       THEN Throw(Prisma("P2003")) /\ UNCHANGED wrote
       ELSE wrote' = wrote \cup {what} /\ Goto(next) /\ UNCHANGED answer
    /\ UNCHANGED <<account, request, at, block, keySource, fault>>

\* Mutant: prompt and reply are to be saved together, after the call.
RecordPromptLater ==
    /\ pc = "prompt" /\ Goto("call")
    /\ UNCHANGED <<account, request, at, block, wrote, keySource, answer, fault>>

RecordPrompt == pc = "prompt" /\ AddMessage("prompt", "call")
RecordReply == pc = "reply" /\ AddMessage("reply", "files")

CallSucceeds ==
    /\ pc = "call" /\ Goto("reply")
    /\ UNCHANGED <<account, request, at, block, wrote, keySource, answer, fault>>

CallFails(failure) ==
    /\ pc = "call"
    /\ Throw(ProviderException(failure))
    /\ UNCHANGED <<account, request, at, block, wrote, keySource, fault>>

\* The next block of the reply; at the limit the rest is left unsaved.
NextBlock ==
    /\ pc = "files"
    /\ IF isAnonymous /\ Cardinality(Own(file)) >= FileLimit
       THEN answer' = Created /\ Goto("answered")
       ELSE Goto("insertFile") /\ UNCHANGED answer
    /\ UNCHANGED <<account, request, at, block, wrote, keySource, fault>>

InsertFile(f) ==
    /\ pc = "insertFile" /\ file[f] = "free"
    /\ IF kind = "closed"
       THEN Throw(Prisma("P2003")) /\ UNCHANGED <<file, block>>
       ELSE /\ file' = [file EXCEPT ![f] = "own"] /\ block' = f
            /\ Goto("files") \/ Goto("offload")
            /\ UNCHANGED answer
    /\ UNCHANGED <<kind, session, record, nutch, request, at, wrote, keySource, fault>>

\* The upload, and the key recorded in the row.
Offload ==
    /\ pc = "offload"
    /\ IF file[block] = "deleted" THEN Throw(Prisma("P2025"))
                                  ELSE Goto("files") /\ UNCHANGED answer
    /\ UNCHANGED <<account, request, at, block, wrote, keySource, fault>>

Finish ==
    /\ pc = "files"
    /\ answer' = Created /\ Goto("answered")
    /\ UNCHANGED <<account, request, at, block, wrote, keySource, fault>>

\* The database, or S3, does not answer.
Unreachable ==
    /\ pc \notin {"idle", "call", "answered"}
    /\ Throw(Prisma("P1001")) /\ fault' = TRUE
    /\ UNCHANGED <<account, request, at, block, wrote, keySource>>

Clear ==
    /\ Goto("idle") /\ request' = NoRequest /\ at' = None /\ block' = None
    /\ wrote' = {} /\ keySource' = None /\ answer' = NoAnswer /\ fault' = FALSE

\* Mutant: the answer to the last request is sent once more.
SendAgain ==
    /\ pc = "answered" /\ Goto("idle")
    /\ UNCHANGED <<account, request, at, block, wrote, keySource, answer, fault>>

Send == pc = "answered" /\ Clear /\ UNCHANGED account

-----------------------------------------------------------------------------
(* What else happens to the account.                                       *)

others == <<pc, request, at, block, wrote, keySource, answer, fault>>

\* Other requests, and conversions of or into the account.
Elsewhere ==
    /\ \/ \E s \in Sessions : Life!CreateSession(s) \/ Life!DeleteSession(s)
       \/ \E f \in Files : Life!CreateFile(f) \/ Life!DeleteFile(f)
       \/ \E moved \in SUBSET (Sessions \cup Files) :
             Life!TakeOver(moved) \/ Life!Close(moved)
    /\ UNCHANGED <<record, nutch, others>>

SetRecord(v, k) ==
    /\ kind = "signed_in" /\ k \in {"none", "good"}
    /\ record' = [record EXCEPT ![v] = k]
    /\ UNCHANGED <<kind, session, file, nutch, others>>

\* The request dies; stored keys may not decrypt any more.
Restart(N) ==
    /\ nutch' = N
    /\ record' \in {record, [v \in Providers |->
                                IF record[v] = "none" THEN "none" ELSE "stale"]}
    /\ Clear
    /\ UNCHANGED <<kind, session, file>>

Next ==
    \/ \E r \in Requests : Receive(r)
    \/ ReadKind \/ DecryptKey \/ FindSession \/ CheckLimit
    \/ \E s \in Sessions : InsertSession(s)
    \/ RecordPrompt \/ CallSucceeds \/ RecordReply
    \/ \E failure \in DOMAIN ProviderStatus : CallFails(failure)
    \/ NextBlock \/ Offload \/ Finish \/ Unreachable \/ Send
    \/ \E f \in Files : InsertFile(f)
    \/ Elsewhere
    \/ \E v \in Providers, k \in KeyStates : SetRecord(v, k)
    \/ \E N \in SUBSET Providers : Restart(N)

Spec == Init /\ [][Next]_vars

-----------------------------------------------------------------------------
Types ==
    /\ kind \in {"anonymous", "signed_in", "closed"}
    /\ session \in [Sessions -> Life!RowStates] /\ file \in [Files -> Life!RowStates]
    /\ record \in [Providers -> KeyStates] /\ nutch \subseteq Providers
    /\ pc \in Pcs /\ request \in Requests
    /\ at \in Sessions \cup {None} /\ block \in Files \cup {None}
    /\ wrote \subseteq {"session", "prompt", "reply"}
    /\ keySource \in {"user", "nutch", None} /\ fault \in BOOLEAN

TypeOK ==
    /\ Types
    /\ pc = "answered" <=> answer.status # 0
    /\ pc = "idle" => request = NoRequest /\ wrote = {}

(* The status names the one who can do something about it, and what it     *)
(* says is still true when it is sent, whatever happened since the check   *)
(* that failed: 500 is ours, 503 a missing key, 403 the account's kind, and *)
(* a 400 or 404 what the client asked for or has taken away itself.        *)
BlameIsRight ==
    pc = "answered" =>
        /\ answer.status = 500 => fault
        /\ answer.status = 503 => Provider(request.model) \notin nutch
        /\ answer.status = 403 => kind # "signed_in"
        /\ answer.error = "LIMIT_REACHED" => answer.extra.current >= answer.extra.limit
        /\ answer.status = 404 => file[block] = "deleted"
        /\ answer.status = 400 =>
              \/ Malformed(request) \/ answer.error = "PROVIDER_ERROR"
              \/ kind = "closed"
              \/ request.session # None /\ session[request.session] # "own"
              \/ at # None /\ session[at] = "deleted"

\* What the route accepts: a model of the list, and an image where one is
\* announced and can be seen.
WellFormed(r) ==
    r.model \in Models /\ (r.image => r.url) /\ (r.url => MODELS[r.model].vision)

(* "A malformed request is a 400 whether or not a provider happens to be   *)
(* configured": and it is the only one that is refused for its form.       *)
MalformedIs400 ==
    pc = "answered" =>
        /\ ~ WellFormed(request) => answer.status = 400
        /\ answer.error = "BadRequest" => ~ WellFormed(request) \/ request.session # None

(* No answer leaves an empty conversation in the history list: a session   *)
(* the request has opened is there with its prompt, unless the database    *)
(* failed in between; and a prompt that succeeded is stored with its reply. *)
NoEmptySession ==
    pc = "answered" =>
        /\ "session" \in wrote /\ session[at] # "deleted" /\ ~ fault =>
              "prompt" \in wrote
        /\ answer.status \in {403, 503} => wrote = {}
        /\ answer.status = 201 => {"prompt", "reply"} \subseteq wrote

\* The steps that let the request in or refuse it for its model or key.
Decided == pc \in {"kind", "key"} /\ pc' \in {"session", "limit", "answered"} /\ ~ fault'

(* The model list tells what a prompt would do at that moment: it is let   *)
(* in exactly when its model is listed as available and not locked, and    *)
(* runs on the key of the listed source.  It is wrong of one kind of       *)
(* record, that which does not decrypt: the list says the user's key, and  *)
(* the prompt runs on the Nutch key or, where there is none, is refused.   *)
ListTellsTheTruth ==
    [][Decided =>
          LET listed == Listed(request.model)
              stale == record[Provider(request.model)] = "stale"
          IN  /\ pc' # "answered" =>
                    /\ listed.available /\ ~ listed.locked
                    /\ keySource' = IF stale THEN "nutch" ELSE listed.source
              /\ pc' = "answered" =>
                    /\ answer'.status = IF listed.locked THEN 403 ELSE 503
                    /\ listed.available => listed.locked
                                        \/ (stale /\ Provider(request.model) \notin nutch)
      ]_vars

-----------------------------------------------------------------------------
(* The inductive invariant of AnswersProofs.                               *)

Checking == {"kind", "key", "session", "limit", "insert"}
Filing == {"files", "insertFile", "offload"}

\* The request is one the route let in, and the rows it works on are in use.
RowsInv ==
    /\ pc # "answered" => ~ fault
    /\ pc = "answered" <=> answer.status # 0
    /\ pc = "idle" => request = NoRequest
    /\ pc \notin {"idle", "answered"} => ~ Malformed(request)
    /\ pc = "key" => kind = "signed_in"
    /\ request.session # None => session[request.session] # "free"
    /\ pc = "session" => request.session # None
    /\ at # None => session[at] # "free"
    /\ at = None => pc \notin {"prompt", "call", "reply"} \cup Filing
    /\ block # None => file[block] # "free"
    /\ pc = "offload" => block # None
    /\ pc = "answered" /\ answer.status = 404 => block # None

\* What is stored follows the order of the code.
WroteInv ==
    /\ pc \in {"idle"} \cup Checking => wrote = {}
    /\ pc = "prompt" => wrote \subseteq {"session"}
    /\ pc \in {"call", "reply"} \cup Filing => "prompt" \in wrote
    /\ pc \in Filing => "reply" \in wrote
    /\ "session" \in wrote => at # None

IInv == /\ Types /\ RowsInv /\ WroteInv
        /\ BlameIsRight /\ MalformedIs400 /\ NoEmptySession
=============================================================================
