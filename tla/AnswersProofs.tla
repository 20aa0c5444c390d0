---------------------------- MODULE AnswersProofs ----------------------------
(* Theorems about Answers for any number of rows and any limits.           *)
EXTENDS Answers, TLAPS

\* What the error filter makes of the exceptions the request can throw.
LEMMA Resolved ==
    /\ \A status, error :
          resolve(HttpException(status, error)) =
              [status |-> status, error |-> error, extra |-> None]
    /\ \A limit, current :
          resolve(LimitExceeded(limit, current)) =
              [status |-> 403, error |-> "LIMIT_REACHED",
               extra |-> [limit |-> limit, current |-> current]]
    /\ resolve(Prisma("P2003")) = [status |-> 400, error |-> "P2003", extra |-> None]
    /\ resolve(Prisma("P2025")) = [status |-> 404, error |-> "P2025", extra |-> None]
    /\ resolve(Prisma("P1001")) =
          [status |-> 500, error |-> "InternalServerError", extra |-> None]
BY DEF resolve, HttpException, LimitExceeded, Prisma, PRISMA_STATUS

\* The rules of the route refuse what is not well formed, and nothing else.
LEMMA FormIsChecked ==
    ASSUME NEW r \in Requests PROVE WellFormed(r) <=> ~ Malformed(r)
<1>1. r.model \in Models \cup {None} /\ r.image \in BOOLEAN /\ r.url \in BOOLEAN
      BY DEF Requests
<1> QED BY <1>1, ConstantsOK DEF WellFormed, Malformed

\* What is in use or not, as one fact about each row the request holds.
LEMMA Rows ==
    ASSUME Types
    PROVE  /\ request.session # None => request.session \in Sessions
           /\ at # None => at \in Sessions
           /\ block # None => block \in Files
BY DEF Types, Requests

-----------------------------------------------------------------------------
(* The three kinds of steps: what happens beside the request, a step that  *)
(* answers it, and one after which it goes on.                             *)

\* Rows that were used stay used, deleted rows stay deleted, rows of other
\* accounts do not come back, and no account becomes signed in or leaves
\* that state.
Lasting ==
    /\ \A s \in Sessions :
          /\ session[s] # "free" => session'[s] # "free"
          /\ session[s] \in {"other", "deleted"} => session'[s] # "own"
          /\ session[s] = "deleted" => session'[s] = "deleted"
    /\ \A f \in Files :
          /\ file[f] # "free" => file'[f] # "free"
          /\ file[f] = "deleted" => file'[f] = "deleted"
    /\ kind = "signed_in" <=> kind' = "signed_in"
    /\ kind = "closed" => kind' = "closed"

RowTypes ==
    /\ kind \in {"anonymous", "signed_in", "closed"}
    /\ session \in [Sessions -> Life!RowStates] /\ file \in [Files -> Life!RowStates]

LEMMA BesideStep ==
    ASSUME IInv, Lasting, RowTypes', record' \in [Providers -> KeyStates],
           UNCHANGED <<nutch, others>>
    PROVE  IInv'
<1> USE DEF others
<1>0. Types /\ RowsInv /\ WroteInv /\ BlameIsRight /\ MalformedIs400 /\ NoEmptySession
      BY DEF IInv
<1>1. Types'
      BY <1>0 DEF Types, RowTypes
<1>2. /\ request.session # None => request.session \in Sessions
      /\ at # None => at \in Sessions
      /\ block # None => block \in Files
      BY <1>0, Rows
<1>3. \A r : Malformed(r)' <=> Malformed(r)
      BY DEF Malformed
<1>4. RowsInv' /\ WroteInv'
      BY <1>0, <1>2, <1>3 DEF RowsInv, WroteInv, Lasting
<1>5. NoEmptySession'
  <2> SUFFICES ASSUME pc = "answered", "session" \in wrote, session'[at] # "deleted", ~ fault
               PROVE  "prompt" \in wrote
      BY <1>0 DEF NoEmptySession
  <2>1. at \in Sessions
        BY <1>0, <1>2 DEF WroteInv
  <2> QED BY <1>0, <2>1 DEF NoEmptySession, Lasting
<1>6. BlameIsRight'
  <2> SUFFICES ASSUME pc = "answered" PROVE BlameIsRight'
      BY DEF BlameIsRight
  <2>1. /\ answer.status = 500 => fault
        /\ answer.status = 503 => Provider(request.model) \notin nutch
        /\ answer.status = 403 => kind' # "signed_in"
        /\ answer.error = "LIMIT_REACHED" => answer.extra.current >= answer.extra.limit
        BY <1>0 DEF BlameIsRight, Lasting
  <2>2. answer.status = 404 => file'[block] = "deleted"
        BY <1>0, <1>2 DEF BlameIsRight, Lasting, RowsInv
  <2>3. request.session # None /\ session[request.session] # "own" =>
            session'[request.session] # "own"
        BY <1>0, <1>2 DEF RowsInv, Lasting, RowTypes, Life!RowStates, Types
  <2>4. at # None /\ session[at] = "deleted" => session'[at] = "deleted"
        BY <1>2 DEF Lasting
  <2>5. kind = "closed" => kind' = "closed"
        BY DEF Lasting
  <2> QED BY <1>0, <1>3, <2>1, <2>2, <2>3, <2>4, <2>5 DEF BlameIsRight
<1>7. MalformedIs400'
      BY <1>0 DEF MalformedIs400, WellFormed
<1> QED BY <1>1, <1>4, <1>5, <1>6, <1>7 DEF IInv

\* A step that answers, and only writes the answer.
Held == <<account, request, at, block, wrote>>

LEMMA AnswerStep ==
    ASSUME IInv, UNCHANGED Held, pc \notin {"idle", "answered"},
           pc' = "answered", keySource' \in {"user", "nutch", None}, fault' \in BOOLEAN,
           NEW status \in Nat \ {0}, NEW error, NEW extra,
           answer' = [status |-> status, error |-> error, extra |-> extra],
           status = 500 => fault',
           status = 503 => Provider(request.model) \notin nutch /\ wrote = {},
           status = 403 => kind # "signed_in" /\ wrote = {},
           status = 404 => block # None /\ file[block] = "deleted",
           status = 400 =>
              \/ error = "PROVIDER_ERROR" \/ kind = "closed"
              \/ request.session # None /\ session[request.session] # "own"
              \/ at # None /\ session[at] = "deleted",
           status = 201 => "prompt" \in wrote /\ "reply" \in wrote,
           error = "LIMIT_REACHED" => extra.current >= extra.limit,
           error = "BadRequest" => request.session # None,
           "session" \in wrote /\ session[at] # "deleted" /\ ~ fault' => "prompt" \in wrote
    PROVE  IInv'
<1> USE DEF Held, account
<1>0. Types /\ RowsInv /\ WroteInv
      BY DEF IInv
<1>1. Types'
      BY <1>0 DEF Types, Pcs
<1>2. /\ answer'.status = status /\ answer'.error = error /\ answer'.extra = extra
      OBVIOUS
<1>3. RowsInv'
      BY <1>0, <1>2 DEF RowsInv, Filing
<1>4. WroteInv'
      BY <1>0 DEF WroteInv, Checking, Filing
<1>5. \A r : Malformed(r)' <=> Malformed(r)
      BY DEF Malformed
<1>6. BlameIsRight'
      BY <1>2, <1>5 DEF BlameIsRight
<1>7. WellFormed(request)
      BY <1>0, FormIsChecked DEF RowsInv, Types
<1>8. MalformedIs400'
  <2>1. WellFormed(request')
        BY <1>7 DEF WellFormed
  <2> QED BY <1>2, <2>1 DEF MalformedIs400
<1>9. NoEmptySession'
      BY <1>2 DEF NoEmptySession
<1> QED BY <1>1, <1>3, <1>4, <1>6, <1>8, <1>9 DEF IInv

\* A step after which the request goes on.
LEMMA ProceedStep ==
    ASSUME Types', RowsInv', WroteInv', pc' # "answered"
    PROVE  IInv'
BY DEF IInv, BlameIsRight, MalformedIs400, NoEmptySession

\* A step that stores nothing and goes on.
LEMMA OnlyMoves ==
    ASSUME IInv, UNCHANGED Held, UNCHANGED fault, answer' = answer, pc \notin {"idle", "answered"},
           pc' \in Pcs \ {"idle", "answered"}, keySource' \in {"user", "nutch", None},
           pc' = "key" => kind = "signed_in",
           pc' = "session" => request.session # None,
           at = None => pc' \notin {"prompt", "call", "reply"} \cup Filing,
           pc' = "offload" => block # None,
           pc' \in Checking => wrote = {},
           pc' = "prompt" => wrote \subseteq {"session"},
           pc' \in {"call", "reply"} \cup Filing => "prompt" \in wrote,
           pc' \in Filing => "reply" \in wrote
    PROVE  IInv'
<1> USE DEF Held, account
<1>0. Types /\ RowsInv /\ WroteInv
      BY DEF IInv
<1>1. Types'
      BY <1>0 DEF Types
<1>2. \A r : Malformed(r)' <=> Malformed(r)
      BY DEF Malformed
<1>3. RowsInv'
      BY <1>0, <1>2 DEF RowsInv
<1>4. WroteInv'
      BY <1>0 DEF WroteInv
<1> QED BY <1>1, <1>3, <1>4, ProceedStep

-----------------------------------------------------------------------------
(* One lemma per group of steps of the request.                            *)

LEMMA ReceiveStep ==
    ASSUME IInv, NEW r \in Requests, Receive(r) PROVE IInv'
<1> USE DEF account, Goto
<1>0. Types /\ RowsInv /\ WroteInv /\ r.session \in Sessions \cup {None}
      BY DEF IInv, Requests
<1>1. Types'
      BY <1>0 DEF Receive, Types, Throw, Pcs
<1>2. WroteInv'
      BY <1>0 DEF Receive, WroteInv, Throw, Checking, Filing
<1>3. CASE Malformed(r)
  <2>1. /\ pc' = "answered"
        /\ answer' = [status |-> 400, error |-> "BadRequest", extra |-> None]
        BY <1>3, Resolved DEF Receive, Throw
  <2>2. Malformed(request)' /\ ~ WellFormed(request)'
    <3>1. ~ WellFormed(r)
          BY <1>3, FormIsChecked
    <3> QED BY <1>3, <3>1 DEF Malformed, WellFormed, Receive
  <2>3. RowsInv'
        BY <1>0, <2>1 DEF Receive, RowsInv, Filing
  <2>4. BlameIsRight' /\ MalformedIs400'
        BY <2>1, <2>2 DEF BlameIsRight, MalformedIs400
  <2>5. NoEmptySession'
        BY <1>0, <2>1 DEF NoEmptySession, WroteInv, Receive
  <2> QED BY <1>1, <1>2, <2>3, <2>4, <2>5 DEF IInv
<1>4. CASE ~ Malformed(r)
  <2>1. ~ Malformed(request)'
        BY <1>4 DEF Malformed, Receive
  <2>2. pc' = "kind" /\ fault' = fault /\ answer' = answer
        BY <1>4 DEF Receive
  <2>3. RowsInv'
        BY <1>0, <1>4, <2>1, <2>2 DEF Receive, RowsInv, Filing
  <2> QED BY <1>1, <1>2, <2>2, <2>3, ProceedStep
<1> QED BY <1>3, <1>4

LEMMA UseKeyStep ==
    ASSUME IInv, pc \in {"kind", "key"}, NEW source \in {"user", "nutch"},
           UseKey(source), UNCHANGED Held, UNCHANGED fault
    PROVE  IInv'
<1>0. Types /\ RowsInv /\ WroteInv
      BY DEF IInv
<1>1. wrote = {} /\ fault' \in BOOLEAN
      BY <1>0 DEF WroteInv, Checking, Types
<1>2. keySource' = source
      BY DEF UseKey
<1>3. CASE source = "user" \/ Provider(request.model) \in nutch
  <2>1. /\ pc' = IF request.session # None THEN "session" ELSE "limit"
        /\ answer' = answer
        BY <1>3 DEF UseKey, Goto
  <2> QED BY <1>0, <1>1, <1>2, <2>1, OnlyMoves DEF Filing, Pcs
<1>4. CASE ~ (source = "user" \/ Provider(request.model) \in nutch)
  <2>1. /\ pc' = "answered"
        /\ answer' = [status |-> 503, error |-> "ServiceUnavailable", extra |-> None]
        BY <1>4, Resolved DEF UseKey, Throw, Goto
  <2> QED BY <1>1, <1>2, <1>4, <2>1, AnswerStep
<1> QED BY <1>3, <1>4

LEMMA CheckStep ==
    ASSUME IInv, ReadKind \/ DecryptKey \/ FindSession \/ CheckLimit PROVE IInv'
<1>0. Types /\ RowsInv /\ WroteInv
      BY DEF IInv
<1>1. CASE ReadKind
  <2>1. pc = "kind" /\ wrote = {} /\ fault' = fault /\ UNCHANGED Held /\ ~ fault
        BY <1>0, <1>1 DEF ReadKind, Held, account, RowsInv, WroteInv, Checking
  <2>2. CASE ~ isAnonymous
        BY <1>0, <1>1, <2>1, <2>2, OnlyMoves
        DEF ReadKind, Goto, isAnonymous, Filing, Pcs, Checking, Types
  <2>3. CASE isAnonymous /\ request.model # DEFAULT_MODEL_ID
    <3>1. /\ pc' = "answered" /\ keySource' = keySource
          /\ answer' = [status |-> 403, error |-> "Forbidden", extra |-> None]
          BY <1>1, <2>3, Resolved DEF ReadKind, Throw, Goto
    <3> QED BY <1>0, <2>1, <2>3, <3>1, AnswerStep DEF isAnonymous, Types
  <2>4. CASE isAnonymous /\ request.model = DEFAULT_MODEL_ID
        BY <1>1, <2>1, <2>4, UseKeyStep DEF ReadKind
  <2> QED BY <2>2, <2>3, <2>4
<1>2. CASE DecryptKey
      BY <1>2, UseKeyStep DEF DecryptKey, Held
<1>3. CASE FindSession
  <2>1. pc = "session" /\ wrote = {} /\ fault' = fault /\ ~ fault /\ keySource' = keySource
        BY <1>0, <1>3 DEF FindSession, RowsInv, WroteInv, Checking
  <2>2. request.session # None /\ request.session \in Sessions
        BY <1>0, <2>1, Rows DEF RowsInv
  <2>3. CASE session[request.session] = "own"
    <3>1. /\ pc' = "prompt" /\ at' = request.session
          /\ UNCHANGED <<account, request, block, wrote, fault, keySource, answer>>
          BY <1>3, <2>3 DEF FindSession, Goto
    <3>2. Types'
          BY <1>0, <2>2, <3>1 DEF Types, Pcs, account
    <3>3. ~ Malformed(request)'
          BY <1>0, <2>1, <3>1 DEF RowsInv, Malformed
    <3>4. RowsInv'
          BY <1>0, <2>1, <2>2, <3>1, <3>3 DEF RowsInv, account, Filing
    <3>5. WroteInv'
          BY <2>1, <3>1 DEF WroteInv, Checking, Filing
    <3> QED BY <3>1, <3>2, <3>4, <3>5, ProceedStep
  <2>4. CASE session[request.session] # "own"
    <3>1. /\ pc' = "answered" /\ UNCHANGED Held
          /\ answer' = [status |-> 400, error |-> "BadRequest", extra |-> None]
          BY <1>3, <2>4, Resolved DEF FindSession, Throw, Goto, Held
    <3> QED BY <1>0, <2>1, <2>2, <2>4, <3>1, AnswerStep DEF Types
  <2> QED BY <2>3, <2>4
<1>4. CASE CheckLimit
  <2>1. /\ pc = "limit" /\ wrote = {} /\ fault' = fault /\ ~ fault
        /\ keySource' = keySource /\ UNCHANGED Held
        BY <1>0, <1>4 DEF CheckLimit, RowsInv, WroteInv, Checking, Held
  <2> DEFINE n == Cardinality(Own(session))
  <2>2. CASE isAnonymous /\ n >= SessionLimit
    <3>1. /\ pc' = "answered"
          /\ answer' = [status |-> 403, error |-> "LIMIT_REACHED",
                        extra |-> [limit |-> SessionLimit, current |-> n]]
          BY <1>4, <2>2, Resolved DEF CheckLimit, Throw, Goto
    <3> HIDE DEF n
    <3> QED BY <1>0, <2>1, <2>2, <3>1, AnswerStep DEF isAnonymous, Types
  <2>3. CASE ~ (isAnonymous /\ n >= SessionLimit)
    <3>1. pc' = "insert" /\ answer' = answer
          BY <1>4, <2>3 DEF CheckLimit, Goto
    <3> QED BY <1>0, <2>1, <3>1, OnlyMoves DEF Filing, Pcs, Types
  <2> QED BY <2>2, <2>3
<1> QED BY <1>1, <1>2, <1>3, <1>4

LEMMA InsertSessionStep ==
    ASSUME IInv, NEW s \in Sessions, InsertSession(s) PROVE IInv'
<1> USE DEF account
<1>0. Types /\ RowsInv /\ WroteInv
      BY DEF IInv
<1>1. /\ pc = "insert" /\ wrote = {} /\ fault' = fault /\ ~ fault /\ keySource' = keySource
      BY <1>0 DEF InsertSession, RowsInv, WroteInv, Checking
<1>2. CASE kind = "closed"
  <2>1. /\ pc' = "answered" /\ UNCHANGED Held
        /\ answer' = [status |-> 400, error |-> "P2003", extra |-> None]
        BY <1>2, Resolved DEF InsertSession, Throw, Goto, Held
  <2> QED BY <1>0, <1>1, <1>2, <2>1, AnswerStep DEF Types
<1>3. CASE kind # "closed"
  <2>1. /\ pc' = "prompt" /\ at' = s /\ wrote' = {"session"}
        /\ session' = [session EXCEPT ![s] = "own"]
        /\ UNCHANGED <<kind, file, record, nutch, request, block, answer>>
        BY <1>1, <1>3 DEF InsertSession, Goto
  <2>2. Types'
        BY <1>0, <1>1, <2>1 DEF Types, Pcs, Life!RowStates
  <2>3. ~ Malformed(request)'
        BY <1>0, <1>1, <2>1 DEF RowsInv, Malformed
  <2>4. /\ request.session # None => request.session \in Sessions
        /\ s # None
        BY <1>0, Rows, ConstantsOK
  <2>5. request.session # None => session'[request.session] # "free"
        BY <1>0, <2>1, <2>4 DEF RowsInv, Types
  <2>6. session'[s] # "free"
        BY <1>0, <2>1 DEF Types
  <2>7. RowsInv'
        BY <1>0, <1>1, <2>1, <2>3, <2>4, <2>5, <2>6 DEF RowsInv, Filing
  <2>8. WroteInv'
        BY <2>1, <2>4 DEF WroteInv, Checking, Filing
  <2> QED BY <2>1, <2>2, <2>7, <2>8, ProceedStep
<1> QED BY <1>2, <1>3

\* A message at the session the request runs in.
LEMMA MessageStep ==
    ASSUME IInv, RecordPrompt \/ RecordReply PROVE IInv'
<1>0. Types /\ RowsInv /\ WroteInv
      BY DEF IInv
<1> DEFINE what == IF pc = "prompt" THEN "prompt" ELSE "reply"
           next == IF pc = "prompt" THEN "call" ELSE "files"
<1>1. AddMessage(what, next) /\ pc \in {"prompt", "reply"}
      BY DEF RecordPrompt, RecordReply
<1>2. fault' = fault /\ ~ fault /\ keySource' = keySource /\ at # None /\ at \in Sessions
      BY <1>0, <1>1, Rows DEF AddMessage, RowsInv
<1>3. CASE session[at] = "deleted"
  <2>1. /\ pc' = "answered" /\ UNCHANGED Held
        /\ answer' = [status |-> 400, error |-> "P2003", extra |-> None]
        BY <1>1, <1>3, Resolved DEF AddMessage, Throw, Goto, Held, account
  <2> QED BY <1>0, <1>1, <1>2, <1>3, <2>1, AnswerStep DEF Types
<1>4. CASE session[at] # "deleted"
  <2>1. /\ pc' = next /\ wrote' = wrote \cup {what}
        /\ UNCHANGED <<account, request, at, block, answer>>
        BY <1>1, <1>4 DEF AddMessage, Goto
  <2>2. Types'
        BY <1>0, <1>1, <1>2, <2>1 DEF Types, Pcs, account
  <2>3. ~ Malformed(request)'
        BY <1>0, <1>1, <2>1 DEF RowsInv, Malformed
  <2>4. RowsInv'
        BY <1>0, <1>1, <1>2, <2>1, <2>3 DEF RowsInv, Filing, account
  <2>5. WroteInv'
        BY <1>0, <1>1, <1>2, <2>1 DEF WroteInv, Checking, Filing
  <2> QED BY <1>1, <2>1, <2>2, <2>4, <2>5, ProceedStep
<1> QED BY <1>3, <1>4

LEMMA CallStep ==
    ASSUME IInv, CallSucceeds \/ \E failure \in DOMAIN ProviderStatus : CallFails(failure)
    PROVE  IInv'
<1>0. Types /\ RowsInv /\ WroteInv
      BY DEF IInv
<1>1. /\ pc = "call" /\ UNCHANGED Held /\ UNCHANGED <<fault, keySource>>
      /\ "prompt" \in wrote /\ at # None
      BY <1>0 DEF CallSucceeds, CallFails, Held, WroteInv, RowsInv
<1>2. CASE CallSucceeds
  <2>1. pc' = "reply" /\ answer' = answer
        BY <1>2 DEF CallSucceeds, Goto
  <2> QED BY <1>0, <1>1, <2>1, OnlyMoves DEF Pcs, Checking, Filing, Types
<1>3. ASSUME NEW failure \in DOMAIN ProviderStatus, CallFails(failure) PROVE IInv'
  <2> DEFINE status == ProviderStatus[failure]
  <2>1. status \in {400, 402, 429, 502}
        BY DEF ProviderStatus
  <2>2. /\ pc' = "answered"
        /\ answer' = [status |-> status, error |-> "PROVIDER_ERROR", extra |-> None]
        BY <1>3, Resolved DEF CallFails, Throw, Goto, ProviderException
  <2> HIDE DEF status
  <2> QED BY <1>0, <1>1, <2>1, <2>2, AnswerStep DEF Types
<1> QED BY <1>2, <1>3

LEMMA FilingStep ==
    ASSUME IInv, NextBlock \/ Offload \/ Finish PROVE IInv'
<1>0. Types /\ RowsInv /\ WroteInv
      BY DEF IInv
<1>1. /\ pc \in {"files", "offload"} /\ UNCHANGED Held /\ UNCHANGED <<fault, keySource>>
      /\ "prompt" \in wrote /\ "reply" \in wrote /\ at # None /\ ~ fault
      BY <1>0 DEF NextBlock, Offload, Finish, Held, WroteInv, RowsInv, Filing
<1>2. \/ pc' \in {"files", "insertFile"} /\ answer' = answer
      \/ pc' = "answered" /\ answer' = [status |-> 201, error |-> "none", extra |-> None]
      \/ /\ pc' = "answered" /\ pc = "offload" /\ file[block] = "deleted"
         /\ answer' = [status |-> 404, error |-> "P2025", extra |-> None]
      BY Resolved DEF NextBlock, Offload, Finish, Throw, Goto, Created
<1>3. CASE pc' \in {"files", "insertFile"} /\ answer' = answer
      BY <1>0, <1>1, <1>3, OnlyMoves DEF Pcs, Checking, Filing, Types
<1>4. CASE pc' = "answered" /\ answer' = [status |-> 201, error |-> "none", extra |-> None]
      BY <1>0, <1>1, <1>4, AnswerStep DEF Types
<1>5. CASE /\ pc' = "answered" /\ pc = "offload" /\ file[block] = "deleted"
           /\ answer' = [status |-> 404, error |-> "P2025", extra |-> None]
  <2>1. block # None
        BY <1>0, <1>5 DEF RowsInv
  <2> QED BY <1>0, <1>1, <1>5, <2>1, AnswerStep DEF Types
<1> QED BY <1>2, <1>3, <1>4, <1>5

LEMMA InsertFileStep ==
    ASSUME IInv, NEW f \in Files, InsertFile(f) PROVE IInv'
<1> USE DEF account
<1>0. Types /\ RowsInv /\ WroteInv
      BY DEF IInv
<1>1. /\ pc = "insertFile" /\ fault' = fault /\ ~ fault /\ keySource' = keySource
      /\ "prompt" \in wrote /\ "reply" \in wrote /\ at # None
      BY <1>0 DEF InsertFile, RowsInv, WroteInv, Filing
<1>2. CASE kind = "closed"
  <2>1. /\ pc' = "answered" /\ UNCHANGED Held
        /\ answer' = [status |-> 400, error |-> "P2003", extra |-> None]
        BY <1>2, Resolved DEF InsertFile, Throw, Goto, Held
  <2> QED BY <1>0, <1>1, <1>2, <2>1, AnswerStep DEF Types
<1>3. CASE kind # "closed"
  <2>1. /\ pc' \in {"files", "offload"} /\ block' = f
        /\ file' = [file EXCEPT ![f] = "own"]
        /\ UNCHANGED <<kind, session, record, nutch, request, at, wrote, answer>>
        BY <1>3 DEF InsertFile, Goto
  <2>2. Types'
        BY <1>0, <1>1, <2>1 DEF Types, Pcs, Life!RowStates
  <2>3. ~ Malformed(request)'
        BY <1>0, <1>1, <2>1 DEF RowsInv, Malformed
  <2>4. f # None /\ file'[f] # "free"
        BY <1>0, <2>1, ConstantsOK DEF Types
  <2>5. RowsInv'
        BY <1>0, <1>1, <2>1, <2>3, <2>4 DEF RowsInv, Filing
  <2>6. WroteInv'
        BY <1>0, <1>1, <2>1 DEF WroteInv, Checking, Filing
  <2> QED BY <2>1, <2>2, <2>5, <2>6, ProceedStep
<1> QED BY <1>2, <1>3

LEMMA UnreachableStep ==
    ASSUME IInv, Unreachable PROVE IInv'
<1>0. Types /\ RowsInv
      BY DEF IInv
<1>1. /\ pc \notin {"idle", "answered"} /\ pc' = "answered" /\ fault' = TRUE
      /\ UNCHANGED Held /\ keySource' = keySource
      /\ answer' = [status |-> 500, error |-> "InternalServerError", extra |-> None]
      BY Resolved DEF Unreachable, Throw, Goto, Held
<1> QED BY <1>0, <1>1, AnswerStep DEF Types

\* Between two requests nothing is held.
LEMMA ClearStep ==
    ASSUME IInv, Clear, UNCHANGED <<kind, session, file>>,
           record' \in [Providers -> KeyStates], nutch' \subseteq Providers
    PROVE  IInv'
<1>0. Types
      BY DEF IInv
<1>1. NoRequest \in Requests /\ NoRequest.session = None
      BY DEF NoRequest, Requests
<1>2. Types'
      BY <1>0, <1>1 DEF Clear, Types, Pcs, Goto
<1>3. RowsInv' /\ WroteInv' /\ pc' # "answered"
      BY <1>1 DEF Clear, RowsInv, WroteInv, Goto, Checking, Filing, NoAnswer
<1> QED BY <1>2, <1>3, ProceedStep

-----------------------------------------------------------------------------
(* What happens beside the request.                                        *)

\* Whatever AccountLife lets happen lasts.
LEMMA LifeLasts ==
    ASSUME Types, Life!Next PROVE Lasting /\ RowTypes'
<1>0. /\ kind \in {"anonymous", "signed_in", "closed"}
      /\ session \in [Sessions -> Life!RowStates] /\ file \in [Files -> Life!RowStates]
      BY DEF Types
<1>1. ~ \E k \in Life!Open : Life!SignUp(k)
      BY <1>0 DEF Life!SignUp
<1>2. ASSUME NEW s \in Sessions, Life!CreateSession(s) \/ Life!DeleteSession(s)
      PROVE  Lasting /\ RowTypes'
      BY <1>0, <1>2 DEF Life!CreateSession, Life!DeleteSession, Life!RowStates,
                        Lasting, RowTypes
<1>3. ASSUME NEW f \in Files, Life!CreateFile(f) \/ Life!DeleteFile(f)
      PROVE  Lasting /\ RowTypes'
      BY <1>0, <1>3 DEF Life!CreateFile, Life!DeleteFile, Life!RowStates, Lasting, RowTypes
<1>4. ASSUME NEW moved, Life!TakeOver(moved) PROVE Lasting /\ RowTypes'
      BY <1>0, <1>4 DEF Life!TakeOver, Life!Gained, Life!RowStates, Lasting, RowTypes
<1>5. ASSUME NEW moved, Life!Close(moved) PROVE Lasting /\ RowTypes'
      BY <1>0, <1>5 DEF Life!Close, Life!Handed, Life!RowStates, Lasting, RowTypes
<1> QED BY <1>1, <1>2, <1>3, <1>4, <1>5 DEF Life!Next

LEMMA ElsewhereStep ==
    ASSUME IInv, Elsewhere PROVE IInv'
<1>1. Types /\ Life!Next /\ UNCHANGED <<record, nutch, others>>
      BY DEF IInv, Elsewhere, Life!Next
<1>2. record' \in [Providers -> KeyStates]
      BY <1>1 DEF Types
<1> QED BY <1>1, <1>2, LifeLasts, BesideStep

LEMMA SetRecordStep ==
    ASSUME IInv, NEW v \in Providers, NEW k \in KeyStates, SetRecord(v, k) PROVE IInv'
<1>0. Types
      BY DEF IInv
<1>1. Lasting /\ RowTypes' /\ record' \in [Providers -> KeyStates]
      BY <1>0 DEF SetRecord, Lasting, RowTypes, Types
<1> QED BY <1>1, BesideStep DEF SetRecord

-----------------------------------------------------------------------------
(* The theorems.                                                           *)

LEMMA Initial == Init => IInv
<1> SUFFICES ASSUME Init PROVE IInv
    OBVIOUS
<1>1. NoRequest \in Requests /\ NoRequest.session = None
      BY DEF NoRequest, Requests
<1>2. Types
      BY <1>1 DEF Init, Types, Life!RowStates, KeyStates, Pcs
<1>3. RowsInv /\ WroteInv /\ pc # "answered"
      BY <1>1 DEF Init, RowsInv, WroteInv, Checking, Filing, NoAnswer
<1> QED BY <1>2, <1>3 DEF IInv, BlameIsRight, MalformedIs400, NoEmptySession

LEMMA Inductive == IInv /\ [Next]_vars => IInv'
<1> SUFFICES ASSUME IInv, [Next]_vars PROVE IInv'
    OBVIOUS
<1>1. ASSUME NEW r \in Requests, Receive(r) PROVE IInv'
      BY <1>1, ReceiveStep
<1>2. CASE ReadKind \/ DecryptKey \/ FindSession \/ CheckLimit
      BY <1>2, CheckStep
<1>3. ASSUME NEW s \in Sessions, InsertSession(s) PROVE IInv'
      BY <1>3, InsertSessionStep
<1>4. CASE RecordPrompt \/ RecordReply
      BY <1>4, MessageStep
<1>5. CASE CallSucceeds \/ \E failure \in DOMAIN ProviderStatus : CallFails(failure)
      BY <1>5, CallStep
<1>6. CASE NextBlock \/ Offload \/ Finish
      BY <1>6, FilingStep
<1>7. ASSUME NEW f \in Files, InsertFile(f) PROVE IInv'
      BY <1>7, InsertFileStep
<1>8. CASE Unreachable
      BY <1>8, UnreachableStep
<1>9. CASE Send
  <2>1. UNCHANGED <<kind, session, file, record, nutch>>
        BY <1>9 DEF Send, account
  <2> QED BY <1>9, <2>1, ClearStep DEF Send, IInv, Types
<1>10. CASE Elsewhere
      BY <1>10, ElsewhereStep
<1>12. ASSUME NEW v \in Providers, NEW k \in KeyStates, SetRecord(v, k) PROVE IInv'
      BY <1>12, SetRecordStep
<1>13. ASSUME NEW N \in SUBSET Providers, Restart(N) PROVE IInv'
  <2>1. record' \in [Providers -> KeyStates]
        BY <1>13 DEF Restart, IInv, Types, KeyStates
  <2> QED BY <1>13, <2>1, ClearStep DEF Restart
<1>14. CASE UNCHANGED vars
  <2>1. UNCHANGED <<nutch, others, kind, session, file, record>>
        BY <1>14 DEF vars, account, others
  <2>2. Lasting /\ RowTypes' /\ record' \in [Providers -> KeyStates]
        BY <2>1 DEF Lasting, RowTypes, IInv, Types
  <2> QED BY <2>1, <2>2, BesideStep
<1> HIDE DEF IInv
<1> QED BY <1>1, <1>2, <1>3, <1>4, <1>5, <1>6, <1>7, <1>8, <1>9, <1>10,
           <1>12, <1>13, <1>14 DEF Next

\* The inductive invariant: the rows a request works on were in use when it
\* took them up and stay so or end deleted, what it has stored follows the
\* order of the code, and its answer is one the code gives there.
THEOREM Invariance == Spec => []IInv
BY Initial, Inductive, PTL DEF Spec

\* Every variable has its type, and an answer exists exactly when the request
\* is over.
THEOREM TypeCorrect == Spec => []TypeOK
<1>1. IInv => TypeOK
      BY DEF IInv, TypeOK, RowsInv, WroteInv
<1> QED BY <1>1, Invariance, PTL

\* A status names the one who can do something about it, and what it says
\* still holds when it is sent, whatever other requests, a conversion or a
\* restart did since the check that failed.
THEOREM BlameStaysRight == Spec => []BlameIsRight
<1>1. IInv => BlameIsRight
      BY DEF IInv
<1> QED BY <1>1, Invariance, PTL

\* A malformed request is a 400 whatever keys are configured, and only a
\* malformed one is refused for its form.
THEOREM FormDecides == Spec => []MalformedIs400
<1>1. IInv => MalformedIs400
      BY DEF IInv
<1> QED BY <1>1, Invariance, PTL

\* No answer leaves an empty conversation behind, and none that succeeded
\* lacks its prompt or its reply.
THEOREM ConversationsHavePrompts == Spec => []NoEmptySession
<1>1. IInv => NoEmptySession
      BY DEF IInv
<1> QED BY <1>1, Invariance, PTL

(* The model list tells what a prompt sent at that moment would do, and of *)
(* a record that does not decrypt, of which it is wrong, what that is: the *)
(* Nutch key, or a refusal where there is none.                            *)
THEOREM ListIsTrue == Spec => ListTellsTheTruth
<1> DEFINE Told ==
        Decided =>
          LET listed == Listed(request.model)
              stale == record[Provider(request.model)] = "stale"
          IN  /\ pc' # "answered" =>
                    /\ listed.available /\ ~ listed.locked
                    /\ keySource' = IF stale THEN "nutch" ELSE listed.source
              /\ pc' = "answered" =>
                    /\ answer'.status = IF listed.locked THEN 403 ELSE 503
                    /\ listed.available => listed.locked
                                        \/ (stale /\ Provider(request.model) \notin nutch)
<1>1. IInv /\ [Next]_vars => [Told]_vars
  <2> SUFFICES ASSUME IInv, Next, Decided PROVE Told
      OBVIOUS
  <2>1. Types /\ RowsInv /\ Provider(request.model) \in Providers
    <3>1. Types /\ RowsInv /\ request.model \in Models
          BY DEF IInv, Decided, RowsInv, Malformed, Types, Requests
    <3> QED BY <3>1 DEF Providers
  <2>2. pc \in {"kind", "key"} /\ pc' \in {"session", "limit", "answered"} /\ ~ fault'
        BY DEF Decided
  <2>3. ReadKind \/ DecryptKey
        BY <2>2 DEF Next, Receive, FindSession, CheckLimit, InsertSession, RecordPrompt,
           RecordReply, CallSucceeds, CallFails, NextBlock, InsertFile, Offload, Finish,
           Unreachable, Send, Elsewhere, SetRecord,
           Restart, Clear, Goto, others
  <2> DEFINE v == Provider(request.model)
             l == Listed(request.model)
  <2>4. /\ l.source = IF ~ isAnonymous /\ record[v] # "none" THEN "user" ELSE "nutch"
        /\ l.available <=> (~ isAnonymous /\ record[v] # "none") \/ v \in nutch
        /\ l.locked <=> isAnonymous /\ request.model # DEFAULT_MODEL_ID
        BY DEF Listed
  <2>5. CASE ReadKind
        BY <2>2, <2>4, <2>5, Resolved DEF ReadKind, UseKey, Throw, Goto
  <2>6. CASE DecryptKey
    <3>1. ~ isAnonymous /\ record[v] \in KeyStates
          BY <2>1, <2>6 DEF DecryptKey, RowsInv, isAnonymous, Types
    <3> QED BY <2>2, <2>4, <2>6, <3>1, Resolved
            DEF DecryptKey, UseKey, Throw, Goto, KeyStates
  <2> QED BY <2>3, <2>5, <2>6
<1>2. Spec => [][Told]_vars
      BY <1>1, Invariance, PTL DEF Spec
<1> QED BY <1>2 DEF ListTellsTheTruth

(* With the rest of its account's doings the request makes an AccountLife: *)
(* what it does to rows itself is no more than others are assumed to do.   *)
THEOREM RequestIsOfALife == Spec => Life!Spec
<1>1. Init => Life!Init
      BY DEF Init, Life!Init, Life!Open
<1>2. IInv /\ [Next]_vars => [Life!Next]_(Life!vars)
  <2> SUFFICES ASSUME IInv, Next, ~ UNCHANGED Life!vars PROVE Life!Next
      BY DEF vars, account, Life!vars
  <2>1. ASSUME NEW s \in Sessions, InsertSession(s) PROVE Life!CreateSession(s)
        BY <2>1 DEF InsertSession, Life!CreateSession, Life!Open, Life!vars, IInv, Types
  <2>2. ASSUME NEW f \in Files, InsertFile(f) PROVE Life!CreateFile(f)
        BY <2>2 DEF InsertFile, Life!CreateFile, Life!Open, Life!vars, IInv, Types
  <2>3. CASE Elsewhere
        BY <2>3 DEF Elsewhere, Life!Next
  <2>4. CASE \/ \E r \in Requests : Receive(r)
             \/ ReadKind \/ DecryptKey \/ FindSession \/ CheckLimit
             \/ RecordPrompt \/ CallSucceeds \/ RecordReply
             \/ \E failure \in DOMAIN ProviderStatus : CallFails(failure)
             \/ NextBlock \/ Offload \/ Finish \/ Unreachable \/ Send
             \/ \E v \in Providers, k \in KeyStates : SetRecord(v, k)
             \/ \E N \in SUBSET Providers : Restart(N)
        BY <2>4 DEF Receive, ReadKind, DecryptKey, FindSession, CheckLimit, RecordPrompt,
           RecordReply, AddMessage, CallSucceeds, CallFails, NextBlock, Offload, Finish,
           Unreachable, Send, SetRecord, Restart, account, Life!vars
  <2> QED BY <2>1, <2>2, <2>3, <2>4 DEF Next, Life!Next
<1> QED BY <1>1, <1>2, Invariance, PTL DEF Spec, Life!Spec
=============================================================================
