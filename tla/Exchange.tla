------------------------------- MODULE Exchange -------------------------------
(***************************************************************************)
(* One prompt and its answer: what is written to the chat session, what    *)
(* the client is sent, and in which order, when the answer comes in one    *)
(* piece (POST /ai/prompt) or as server-sent events (POST                  *)
(* /ai/prompt/stream).  Requests share sessions, sessions are deleted      *)
(* under them, providers break off and the process dies.                   *)
(*                                                                         *)
(* Left out: whose session it is (Workspace), how a file's body is stored  *)
(* (FileStore), texts.  A reply's text is its number of deltas.            *)
(***************************************************************************)
EXTENDS Naturals, Sequences, FiniteSets

CONSTANTS
    Requests, Streams,       \* all prompts, and those sent to /prompt/stream
    Sessions,
    MaxDeltas, MaxBlocks,    \* bounds: deltas and code blocks of an answer
    MaxFiles,                \* files the account may own
    None                     \* a request that has no session yet

ASSUME ExchangeAssumption ==
    /\ Streams \subseteq Requests /\ None \notin Sessions
    /\ MaxDeltas \in Nat /\ MaxBlocks \in Nat /\ MaxFiles \in Nat

VARIABLES
    session,   \* session[s]: "none", "open" or "deleted"
    history,   \* history[s]: its messages in the order of their timestamps
    pc,        \* the await a request is at
    target,    \* the session it resolved
    deltas,    \* text assembled so far
    outcome,   \* how the provider's stream ended: "done" or "error"
    blocks,    \* code blocks worth a file in an answer of one piece
    file,      \* file[r][i]: the row made for a block, see FileStates
    block,     \* the block that saveArtifacts is at
    listed,    \* the blocks whose file the response will name
    limited,   \* storage_limit_reached of the response
    sent       \* events (or the single response) written to the client

conversation == <<session, history, target, deltas, outcome>>
artifacts == <<blocks, file, block, listed, limited>>
vars == <<conversation, pc, artifacts, sent>>

FileStates == {"none", "stored", "deleted"}
Pcs == {"new", "ask", "generate", "reply", "artifacts", "create", "push",
        "respond", "next", "finally", "ended", "died"}
Saving == {"artifacts", "create", "push", "respond"}
Over == {"ended", "died"}

Init ==
    /\ session = [s \in Sessions |-> "none"]
    /\ history = [s \in Sessions |-> <<>>]
    /\ pc = [r \in Requests |-> "new"]
    /\ target = [r \in Requests |-> None]
    /\ deltas = [r \in Requests |-> 0]
    /\ outcome = [r \in Requests |-> "none"]
    /\ blocks = [r \in Requests |-> 0]
    /\ file = [r \in Requests |-> [i \in 1..MaxBlocks |-> "none"]]
    /\ block = [r \in Requests |-> 1]
    /\ listed = [r \in Requests |-> {}]
    /\ limited = [r \in Requests |-> FALSE]
    /\ sent = [r \in Requests |-> <<>>]

Goto(r, l) == pc' = [pc EXCEPT ![r] = l]
Send(r, event) == sent' = [sent EXCEPT ![r] = Append(@, event)]
Finish(r, event) == Send(r, event) /\ Goto(r, "ended")

\* message.create: the foreign key wants the session.
AddMessage(r, role, length) ==
    /\ session[target[r]] = "open"
    /\ history' = [history EXCEPT ![target[r]] =
                      Append(@, [role |-> role, by |-> r, length |-> length])]
    /\ UNCHANGED session

-----------------------------------------------------------------------------
(* resolve and resolveSession, the same for both routes.                   *)

\* A bad request, a missing key or session, the session limit: a status from
\* one route, an error event from the other, whose headers are out already.
Refuse(r) ==
    /\ pc[r] = "new"
    /\ Finish(r, "error")
    /\ UNCHANGED <<conversation, artifacts>>

ResolveSession(r, s) ==
    /\ pc[r] = "new"
    /\ session[s] # "deleted"
    /\ session' = [session EXCEPT ![s] = "open"]
    /\ target' = [target EXCEPT ![r] = s]
    /\ Goto(r, "ask")
    /\ UNCHANGED <<history, deltas, outcome, artifacts, sent>>

\* Mutant: the session event is sent without awaiting the insert.
AnnounceSession(r) ==
    /\ pc[r] = "ask"
    /\ IF r \in Streams THEN Send(r, "session") /\ Goto(r, "next")
                        ELSE Goto(r, "generate") /\ UNCHANGED sent
    /\ UNCHANGED <<conversation, artifacts>>

RecordUserMessage(r) ==
    /\ pc[r] = "ask"
    /\ AddMessage(r, "user", 0)
    /\ IF r \in Streams THEN Send(r, "session") /\ Goto(r, "next")
                        ELSE Goto(r, "generate") /\ UNCHANGED sent
    /\ UNCHANGED <<target, deltas, outcome, artifacts>>

-----------------------------------------------------------------------------
(* processPrompt.                                                          *)

Generate(r, n) ==
    /\ pc[r] = "generate"
    /\ deltas' = [deltas EXCEPT ![r] = 1]
    /\ blocks' = [blocks EXCEPT ![r] = n]
    /\ Goto(r, "reply")
    /\ UNCHANGED <<session, history, target, outcome, file, block, listed, limited, sent>>

RecordReply(r) ==
    /\ pc[r] = "reply"
    /\ AddMessage(r, "assistant", deltas[r])
    /\ Goto(r, "artifacts")
    /\ UNCHANGED <<target, deltas, outcome, artifacts, sent>>

-----------------------------------------------------------------------------
(* saveArtifacts: one createFile per block, and the loop is left at the    *)
(* first that meets the limit.                                             *)

\* The files of the account, when beside those of these prompts it has n
\* others, which come and go at any time.
Files(n) ==
    n + Cardinality({b \in Requests \X (1..MaxBlocks) : file[b[1]][b[2]] = "stored"})

MoreBlocks(r) == pc[r] = "artifacts" /\ block[r] <= blocks[r]

\* Mutant: the loop runs once past the last block.
CheckLimitOnceMore(r, n) ==
    /\ pc[r] = "artifacts" /\ block[r] <= blocks[r] + 1
    /\ IF Files(n) < MaxFiles
       THEN Goto(r, "create") /\ UNCHANGED limited
       ELSE Goto(r, "respond") /\ limited' = [limited EXCEPT ![r] = TRUE]
    /\ UNCHANGED <<conversation, blocks, file, block, listed, sent>>

\* Mutant: the loop goes on, and the flag tells of the last block only.
CheckLimitOfEach(r, n) ==
    /\ MoreBlocks(r)
    /\ limited' = [limited EXCEPT ![r] = Files(n) >= MaxFiles]
    /\ IF Files(n) < MaxFiles
       THEN Goto(r, "create") /\ UNCHANGED block
       ELSE block' = [block EXCEPT ![r] = @ + 1] /\ UNCHANGED pc
    /\ UNCHANGED <<conversation, blocks, file, listed, sent>>

\* assertCanCreate: the count, or LimitExceededException and the break.
CheckLimit(r, n) ==
    /\ MoreBlocks(r)
    /\ IF Files(n) < MaxFiles
       THEN Goto(r, "create") /\ UNCHANGED limited
       ELSE Goto(r, "respond") /\ limited' = [limited EXCEPT ![r] = TRUE]
    /\ UNCHANGED <<conversation, blocks, file, block, listed, sent>>

\* The insert, by when others may have taken the place.
CreateRow(r) ==
    /\ pc[r] = "create"
    /\ file' = [file EXCEPT ![r][block[r]] = "stored"]
    /\ Goto(r, "push")
    /\ UNCHANGED <<conversation, blocks, block, listed, limited, sent>>

\* createFile has returned: the body is stored and the database has answered.
PushFile(r) ==
    /\ pc[r] = "push"
    /\ listed' = [listed EXCEPT ![r] = @ \cup {block[r]}]
    /\ block' = [block EXCEPT ![r] = @ + 1]
    /\ Goto(r, "artifacts")
    /\ UNCHANGED <<conversation, blocks, file, limited, sent>>

Answer(r) ==
    /\ pc[r] = "respond" \/ (pc[r] = "artifacts" /\ ~ MoreBlocks(r))
    /\ Finish(r, "answer")
    /\ UNCHANGED <<conversation, artifacts>>

-----------------------------------------------------------------------------
(* streamPrompt and the controller's loop over it.                         *)

\* Mutant: every delta is saved as it arrives, and the whole once more.
PersistedDelta(r) ==
    /\ pc[r] = "next" /\ deltas[r] < MaxDeltas
    /\ AddMessage(r, "assistant", deltas[r] + 1)
    /\ deltas' = [deltas EXCEPT ![r] = @ + 1]
    /\ Send(r, "delta")
    /\ UNCHANGED <<pc, target, outcome, artifacts>>

NextDelta(r) ==
    /\ pc[r] = "next" /\ deltas[r] < MaxDeltas
    /\ deltas' = [deltas EXCEPT ![r] = @ + 1]
    /\ Send(r, "delta")
    /\ UNCHANGED <<session, history, pc, target, outcome, artifacts>>

\* No code block of a stream becomes a file: nothing looks for them.
StreamEnds(r) ==
    /\ pc[r] = "next"
    /\ outcome' = [outcome EXCEPT ![r] = "done"]
    /\ Goto(r, "finally")
    /\ UNCHANGED <<session, history, target, deltas, artifacts, sent>>

StreamBreaks(r) ==
    /\ pc[r] = "next"
    /\ outcome' = [outcome EXCEPT ![r] = "error"]
    /\ Goto(r, "finally")
    /\ UNCHANGED <<session, history, target, deltas, artifacts, sent>>

\* Mutant: done is sent first and the reply saved behind it.
DoneBeforePersist(r) ==
    /\ pc[r] = "finally" /\ deltas[r] > 0
    /\ Send(r, outcome[r])
    /\ Goto(r, "reply")
    /\ UNCHANGED <<conversation, artifacts>>

\* The reply, whole or cut off, then done or error.
Persist(r) ==
    /\ pc[r] = "finally" /\ deltas[r] > 0
    /\ AddMessage(r, "assistant", deltas[r])
    /\ Finish(r, outcome[r])
    /\ UNCHANGED <<target, deltas, outcome, artifacts>>

NothingToPersist(r) ==
    /\ pc[r] = "finally" /\ deltas[r] = 0
    /\ Finish(r, outcome[r])
    /\ UNCHANGED <<conversation, artifacts>>

-----------------------------------------------------------------------------
\* An await that rejects: the insert of a message (no session, no database),
\* the provider's answer, a file's count, insert or upload, which fails the
\* request with the files it has stored.  An insert that fails in the finally
\* block replaces the outcome of the stream.
Awaits(r) ==
    \/ pc[r] \in {"ask", "generate", "reply", "create", "push"}
    \/ MoreBlocks(r)
    \/ pc[r] = "finally" /\ deltas[r] > 0

\* Mutant: a rejection while a reply is saved is caught by nobody.
RejectBeforeReply(r) ==
    /\ pc[r] \in {"ask", "generate"} \cup Saving /\ Awaits(r)
    /\ Finish(r, "error")
    /\ UNCHANGED <<conversation, artifacts>>

Reject(r) ==
    /\ Awaits(r)
    /\ Finish(r, "error")
    /\ UNCHANGED <<conversation, artifacts>>

\* DELETE /chat/sessions/:id; its messages go by the cascade.
DeleteSession(s) ==
    /\ session[s] = "open"
    /\ session' = [session EXCEPT ![s] = "deleted"]
    /\ history' = [history EXCEPT ![s] = <<>>]
    /\ UNCHANGED <<pc, target, deltas, outcome, artifacts, sent>>

\* DELETE /files/:id, which gives the account its place back.
DeleteFile(r, i) ==
    /\ file[r][i] = "stored"
    /\ file' = [file EXCEPT ![r][i] = "deleted"]
    /\ UNCHANGED <<conversation, pc, blocks, block, listed, limited, sent>>

\* The process dies with the text it has assembled.
Restart ==
    /\ pc' = [r \in Requests |-> IF pc[r] \in Over \cup {"new"} THEN pc[r] ELSE "died"]
    /\ UNCHANGED <<conversation, artifacts, sent>>

Work(r) ==
    \/ RecordUserMessage(r)
    \/ (\E n \in 0..MaxBlocks : Generate(r, n)) \/ RecordReply(r)
    \/ (\E n \in 0..MaxFiles : CheckLimit(r, n)) \/ CreateRow(r) \/ PushFile(r) \/ Answer(r)
    \/ NextDelta(r) \/ StreamEnds(r) \/ StreamBreaks(r)
    \/ Persist(r) \/ NothingToPersist(r)
    \/ Reject(r)

Next ==
    \/ \E r \in Requests :
          Refuse(r) \/ (\E s \in Sessions : ResolveSession(r, s)) \/ Work(r)
    \/ \E s \in Sessions : DeleteSession(s)
    \/ \E r \in Requests, i \in 1..MaxBlocks : DeleteFile(r, i)
    \/ Restart

Spec == Init /\ [][Next]_vars

\* Every await settles, with an answer or an error, and the event loop runs
\* its continuation.  Nothing in src/ sets a timeout: that none waits for ever
\* rests on the clients of the database, of S3 and of the providers.
FairSpec == Spec /\ \A r \in Requests : WF_vars(Work(r))

-----------------------------------------------------------------------------
Final == {"done", "error", "answer"}
Events == {"session", "delta", "done", "error", "answer"}
Message == [role : {"user", "assistant"}, by : Requests, length : 0..MaxDeltas + 1]

TypeOK ==
    /\ session \in [Sessions -> {"none", "open", "deleted"}]
    /\ history \in [Sessions -> Seq(Message)]
    /\ pc \in [Requests -> Pcs]
    /\ target \in [Requests -> Sessions \cup {None}]
    /\ deltas \in [Requests -> 0..MaxDeltas + 1]
    /\ outcome \in [Requests -> {"none", "done", "error"}]
    /\ blocks \in [Requests -> 0..MaxBlocks]
    /\ file \in [Requests -> [1..MaxBlocks -> FileStates]]
    /\ block \in [Requests -> 1..MaxBlocks + 1]
    /\ listed \in [Requests -> SUBSET (1..MaxBlocks)]
    /\ limited \in [Requests -> BOOLEAN]
    /\ sent \in [Requests -> Seq(Events)]

\* Where r's messages of a role stand in the history of s.
At(s, r, role) ==
    {i \in DOMAIN history[s] : history[s][i].by = r /\ history[s][i].role = role}

Deltas(r) == Cardinality({i \in DOMAIN sent[r] : sent[r][i] = "delta"})

WasSent(r, events) == \E i \in DOMAIN sent[r] : sent[r][i] \in events

(* However requests interleave on a session, each of them has one prompt   *)
(* in it, at most one reply, behind the prompt, and none elsewhere; the    *)
(* reply of a stream is exactly as long as what the client was sent.       *)
HistoryInOrder ==
    \A s \in Sessions, r \in Requests :
        /\ \A role \in {"user", "assistant"} : \A i, j \in At(s, r, role) : i = j
        /\ At(s, r, "user") # {} => s = target[r]
        /\ \A i \in At(s, r, "assistant") :
              /\ \E j \in At(s, r, "user") : j < i
              /\ r \in Streams => history[s][i].length = Deltas(r)

(* A client told that the answer is complete finds it in the session, and  *)
(* one told which session it is in finds its prompt there, unless the      *)
(* session is deleted.                                                     *)
AnnouncedIsStored ==
    \A r \in Requests : target[r] # None /\ session[target[r]] = "open" =>
        /\ WasSent(r, {"session"}) => At(target[r], r, "user") # {}
        /\ WasSent(r, {"answer", "done"}) /\ deltas[r] > 0 =>
              At(target[r], r, "assistant") # {}

\* What a request may have been sent so far.
EventsOf(r) ==
    LET e == sent[r] IN
    /\ \A i \in DOMAIN e :
          /\ i = 1 <=> e[i] \in {"session", "answer"} \/ (e[i] = "error" /\ Len(e) = 1)
          /\ e[i] \in Final => i = Len(e)
          /\ e[i] = "answer" <=> r \notin Streams /\ e[i] # "error"
    /\ pc[r] = "ended" <=> WasSent(r, Final)

(* The controller's protocol: "session", then a "delta" per chunk, then    *)
(* "done", or an "error" instead at any point; one final event and nothing *)
(* behind it.  The other route sends its one response.                     *)
EventOrder == \A r \in Requests : EventsOf(r)

\* The blocks of a reply that got a file, be it deleted since.
Filed(r) == {i \in 1..blocks[r] : file[r][i] # "none"}

(* The answer to a prompt tells of the files stored for it and of no other,*)
(* and sets storage_limit_reached exactly when a block got none: also when *)
(* other prompts take and deletions free the last places while its blocks  *)
(* are stored one after the other.                                         *)
FlagTellsMissingFiles ==
    \A r \in Requests : sent[r] = <<"answer">> =>
        /\ listed[r] = Filed(r)
        /\ limited[r] <=> Filed(r) # 1..blocks[r]

(* A request that has begun is answered, with an error at the latest,      *)
(* unless the process dies.                                                *)
EveryRequestEnds ==
    \A r \in Requests : pc[r] # "new" ~> pc[r] \in Over

-----------------------------------------------------------------------------
(* The inductive invariant of ExchangeProofs.                              *)

\* What a stream has been sent before its final event.
Announced(r) ==
    /\ r \in Streams /\ Len(sent[r]) = deltas[r] + 1
    /\ \A i \in DOMAIN sent[r] :
          sent[r][i] = IF i = 1 THEN "session" ELSE "delta"

\* What a request has been sent when it is over.
Answered(r) ==
    \/ sent[r] = <<"error">> /\ (r \in Streams => deltas[r] = 0)
    \/ sent[r] = <<"answer">> /\ r \notin Streams
    \/ /\ r \in Streams /\ Len(sent[r]) = deltas[r] + 2
       /\ \A i \in DOMAIN sent[r] :
             IF i = 1 THEN sent[r][i] = "session"
             ELSE IF i = Len(sent[r]) THEN sent[r][i] \in {"done", "error"}
             ELSE sent[r][i] = "delta"

\* How far a request is, what it has assembled and what it has sent.
ProgressOf(r) ==
    /\ pc[r] \in {"new", "ask", "generate"} => deltas[r] = 0
    /\ pc[r] \in {"generate", "reply"} \cup Saving => r \notin Streams
    /\ pc[r] \in {"reply"} \cup Saving => deltas[r] = 1
    /\ pc[r] \in {"new", "ask", "generate", "reply"} \cup Saving => sent[r] = <<>>
    /\ pc[r] \in {"next", "finally"} => Announced(r)
    /\ pc[r] = "finally" => outcome[r] \in {"done", "error"}
    /\ pc[r] = "died" => sent[r] = <<>> \/ Announced(r)
    /\ pc[r] = "ended" => Answered(r)

\* The session it runs in, which is not forgotten while it does.
TargetOf(r) ==
    /\ pc[r] = "new" => target[r] = None
    /\ target[r] = None => pc[r] \in {"new", "ended"}
    /\ target[r] # None => session[target[r]] # "none"

\* Blocks are filed in order until one is refused.
FlagOf(r) ==
    /\ block[r] <= blocks[r] + 1
    /\ pc[r] \in {"create", "push", "respond"} => block[r] <= blocks[r]
    /\ pc[r] \notin Saving \cup Over =>
          /\ block[r] = 1 /\ listed[r] = {} /\ ~ limited[r]
          /\ \A i \in 1..MaxBlocks : file[r][i] = "none"
    /\ pc[r] \in Saving =>
          /\ listed[r] = 1..(block[r] - 1)
          /\ \A i \in 1..blocks[r] : file[r][i] # "none" <=>
                i < block[r] \/ (i = block[r] /\ pc[r] = "push")
          /\ limited[r] <=> pc[r] = "respond"
    /\ sent[r] = <<"answer">> =>
          listed[r] = Filed(r) /\ (limited[r] <=> Filed(r) # 1..blocks[r])

\* What a session holds of a request.
StoredOf(s, r) ==
    LET user == At(s, r, "user")
        assistant == At(s, r, "assistant")
    IN  /\ \A i, j \in user : i = j
        /\ \A i, j \in assistant : i = j
        /\ user # {} => s = target[r] /\ pc[r] \notin {"new", "ask"}
        /\ \A i \in assistant :
              /\ \E j \in user : j < i
              /\ history[s][i].length = deltas[r]
              /\ pc[r] = "ended" \/ (r \notin Streams /\ pc[r] \in Saving \cup {"died"})
        /\ s = target[r] /\ session[s] = "open" =>
              /\ pc[r] \in {"generate", "reply", "next", "finally"} \cup Saving
                 \/ WasSent(r, {"session"}) => user # {}
              /\ pc[r] \in Saving
                 \/ (WasSent(r, {"answer", "done"}) /\ deltas[r] > 0) => assistant # {}

IInv ==
    /\ TypeOK
    /\ \A r \in Requests : ProgressOf(r) /\ TargetOf(r) /\ FlagOf(r)
    /\ \A s \in Sessions, r \in Requests : StoredOf(s, r)
=============================================================================
