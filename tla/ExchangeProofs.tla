---------------------------- MODULE ExchangeProofs ----------------------------
(* Theorems about Exchange for every number of requests and sessions and   *)
(* every length of an answer.  Liveness stays with TLC.                    *)
EXTENDS Exchange, FiniteSetTheorems, TLAPS

LEMMA AppendTypes ==
    ASSUME NEW S, NEW q \in Seq(S), NEW e \in S
    PROVE  /\ Append(q, e) \in Seq(S) /\ Len(Append(q, e)) = Len(q) + 1
           /\ DOMAIN Append(q, e) = 1..(Len(q) + 1) /\ DOMAIN q = 1..Len(q)
           /\ Len(q) \in Nat
           /\ \A i \in 1..Len(q) : Append(q, e)[i] = q[i]
           /\ Append(q, e)[Len(q) + 1] = e
OBVIOUS

(* A message goes to the end of one session, which is open.                *)
LEMMA AddTypes ==
    ASSUME TypeOK, NEW r \in Requests, NEW role \in {"user", "assistant"},
           NEW n \in 0..MaxDeltas + 1, AddMessage(r, role, n), target[r] # None
    PROVE  history' \in [Sessions -> Seq(Message)] /\ session' = session
<1> DEFINE m == [role |-> role, by |-> r, length |-> n]
<1> PICK s \in Sessions : s = target[r]
    BY DEF TypeOK
<1>1. m \in Message
      BY DEF Message
<1>2. history' = [history EXCEPT ![s] = Append(history[s], m)]
      BY DEF AddMessage
<1> HIDE DEF m
<1>3. Append(history[s], m) \in Seq(Message)
      BY <1>1, AppendTypes DEF TypeOK
<1> QED BY <1>2, <1>3 DEF TypeOK, AddMessage

LEMMA SendTypes ==
    ASSUME TypeOK, NEW r \in Requests, NEW e \in Events, Send(r, e)
    PROVE  sent' \in [Requests -> Seq(Events)]
<1>1. \A q \in Requests : Append(sent[q], e) \in Seq(Events)
      BY AppendTypes DEF TypeOK
<1> QED BY <1>1 DEF TypeOK, Send

LEMMA HasTarget ==
    ASSUME NEW r, TargetOf(r), pc[r] \notin {"new", "ended"}
    PROVE  target[r] # None
BY DEF TargetOf

LEMMA TypeStep == IInv /\ [Next]_vars => TypeOK'
<1> SUFFICES ASSUME IInv, [Next]_vars PROVE TypeOK'
    OBVIOUS
<1> TypeOK /\ \A r \in Requests : ProgressOf(r) /\ TargetOf(r)
    BY DEF IInv
<1> USE ExchangeAssumption DEF TypeOK, Pcs, Goto, conversation, artifacts
<1>1. ASSUME NEW r \in Requests, Refuse(r) PROVE TypeOK'
  <2>1. sent' \in [Requests -> Seq(Events)]
        BY <1>1, SendTypes DEF Refuse, Finish, Events
  <2> QED BY <1>1, <2>1 DEF Refuse, Finish
<1>2. ASSUME NEW r \in Requests, NEW s \in Sessions, ResolveSession(r, s)
      PROVE  TypeOK'
      BY <1>2 DEF ResolveSession
<1>3. ASSUME NEW r \in Requests, RecordUserMessage(r) PROVE TypeOK'
  <2>1. history' \in [Sessions -> Seq(Message)] /\ session' = session
    <3>1. AddMessage(r, "user", 0) /\ target[r] # None
          BY <1>3, HasTarget DEF RecordUserMessage
    <3>2. 0 \in 0..MaxDeltas + 1
          OBVIOUS
    <3> HIDE DEF TypeOK
    <3> QED BY <3>1, <3>2, AddTypes
  <2>2. sent' \in [Requests -> Seq(Events)]
        BY <1>3, SendTypes DEF RecordUserMessage, Events
  <2>3. pc' \in [Requests -> Pcs]
    <3>1. CASE pc' = [pc EXCEPT ![r] = "next"]
          BY <3>1
    <3>2. CASE pc' = [pc EXCEPT ![r] = "generate"]
          BY <3>2
    <3> HIDE DEF TypeOK, Pcs
    <3> QED BY <1>3, <3>1, <3>2 DEF RecordUserMessage
  <2> QED BY <1>3, <2>1, <2>2, <2>3 DEF RecordUserMessage
<1>4. ASSUME NEW r \in Requests, NEW n \in 0..MaxBlocks, Generate(r, n) PROVE TypeOK'
      BY <1>4 DEF Generate
<1>5. ASSUME NEW r \in Requests, RecordReply(r) PROVE TypeOK'
  <2>1. history' \in [Sessions -> Seq(Message)] /\ session' = session
        BY <1>5, AddTypes, HasTarget DEF RecordReply
  <2>2. pc' \in [Requests -> Pcs]
        BY <1>5 DEF RecordReply
  <2> QED BY <1>5, <2>1, <2>2 DEF RecordReply
<1>6. ASSUME NEW r \in Requests,
             (\E n \in 0..MaxFiles : CheckLimit(r, n)) \/ CreateRow(r) \/ PushFile(r)
      PROVE  TypeOK'
  <2>1. FlagOf(r)
        BY DEF IInv
  <2>2. ASSUME NEW n \in 0..MaxFiles, CheckLimit(r, n) PROVE TypeOK'
        BY <2>2 DEF CheckLimit
  <2>3. CASE CreateRow(r)
    <3>1. file' \in [Requests -> [1..MaxBlocks -> FileStates]]
          BY <2>3 DEF CreateRow, FileStates
    <3> QED BY <2>3, <3>1 DEF CreateRow
  <2>4. CASE PushFile(r)
    <3>1. block[r] \in 1..MaxBlocks
          BY <2>1, <2>4 DEF PushFile, FlagOf
    <3> QED BY <2>4, <3>1 DEF PushFile
  <2> QED BY <1>6, <2>2, <2>3, <2>4
<1>7. ASSUME NEW r \in Requests, Answer(r) PROVE TypeOK'
  <2>1. sent' \in [Requests -> Seq(Events)]
        BY <1>7, SendTypes DEF Answer, Finish, Events
  <2> QED BY <1>7, <2>1 DEF Answer, Finish
<1>8. ASSUME NEW r \in Requests, NextDelta(r) PROVE TypeOK'
  <2>1. sent' \in [Requests -> Seq(Events)]
        BY <1>8, SendTypes DEF NextDelta, Events
  <2>2. deltas' \in [Requests -> 0..MaxDeltas + 1]
        BY <1>8 DEF NextDelta
  <2> QED BY <1>8, <2>1, <2>2 DEF NextDelta
<1>9. ASSUME NEW r \in Requests, StreamEnds(r) \/ StreamBreaks(r) PROVE TypeOK'
      BY <1>9 DEF StreamEnds, StreamBreaks
<1>10. ASSUME NEW r \in Requests, Persist(r) PROVE TypeOK'
  <2>1. history' \in [Sessions -> Seq(Message)] /\ session' = session
        BY <1>10, AddTypes, HasTarget DEF Persist
  <2>2. sent' \in [Requests -> Seq(Events)]
        BY <1>10, SendTypes DEF Persist, Finish, Events, ProgressOf
  <2> QED BY <1>10, <2>1, <2>2 DEF Persist, Finish
<1>11. ASSUME NEW r \in Requests, NothingToPersist(r) \/ Reject(r) PROVE TypeOK'
  <2>1. PICK e \in {"done", "error"} : Finish(r, e)
        BY <1>11 DEF NothingToPersist, Reject, ProgressOf
  <2>2. sent' \in [Requests -> Seq(Events)]
        BY <2>1, SendTypes DEF Finish, Events
  <2>3. pc' \in [Requests -> Pcs]
        BY <2>1 DEF Finish
  <2>4. UNCHANGED <<conversation, artifacts>>
        BY <1>11 DEF NothingToPersist, Reject
  <2> QED BY <2>2, <2>3, <2>4
<1>12. ASSUME NEW s \in Sessions, DeleteSession(s) PROVE TypeOK'
      BY <1>12 DEF DeleteSession
<1>13. CASE Restart
      BY <1>13 DEF Restart
<1>14. CASE UNCHANGED vars
      BY <1>14 DEF vars
<1>15. ASSUME NEW r \in Requests, NEW i \in 1..MaxBlocks, DeleteFile(r, i) PROVE TypeOK'
  <2>1. file' \in [Requests -> [1..MaxBlocks -> FileStates]]
        BY <1>15 DEF DeleteFile, FileStates
  <2> QED BY <1>15, <2>1 DEF DeleteFile
<1> HIDE DEF TypeOK
<1> QED
  BY <1>1, <1>2, <1>3, <1>4, <1>5, <1>6, <1>7, <1>8, <1>9, <1>10, <1>11, <1>12,
     <1>13, <1>14, <1>15 DEF Next, Work

-----------------------------------------------------------------------------
(* A request's step leaves the others where they are.                      *)
Same(q) ==
    /\ pc'[q] = pc[q] /\ target'[q] = target[q] /\ deltas'[q] = deltas[q]
    /\ outcome'[q] = outcome[q] /\ sent'[q] = sent[q]

SameFiles(q) ==
    /\ blocks'[q] = blocks[q] /\ file'[q] = file[q] /\ block'[q] = block[q]
    /\ listed'[q] = listed[q] /\ limited'[q] = limited[q]

Step(r) ==
    Refuse(r) \/ (\E s \in Sessions : ResolveSession(r, s)) \/ Work(r)

LEMMA Frame ==
    ASSUME TypeOK, NEW r \in Requests, NEW q \in Requests \ {r}, Step(r)
    PROVE  Same(q) /\ SameFiles(q)
<1> USE DEF TypeOK, Same, SameFiles, Goto, Send, Finish, conversation, artifacts
<1>1. CASE Refuse(r) \/ (\E s \in Sessions : ResolveSession(r, s))
      BY <1>1 DEF Refuse, ResolveSession
<1>2. CASE \/ RecordUserMessage(r) \/ RecordReply(r) \/ NextDelta(r)
           \/ \E n \in 0..MaxBlocks : Generate(r, n)
      BY <1>2 DEF RecordUserMessage, RecordReply, NextDelta, Generate
<1>3. CASE \/ CreateRow(r) \/ PushFile(r) \/ Answer(r)
           \/ \E n \in 0..MaxFiles : CheckLimit(r, n)
      BY <1>3 DEF CheckLimit, CreateRow, PushFile, Answer
<1>4. CASE StreamEnds(r) \/ StreamBreaks(r)
      BY <1>4 DEF StreamEnds, StreamBreaks
<1>5. CASE Persist(r) \/ NothingToPersist(r) \/ Reject(r)
      BY <1>5 DEF Persist, NothingToPersist, Reject
<1> QED BY <1>1, <1>2, <1>3, <1>4, <1>5 DEF Step, Work

\* No session is forgotten.
LEMMA SessionsLast ==
    ASSUME TypeOK, [Next]_vars, NEW s \in Sessions, session[s] # "none"
    PROVE  session'[s] # "none"
<1> USE DEF TypeOK
<1>1. ASSUME NEW r \in Requests, NEW u \in Sessions, ResolveSession(r, u)
      PROVE  session'[s] # "none"
      BY <1>1 DEF ResolveSession
<1>2. ASSUME NEW r \in Requests, Refuse(r) \/ Work(r) PROVE session' = session
      BY <1>2
      DEF Refuse, Work, RecordUserMessage, RecordReply, NextDelta, Generate,
          CheckLimit, CreateRow, PushFile, Answer, StreamEnds, StreamBreaks, Persist,
          NothingToPersist, Reject, AddMessage, conversation
<1>3. ASSUME NEW u \in Sessions, DeleteSession(u) PROVE session'[s] # "none"
      BY <1>3 DEF DeleteSession
<1>4. CASE Restart \/ UNCHANGED vars \/ \E r \in Requests, i \in 1..MaxBlocks : DeleteFile(r, i)
      BY <1>4 DEF Restart, vars, DeleteFile, conversation
<1> QED BY <1>1, <1>2, <1>3, <1>4 DEF Next

\* What Send does to the events of its request.
LEMMA SendSeq ==
    ASSUME TypeOK, NEW r \in Requests, NEW e \in Events, Send(r, e)
    PROVE  /\ sent'[r] = Append(sent[r], e)
           /\ Len(sent[r]) \in Nat /\ Len(sent'[r]) = Len(sent[r]) + 1
           /\ DOMAIN sent[r] = 1..Len(sent[r]) /\ DOMAIN sent'[r] = 1..(Len(sent[r]) + 1)
           /\ \A i \in 1..Len(sent[r]) : sent'[r][i] = sent[r][i]
           /\ sent'[r][Len(sent[r]) + 1] = e
<1>1. sent[r] \in Seq(Events) /\ sent'[r] = Append(sent[r], e)
      BY DEF TypeOK, Send
<1> QED BY <1>1, AppendTypes

LEMMA OneEvent ==
    ASSUME TypeOK, NEW r \in Requests, NEW e \in Events, Send(r, e), NEW f,
           sent'[r] = <<f>>
    PROVE  e = f /\ sent[r] = <<>>
<1>1. Len(sent'[r]) = 1 /\ sent'[r][1] = f
      OBVIOUS
<1>2. Len(sent[r]) = 0
      BY <1>1, SendSeq
<1>3. sent[r] \in Seq(Events)
      BY DEF TypeOK
<1>4. sent[r] = <<>>
      BY <1>2, <1>3
<1> QED BY <1>1, <1>2, <1>4, SendSeq

LEMMA NoEvent == \A e : <<>> # <<e>>
<1> SUFFICES ASSUME NEW e PROVE <<>> # <<e>>
    OBVIOUS
<1>1. Len(<<>>) = 0 /\ Len(<<e>>) = 1
      OBVIOUS
<1> QED BY <1>1

LEMMA NotAnnounced ==
    ASSUME TypeOK, NEW r \in Requests, Announced(r)
    PROVE  /\ sent[r][1] = "session" /\ 1 \in DOMAIN sent[r]
           /\ sent[r] # <<"answer">> /\ sent[r] # <<>>
<1>1. sent[r] \in Seq(Events) /\ deltas[r] \in Nat
      BY ExchangeAssumption DEF TypeOK
<1>2. 1 \in DOMAIN sent[r]
      BY <1>1 DEF Announced
<1> QED BY <1>2 DEF Announced

(* How far a request is, where it runs and what it is sent, step by step.  *)
LEMMA TargetStep ==
    ASSUME IInv, [Next]_vars, NEW q \in Requests
    PROVE  TargetOf(q)'
<1> TypeOK /\ TargetOf(q)
    BY DEF IInv
<1> USE ExchangeAssumption DEF TypeOK, TargetOf, Goto, conversation
<1>1. ASSUME target'[q] = target[q], pc[q] = "new" <=> pc'[q] = "new",
             pc[q] = "ended" => pc'[q] = "ended"
      PROVE  TargetOf(q)'
      BY <1>1, SessionsLast
<1>2. ASSUME NEW r \in Requests \ {q}, Step(r) PROVE TargetOf(q)'
  <2>1. Same(q)
        BY <1>2, Frame
  <2> QED BY <1>1, <2>1 DEF Same
<1>3. CASE Refuse(q)
      BY <1>3 DEF Refuse, Finish
<1>4. ASSUME NEW s \in Sessions, ResolveSession(q, s) PROVE TargetOf(q)'
      BY <1>4 DEF ResolveSession
<1>5. CASE Work(q)
  <2>1. target' = target /\ pc[q] \notin {"new", "ended"} /\ pc'[q] # "new"
        BY <1>5
        DEF Work, RecordUserMessage, RecordReply, NextDelta, Generate, CheckLimit,
            CreateRow, PushFile, Answer, StreamEnds, StreamBreaks, Persist,
            NothingToPersist, Reject, Awaits, MoreBlocks, Finish
  <2> QED BY <1>1, <2>1
<1>6. ASSUME NEW s \in Sessions, DeleteSession(s) PROVE TargetOf(q)'
      BY <1>1, <1>6 DEF DeleteSession
<1>7. CASE Restart
  <2>1. target' = target /\ (pc[q] = "new" <=> pc'[q] = "new")
        /\ (pc[q] = "ended" => pc'[q] = "ended")
        BY <1>7 DEF Restart, Over
  <2> QED BY <1>1, <2>1
<1>8. CASE UNCHANGED vars
      BY <1>1, <1>8 DEF vars
<1>9. ASSUME NEW r \in Requests, NEW i \in 1..MaxBlocks, DeleteFile(r, i)
      PROVE  TargetOf(q)'
      BY <1>1, <1>9 DEF DeleteFile
<1> HIDE DEF TypeOK, TargetOf, Goto, conversation
<1> QED BY <1>2, <1>3, <1>4, <1>5, <1>6, <1>7, <1>8, <1>9 DEF Next, Step

\* The files of a reply, but for the question which of them is deleted.
LEMMA FlagFrame ==
    ASSUME NEW q, FlagOf(q), blocks'[q] = blocks[q], block'[q] = block[q],
           listed'[q] = listed[q], limited'[q] = limited[q],
           \A i \in 1..MaxBlocks : file'[q][i] = "none" <=> file[q][i] = "none",
           blocks[q] \in 0..MaxBlocks, MaxBlocks \in Nat,
           pc'[q] \notin Saving \cup Over => pc[q] \notin Saving \cup Over,
           pc'[q] \in Saving => pc'[q] = pc[q],
           sent'[q] = <<"answer">> => sent[q] = <<"answer">>
    PROVE  FlagOf(q)'
<1>1. \A i \in 1..blocks[q] : file'[q][i] = "none" <=> file[q][i] = "none"
      OBVIOUS
<1>2. Filed(q)' = Filed(q)
      BY <1>1 DEF Filed
<1> QED BY <1>1, <1>2 DEF FlagOf, Saving, Over

LEMMA FlagStep ==
    ASSUME IInv, [Next]_vars, NEW q \in Requests
    PROVE  FlagOf(q)'
<1> TypeOK /\ FlagOf(q) /\ ProgressOf(q)
    BY DEF IInv
<1> USE ExchangeAssumption DEF Goto
<1>0. /\ pc \in [Requests -> Pcs] /\ blocks \in [Requests -> 0..MaxBlocks]
      /\ blocks[q] \in 0..MaxBlocks /\ block \in [Requests -> 1..MaxBlocks + 1]
      /\ file \in [Requests -> [1..MaxBlocks -> FileStates]]
      /\ listed \in [Requests -> SUBSET (1..MaxBlocks)] /\ limited \in [Requests -> BOOLEAN]
      BY DEF TypeOK
<1>1. ASSUME NEW r \in Requests \ {q}, Step(r) PROVE FlagOf(q)'
  <2>1. Same(q) /\ SameFiles(q)
        BY <1>1, Frame
  <2> QED BY <1>0, <2>1, FlagFrame DEF Same, SameFiles
<1>2. ASSUME SameFiles(q), sent'[q] = <<"answer">> => sent[q] = <<"answer">>,
             \/ pc'[q] = pc[q]
             \/ pc'[q] \in Over
             \/ pc[q] \notin Saving \cup Over /\ pc'[q] \notin Saving
      PROVE  FlagOf(q)'
      BY <1>0, <1>2, FlagFrame DEF SameFiles, Saving, Over
<1>3. ASSUME NEW r \in Requests, NEW i \in 1..MaxBlocks, DeleteFile(r, i)
      PROVE  FlagOf(q)'
  <2>1. \A j \in 1..MaxBlocks : file'[q][j] = "none" <=> file[q][j] = "none"
        BY <1>0, <1>3 DEF DeleteFile
  <2> QED BY <1>0, <1>3, <2>1, FlagFrame DEF DeleteFile
<1>4. CASE Answer(q)
  <2>1. /\ pc[q] \in Saving /\ pc'[q] = "ended" /\ SameFiles(q)
        /\ pc[q] = "respond" \/ (pc[q] = "artifacts" /\ ~ (block[q] <= blocks[q]))
        BY <1>0, <1>4 DEF Answer, Finish, Saving, SameFiles, artifacts, MoreBlocks, Pcs
  <2>2. /\ listed[q] = Filed(q)
        /\ limited[q] <=> Filed(q) # 1..blocks[q]
    <3>1. /\ listed[q] = 1..(block[q] - 1) /\ (limited[q] <=> pc[q] = "respond")
          /\ \A i \in 1..blocks[q] : file[q][i] # "none" <=> i < block[q]
          /\ block[q] \in 1..blocks[q] + 1
          /\ pc[q] = "respond" => block[q] <= blocks[q]
          BY <1>0, <2>1 DEF FlagOf
    <3>2. Filed(q) = 1..(block[q] - 1)
          BY <1>0, <3>1 DEF Filed
    <3>3. 1..(block[q] - 1) # 1..blocks[q] <=> block[q] <= blocks[q]
      <4>0. block[q] \in Int /\ blocks[q] \in Int /\ 1 <= block[q] /\ block[q] <= blocks[q] + 1
            BY <1>0, <3>1
      <4>1. block[q] <= blocks[q] =>
               block[q] \in 1..blocks[q] /\ block[q] \notin 1..(block[q] - 1)
            BY <4>0
      <4>2. ~ (block[q] <= blocks[q]) => block[q] - 1 = blocks[q]
            BY <4>0
      <4> QED BY <4>1, <4>2
    <3> QED BY <2>1, <3>1, <3>2, <3>3
  <2>3. Filed(q)' = Filed(q)
        BY <2>1 DEF Filed, SameFiles
  <2> QED BY <1>0, <2>1, <2>2, <2>3 DEF FlagOf, SameFiles, Saving, Over
<1>5. CASE Refuse(q) \/ Persist(q) \/ NothingToPersist(q) \/ Reject(q)
  <2>1. PICK e \in {"error", "done"} : Finish(q, e)
        BY <1>5 DEF Refuse, Persist, NothingToPersist, Reject, ProgressOf
  <2>2. SameFiles(q)
        BY <1>5 DEF Refuse, Persist, NothingToPersist, Reject, SameFiles, artifacts
  <2>3. sent'[q] # <<"answer">>
        BY <2>1, OneEvent DEF Finish, Events
  <2>4. pc'[q] \in Over
        BY <1>0, <2>1 DEF Finish, Over
  <2> QED BY <1>2, <2>2, <2>3, <2>4
<1>6. ASSUME NEW s \in Sessions, ResolveSession(q, s) PROVE FlagOf(q)'
  <2>1. pc[q] = "new" /\ pc'[q] = "ask" /\ sent' = sent /\ SameFiles(q)
        BY <1>0, <1>6 DEF ResolveSession, SameFiles, artifacts
  <2> QED BY <1>2, <2>1 DEF Saving, Over
<1>7. CASE RecordUserMessage(q)
  <2>1. sent'[q] # <<"answer">>
    <3>1. CASE Send(q, "session")
          BY <3>1, OneEvent DEF Events
    <3>2. CASE sent' = sent /\ sent[q] = <<>>
          BY <3>2, NoEvent
    <3> QED BY <1>7, <3>1, <3>2 DEF RecordUserMessage, ProgressOf
  <2>2. pc[q] = "ask" /\ pc'[q] \in {"next", "generate"} /\ SameFiles(q)
        BY <1>0, <1>7 DEF RecordUserMessage, SameFiles, artifacts
  <2> QED BY <1>2, <2>1, <2>2 DEF Saving, Over
<1>8. CASE StreamEnds(q) \/ StreamBreaks(q)
  <2>1. sent' = sent /\ pc[q] = "next" /\ pc'[q] = "finally" /\ SameFiles(q)
        BY <1>0, <1>8 DEF StreamEnds, StreamBreaks, SameFiles, artifacts
  <2> QED BY <1>2, <2>1 DEF Saving, Over
<1>9. CASE RecordReply(q) \/ \E n \in 0..MaxBlocks : Generate(q, n)
  <2>1. sent' = sent /\ sent[q] # <<"answer">>
        BY <1>9, NoEvent DEF RecordReply, Generate, ProgressOf
  <2>2. /\ pc[q] \in {"generate", "reply"} /\ pc'[q] \in {"reply", "artifacts"}
        /\ file' = file /\ block' = block /\ listed' = listed /\ limited' = limited
        /\ blocks'[q] \in 0..MaxBlocks
        BY <1>0, <1>9 DEF RecordReply, Generate, artifacts
  <2>3. /\ block[q] = 1 /\ listed[q] = {} /\ ~ limited[q]
        /\ \A i \in 1..MaxBlocks : file[q][i] = "none"
        BY <2>2 DEF FlagOf, Saving, Over
  <2>4. \A i \in 1..blocks'[q] : file'[q][i] = "none"
        BY <2>2, <2>3
  <2> QED BY <2>1, <2>2, <2>3, <2>4 DEF FlagOf, Saving, Over
<1>10. CASE NextDelta(q)
  <2>1. sent'[q] # <<"answer">>
        BY <1>10, OneEvent DEF NextDelta, Events
  <2>2. pc'[q] = pc[q] /\ SameFiles(q)
        BY <1>10 DEF NextDelta, SameFiles, artifacts
  <2> QED BY <1>2, <2>1, <2>2
<1>11. CASE Restart
  <2>1. SameFiles(q) /\ sent' = sent /\ (pc'[q] = pc[q] \/ pc'[q] \in Over)
        BY <1>11 DEF Restart, SameFiles, artifacts, Over
  <2> QED BY <1>2, <2>1
<1>12. CASE (\E s \in Sessions : DeleteSession(s)) \/ UNCHANGED vars
  <2>1. SameFiles(q) /\ sent' = sent /\ pc' = pc
        BY <1>12 DEF DeleteSession, vars, SameFiles, artifacts
  <2> QED BY <1>2, <2>1
<1>13. ASSUME NEW n \in 0..MaxFiles, CheckLimit(q, n) PROVE FlagOf(q)'
  <2>1. /\ pc[q] = "artifacts" /\ block[q] <= blocks[q] /\ sent' = sent /\ sent[q] = <<>>
        /\ \/ pc'[q] = "create" /\ limited' = limited
           \/ pc'[q] = "respond" /\ limited'[q] = TRUE
        /\ UNCHANGED <<blocks, file, block, listed>>
        BY <1>0, <1>13 DEF CheckLimit, MoreBlocks, ProgressOf, Saving
  <2>2. sent'[q] # <<"answer">>
        BY <2>1, NoEvent
  <2> QED BY <1>0, <2>1, <2>2 DEF FlagOf, Saving, Over
<1>14. CASE CreateRow(q)
  <2>1. /\ pc[q] = "create" /\ pc'[q] = "push" /\ sent' = sent /\ sent[q] = <<>>
        /\ UNCHANGED <<blocks, block, listed, limited>>
        /\ block[q] <= blocks[q] /\ block[q] \in 1..MaxBlocks
        BY <1>0, <1>14 DEF CreateRow, ProgressOf, Saving, FlagOf
  <2>2. \A i \in 1..MaxBlocks :
           file'[q][i] = IF i = block[q] THEN "stored" ELSE file[q][i]
        BY <1>0, <1>14, <2>1 DEF CreateRow
  <2>3. \A i \in 1..blocks[q] : file[q][i] # "none" <=> i < block[q]
        BY <1>0, <2>1 DEF FlagOf, Saving
  <2>4. \A i \in 1..blocks[q] : file'[q][i] # "none" <=> i < block[q] \/ i = block[q]
        BY <1>0, <2>1, <2>2, <2>3
  <2>5. sent'[q] # <<"answer">>
        BY <2>1, NoEvent
  <2> QED BY <1>0, <2>1, <2>4, <2>5 DEF FlagOf, Saving, Over
<1>15. CASE PushFile(q)
  <2>1. /\ pc[q] = "push" /\ pc'[q] = "artifacts" /\ sent' = sent /\ sent[q] = <<>>
        /\ UNCHANGED <<blocks, file, limited>>
        /\ block[q] <= blocks[q] /\ block[q] \in 1..MaxBlocks /\ ~ limited[q]
        /\ listed'[q] = listed[q] \cup {block[q]} /\ block'[q] = block[q] + 1
        BY <1>0, <1>15 DEF PushFile, ProgressOf, Saving, FlagOf
  <2>2. /\ listed[q] = 1..(block[q] - 1)
        /\ \A i \in 1..blocks[q] : file[q][i] # "none" <=> i < block[q] \/ i = block[q]
        BY <1>0, <2>1 DEF FlagOf, Saving
  <2>3. listed'[q] = 1..(block'[q] - 1)
        BY <1>0, <2>1, <2>2
  <2>4. \A i \in 1..blocks[q] : file[q][i] # "none" <=> i < block'[q]
        BY <1>0, <2>1, <2>2
  <2>5. sent'[q] # <<"answer">>
        BY <2>1, NoEvent
  <2>6. block'[q] <= blocks[q] + 1
        BY <1>0, <2>1
  <2> QED BY <2>1, <2>3, <2>4, <2>5, <2>6 DEF FlagOf, Saving, Over
<1> QED
  BY <1>1, <1>3, <1>4, <1>5, <1>6, <1>7, <1>8, <1>9, <1>10, <1>11, <1>12, <1>13,
     <1>14, <1>15
  DEF Next, Step, Work

LEMMA FirstEvent ==
    ASSUME TypeOK, NEW r \in Requests, NEW e \in Events, Send(r, e), sent[r] = <<>>
    PROVE  sent'[r] = <<e>>
<1>1. sent'[r] = Append(<<>>, e)
      BY SendSeq
<1> QED BY <1>1

LEMMA AnnounceSessionEvent ==
    ASSUME TypeOK, NEW r \in Requests, sent[r] = <<>>, r \in Streams,
           Send(r, "session"), deltas[r] = 0, deltas' = deltas
    PROVE  Announced(r)'
<1>1. sent'[r] = <<"session">>
      BY FirstEvent DEF Events
<1>2. Len(sent'[r]) = 1 /\ DOMAIN sent'[r] = 1..1 /\ sent'[r][1] = "session"
      BY <1>1
<1> QED BY <1>2 DEF Announced

LEMMA AnnounceDelta ==
    ASSUME TypeOK, NEW r \in Requests, Announced(r), Send(r, "delta"),
           deltas'[r] = deltas[r] + 1
    PROVE  Announced(r)'
<1> deltas[r] \in Nat
    BY ExchangeAssumption DEF TypeOK
<1>1. /\ Len(sent'[r]) = Len(sent[r]) + 1
      /\ DOMAIN sent[r] = 1..Len(sent[r]) /\ DOMAIN sent'[r] = 1..(Len(sent[r]) + 1)
      /\ \A i \in 1..Len(sent[r]) : sent'[r][i] = sent[r][i]
      /\ sent'[r][Len(sent[r]) + 1] = "delta"
      BY SendSeq DEF Events
<1>2. Len(sent[r]) = deltas[r] + 1 /\ r \in Streams
      BY DEF Announced
<1>3. ASSUME NEW i \in DOMAIN sent'[r]
      PROVE  sent'[r][i] = IF i = 1 THEN "session" ELSE "delta"
  <2>1. CASE i = Len(sent[r]) + 1
        BY <1>1, <1>2, <2>1
  <2>2. CASE i # Len(sent[r]) + 1
    <3>1. i \in DOMAIN sent[r] /\ sent'[r][i] = sent[r][i]
          BY <1>1, <1>2, <1>3, <2>2
    <3> QED BY <3>1 DEF Announced
  <2> QED BY <2>1, <2>2
<1> QED BY <1>1, <1>2, <1>3 DEF Announced

LEMMA AnnounceEnd ==
    ASSUME TypeOK, NEW r \in Requests, Announced(r), NEW e \in {"done", "error"},
           Send(r, e), deltas'[r] = deltas[r]
    PROVE  Answered(r)'
<1> deltas[r] \in Nat
    BY ExchangeAssumption DEF TypeOK
<1>1. /\ Len(sent'[r]) = Len(sent[r]) + 1
      /\ DOMAIN sent[r] = 1..Len(sent[r]) /\ DOMAIN sent'[r] = 1..(Len(sent[r]) + 1)
      /\ \A i \in 1..Len(sent[r]) : sent'[r][i] = sent[r][i]
      /\ sent'[r][Len(sent[r]) + 1] = e
      BY SendSeq DEF Events
<1>2. Len(sent'[r]) = deltas'[r] + 2 /\ r \in Streams
      BY <1>1 DEF Announced
<1>3. ASSUME NEW i \in DOMAIN sent'[r]
      PROVE  IF i = 1 THEN sent'[r][i] = "session"
             ELSE IF i = Len(sent'[r]) THEN sent'[r][i] \in {"done", "error"}
             ELSE sent'[r][i] = "delta"
  <2>0. i \in 1..(Len(sent[r]) + 1) /\ Len(sent[r]) = deltas[r] + 1
        BY <1>1, <1>3 DEF Announced
  <2>1. CASE i = Len(sent'[r])
        BY <1>1, <2>0, <2>1
  <2>2. CASE i # Len(sent'[r])
    <3>1. i \in DOMAIN sent[r] /\ sent'[r][i] = sent[r][i]
          BY <1>1, <2>0, <2>2
    <3> QED BY <2>2, <3>1 DEF Announced
  <2> QED BY <2>1, <2>2
<1> QED BY <1>2, <1>3 DEF Answered

LEMMA SameEvents ==
    ASSUME NEW r, sent'[r] = sent[r], deltas'[r] = deltas[r]
    PROVE  (Announced(r)' <=> Announced(r)) /\ (Answered(r)' <=> Answered(r))
BY DEF Announced, Answered

LEMMA ProgressStep ==
    ASSUME IInv, [Next]_vars, NEW q \in Requests
    PROVE  ProgressOf(q)'
<1> TypeOK /\ ProgressOf(q)
    BY DEF IInv
<1> USE ExchangeAssumption DEF TypeOK, ProgressOf, Goto, Saving, conversation
<1>1. ASSUME NEW r \in Requests \ {q}, Step(r) PROVE ProgressOf(q)'
  <2>1. Same(q)
        BY <1>1, Frame
  <2> QED BY <2>1, SameEvents DEF Same
<1>2. ASSUME NEW e \in {"error", "answer"}, Finish(q, e), sent[q] = <<>>,
             deltas' = deltas, q \in Streams => deltas[q] = 0 /\ e = "error"
      PROVE  ProgressOf(q)'
  <2>1. sent'[q] = <<e>> /\ pc'[q] = "ended"
        BY <1>2, FirstEvent DEF Finish, Events
  <2> QED BY <1>2, <2>1 DEF Answered
<1>3. ASSUME Finish(q, outcome[q]) \/ Finish(q, "error"), pc[q] = "finally",
             deltas' = deltas
      PROVE  ProgressOf(q)'
  <2>1. PICK e \in {"done", "error"} : Finish(q, e)
        BY <1>3
  <2>2. Answered(q)'
        BY <1>3, <2>1, AnnounceEnd DEF Finish
  <2> QED BY <2>1, <2>2 DEF Finish
<1>4. CASE Refuse(q)
      BY <1>2, <1>4 DEF Refuse
<1>5. ASSUME NEW s \in Sessions, ResolveSession(q, s) PROVE ProgressOf(q)'
      BY <1>5 DEF ResolveSession
<1>6. CASE RecordUserMessage(q)
  <2>1. q \in Streams => Announced(q)' /\ pc'[q] = "next"
        BY <1>6, AnnounceSessionEvent DEF RecordUserMessage
  <2>2. q \notin Streams => sent' = sent /\ pc'[q] = "generate"
        BY <1>6 DEF RecordUserMessage
  <2> QED BY <1>6, <2>1, <2>2 DEF RecordUserMessage
<1>7. ASSUME NEW n \in 0..MaxBlocks, Generate(q, n) PROVE ProgressOf(q)'
      BY <1>7 DEF Generate
<1>8. CASE \/ RecordReply(q) \/ CreateRow(q) \/ PushFile(q)
           \/ \E n \in 0..MaxFiles : CheckLimit(q, n)
      BY <1>8 DEF RecordReply, CheckLimit, CreateRow, PushFile, MoreBlocks
<1>9. CASE Answer(q)
      BY <1>2, <1>9 DEF Answer
<1>10. CASE NextDelta(q)
  <2>1. Announced(q)'
        BY <1>10, AnnounceDelta DEF NextDelta
  <2> QED BY <1>10, <2>1 DEF NextDelta
<1>11. CASE StreamEnds(q) \/ StreamBreaks(q)
      BY <1>11 DEF StreamEnds, StreamBreaks, Announced
<1>12. CASE Persist(q) \/ NothingToPersist(q)
      BY <1>3, <1>12 DEF Persist, NothingToPersist
<1>13. CASE Reject(q)
      BY <1>2, <1>3, <1>13 DEF Reject, Awaits, MoreBlocks
<1>14. CASE Restart
  <2>1. pc'[q] = pc[q] \/ (pc'[q] = "died" /\ pc[q] \notin {"ended", "new", "died"})
        BY <1>14 DEF Restart, Over
  <2>2. sent' = sent /\ deltas' = deltas /\ outcome' = outcome
        BY <1>14 DEF Restart
  <2>3. (Announced(q)' <=> Announced(q)) /\ (Answered(q)' <=> Answered(q))
        BY <2>2, SameEvents
  <2>4. CASE pc'[q] = pc[q]
        BY <2>2, <2>3, <2>4
  <2>5. CASE pc'[q] = "died" /\ pc[q] \notin {"ended", "new", "died"}
        BY <2>2, <2>3, <2>5 DEF Pcs
  <2> QED BY <2>1, <2>4, <2>5
<1>15. CASE \/ \E s \in Sessions : DeleteSession(s)
            \/ \E r \in Requests, i \in 1..MaxBlocks : DeleteFile(r, i)
            \/ UNCHANGED vars
  <2>1. pc' = pc /\ sent' = sent /\ deltas' = deltas /\ outcome' = outcome
        BY <1>15 DEF DeleteSession, DeleteFile, vars
  <2> QED BY <2>1, SameEvents
<1> HIDE DEF TypeOK, ProgressOf, Goto
<1> QED
  BY <1>1, <1>4, <1>5, <1>6, <1>7, <1>8, <1>9, <1>10, <1>11, <1>12, <1>13, <1>14,
     <1>15 DEF Next, Step, Work

-----------------------------------------------------------------------------
(* What a session holds of a request, step by step.                        *)
LEMMA SentAfter ==
    ASSUME TypeOK, NEW r \in Requests, NEW e \in Events, Send(r, e), NEW E
    PROVE  WasSent(r, E)' <=> WasSent(r, E) \/ e \in E
<1>1. /\ DOMAIN sent[r] = 1..Len(sent[r]) /\ DOMAIN sent'[r] = 1..(Len(sent[r]) + 1)
      /\ \A i \in 1..Len(sent[r]) : sent'[r][i] = sent[r][i]
      /\ sent'[r][Len(sent[r]) + 1] = e /\ Len(sent[r]) \in Nat
      BY SendSeq
<1> QED BY <1>1 DEF WasSent

LEMMA SentBefore ==
    ASSUME TypeOK, NEW r \in Requests, ProgressOf(r), pc[r] # "ended"
    PROVE  /\ ~ WasSent(r, {"answer", "done"})
           /\ pc[r] \in {"new", "ask"} => ~ WasSent(r, {"session"})
<1>1. CASE sent[r] = <<>>
      BY <1>1 DEF WasSent
<1>2. CASE Announced(r)
      BY <1>2 DEF WasSent, Announced, ProgressOf
<1>3. sent[r] = <<>> \/ Announced(r)
      BY DEF TypeOK, Pcs, ProgressOf, Saving
<1>4. pc[r] \in {"new", "ask"} => sent[r] = <<>>
      BY DEF ProgressOf
<1> QED BY <1>1, <1>2, <1>3, <1>4 DEF WasSent

LEMMA AddAt ==
    ASSUME TypeOK, NEW r \in Requests, NEW role \in {"user", "assistant"},
           NEW n \in 0..MaxDeltas + 1, AddMessage(r, role, n), target[r] # None,
           NEW s \in Sessions, NEW q \in Requests, NEW o \in {"user", "assistant"}
    PROVE  /\ At(s, q, o)' = IF s = target[r] /\ q = r /\ o = role
                             THEN At(s, q, o) \cup {Len(history[s]) + 1}
                             ELSE At(s, q, o)
           /\ \A i \in At(s, q, o) : /\ history'[s][i] = history[s][i]
                                     /\ i \in Int /\ i < Len(history[s]) + 1
           /\ s = target[r] => history'[s][Len(history[s]) + 1].length = n
<1> DEFINE m == [role |-> role, by |-> r, length |-> n]
<1>0. /\ m.role = role /\ m.by = r /\ m.length = n
      /\ history'= [history EXCEPT ![target[r]] = Append(history[target[r]], m)]
      /\ m \in Message
      BY DEF AddMessage, Message
<1> HIDE DEF m
<1>1. history[s] \in Seq(Message) /\ target[r] \in Sessions
      BY DEF TypeOK
<1>2. CASE s = target[r]
  <2>1. history'[s] = Append(history[s], m)
        BY <1>0, <1>1, <1>2 DEF TypeOK
  <2>2. /\ DOMAIN history'[s] = 1..(Len(history[s]) + 1)
        /\ DOMAIN history[s] = 1..Len(history[s])
        /\ Len(history[s]) \in Nat
        /\ \A i \in 1..Len(history[s]) : history'[s][i] = history[s][i]
        /\ history'[s][Len(history[s]) + 1] = m
        BY <1>0, <1>1, <2>1, AppendTypes
  <2> QED BY <1>0, <1>2, <2>2 DEF At
<1>3. CASE s # target[r]
  <2>1. history'[s] = history[s]
        BY <1>0, <1>1, <1>3 DEF TypeOK
  <2>2. DOMAIN history[s] = 1..Len(history[s]) /\ Len(history[s]) \in Nat
        BY <1>1
  <2> QED BY <1>3, <2>1, <2>2 DEF At
<1> QED BY <1>2, <1>3

LEMMA StoredSame ==
    ASSUME NEW s \in Sessions, NEW q \in Requests, StoredOf(s, q), Same(q),
           session'[s] = session[s] \/ s # target[q],
           \A o \in {"user", "assistant"} :
              /\ At(s, q, o)' = At(s, q, o)
              /\ \A i \in At(s, q, o) : history'[s][i] = history[s][i]
    PROVE  StoredOf(s, q)'
<1>1. \A E : WasSent(q, E)' <=> WasSent(q, E)
      BY DEF WasSent, Same
<1> QED BY <1>1 DEF StoredOf, Same

LEMMA SameHistory ==
    ASSUME NEW s, NEW q, NEW o, history'[s] = history[s]
    PROVE  At(s, q, o)' = At(s, q, o)
BY DEF At

\* The step of another request: at most a message of its own.
LEMMA StoredOther ==
    ASSUME IInv, NEW s \in Sessions, NEW q \in Requests,
           NEW r \in Requests \ {q}, Step(r)
    PROVE  StoredOf(s, q)'
<1> TypeOK /\ StoredOf(s, q) /\ ProgressOf(r) /\ TargetOf(r) /\ TargetOf(q)
    BY DEF IInv
<1>1. Same(q)
      BY Frame
<1> USE DEF conversation
<1>2. ASSUME history' = history, session' = session PROVE StoredOf(s, q)'
      BY <1>1, <1>2, StoredSame, SameHistory
<1>3. ASSUME NEW role \in {"user", "assistant"}, NEW n \in 0..MaxDeltas + 1,
             AddMessage(r, role, n), pc[r] \notin {"new", "ended"}
      PROVE  StoredOf(s, q)'
  <2>1. target[r] # None
        BY <1>3, HasTarget
  <2>2. session' = session
        BY <1>3 DEF AddMessage
  <2> QED BY <1>1, <1>3, <2>1, <2>2, AddAt, StoredSame
<1>4. CASE RecordUserMessage(r)
  <2>1. 0 \in 0..MaxDeltas + 1
        BY ExchangeAssumption
  <2> QED BY <1>3, <1>4, <2>1 DEF RecordUserMessage
<1>5. CASE RecordReply(r) \/ Persist(r)
  <2>1. deltas[r] \in 0..MaxDeltas + 1
        BY DEF TypeOK
  <2> QED BY <1>3, <1>5, <2>1 DEF RecordReply, Persist
<1>6. ASSUME NEW u \in Sessions, ResolveSession(r, u) PROVE StoredOf(s, q)'
  <2>1. history' = history
        BY <1>6 DEF ResolveSession
  <2>2. session'[s] = session[s] \/ s # target[q]
        BY <1>6, ExchangeAssumption DEF ResolveSession, TargetOf, TypeOK
  <2> QED BY <1>1, <2>1, <2>2, StoredSame, SameHistory
<1>7. CASE Refuse(r) \/ NextDelta(r) \/ \E n \in 0..MaxBlocks : Generate(r, n)
      BY <1>2, <1>7 DEF Refuse, NextDelta, Generate
<1>8. CASE \/ CreateRow(r) \/ PushFile(r) \/ Answer(r)
           \/ \E n \in 0..MaxFiles : CheckLimit(r, n)
      BY <1>2, <1>8 DEF CheckLimit, CreateRow, PushFile, Answer
<1>9. CASE StreamEnds(r) \/ StreamBreaks(r) \/ NothingToPersist(r) \/ Reject(r)
      BY <1>2, <1>9 DEF StreamEnds, StreamBreaks, NothingToPersist, Reject
<1> QED
  BY <1>4, <1>5, <1>6, <1>7, <1>8, <1>9 DEF Step, Work

\* A step of the request itself that stores nothing.
LEMMA StoredQuiet ==
    ASSUME NEW s \in Sessions, NEW q \in Requests, StoredOf(s, q),
           history' = history, session' = session, target' = target,
           pc[q] \notin {"new", "ask"} => pc'[q] \notin {"new", "ask"},
           At(s, q, "assistant") # {} =>
              /\ deltas'[q] = deltas[q]
              /\ pc'[q] = "ended" \/ (q \notin Streams /\ pc'[q] \in Saving \cup {"died"}),
           s = target[q] /\ session[s] = "open" =>
              /\ pc'[q] \in {"generate", "reply", "next", "finally"} \cup Saving
                 \/ WasSent(q, {"session"})' => At(s, q, "user") # {}
              /\ pc'[q] \in Saving
                 \/ (WasSent(q, {"answer", "done"})' /\ deltas'[q] > 0)
                    => At(s, q, "assistant") # {}
    PROVE  StoredOf(s, q)'
<1>1. At(s, q, "user")' = At(s, q, "user") /\ At(s, q, "assistant")' = At(s, q, "assistant")
      BY SameHistory
<1> QED BY <1>1 DEF StoredOf

LEMMA StoredOwn ==
    ASSUME IInv, NEW s \in Sessions, NEW q \in Requests, Step(q)
    PROVE  StoredOf(s, q)'
<1> TypeOK /\ StoredOf(s, q) /\ ProgressOf(q) /\ TargetOf(q)
    BY DEF IInv
<1>0. /\ pc[q] \in {"new", "ask"} => At(s, q, "user") = {}
      /\ At(s, q, "assistant") # {} =>
            pc[q] = "ended" \/ (q \notin Streams /\ pc[q] \in Saving \cup {"died"})
      /\ At(s, q, "assistant") # {} => At(s, q, "user") # {}
      /\ s = target[q] /\ session[s] = "open" =>
            /\ pc[q] \in {"generate", "reply", "next", "finally"} \cup Saving =>
                  At(s, q, "user") # {}
            /\ pc[q] \in Saving => At(s, q, "assistant") # {}
      BY DEF StoredOf
<1> USE DEF conversation, Saving
<1>1. ASSUME NEW l \in Pcs, pc' = [pc EXCEPT ![q] = l]
      PROVE  pc'[q] = l
      BY <1>1 DEF TypeOK
<1>2. CASE Refuse(q)
  <2>1. target[q] = None /\ pc[q] = "new" /\ pc'[q] = "ended"
        BY <1>1, <1>2 DEF Refuse, Finish, Goto, TargetOf, Pcs
  <2> QED BY <1>0, <1>2, <2>1, StoredQuiet, ExchangeAssumption DEF Refuse
<1>3. ASSUME NEW u \in Sessions, ResolveSession(q, u) PROVE StoredOf(s, q)'
  <2>1. pc[q] = "new" /\ pc'[q] = "ask" /\ history' = history /\ sent' = sent
        BY <1>1, <1>3 DEF ResolveSession, Goto, Pcs
  <2>2. At(s, q, "user")' = {} /\ At(s, q, "assistant")' = {}
        BY <1>0, <2>1, SameHistory
  <2>3. ~ WasSent(q, {"session"})' /\ ~ WasSent(q, {"answer", "done"})'
        BY <2>1, SentBefore DEF WasSent
  <2> QED BY <2>1, <2>2, <2>3 DEF StoredOf
<1>4. ASSUME NEW n \in 0..MaxBlocks, Generate(q, n) PROVE StoredOf(s, q)'
  <2>1. pc[q] = "generate" /\ pc'[q] = "reply" /\ sent' = sent
        BY <1>1, <1>4 DEF Generate, Goto, Pcs
  <2>2. ~ WasSent(q, {"answer", "done"})'
        BY <2>1, SentBefore DEF WasSent
  <2> QED BY <1>0, <1>4, <2>1, <2>2, StoredQuiet DEF Generate
<1>5. CASE CreateRow(q) \/ PushFile(q) \/ \E n \in 0..MaxFiles : CheckLimit(q, n)
  <2>1. pc[q] \in Saving /\ pc'[q] \in Saving /\ UNCHANGED <<conversation, sent>>
        BY <1>1, <1>5 DEF CheckLimit, CreateRow, PushFile, MoreBlocks, Goto, Pcs
  <2> QED BY <1>0, <2>1, StoredQuiet
<1>6. CASE Answer(q)
  <2>1. pc[q] \in Saving /\ pc'[q] = "ended" /\ UNCHANGED conversation
        BY <1>1, <1>6 DEF Answer, Finish, Goto, Pcs
  <2> QED BY <1>0, <2>1, StoredQuiet
<1>7. CASE NextDelta(q)
  <2>1. pc[q] = "next" /\ pc' = pc /\ Send(q, "delta")
        BY <1>7 DEF NextDelta
  <2>2. ~ WasSent(q, {"answer", "done"})'
        BY <2>1, SentBefore, SentAfter DEF Events
  <2> QED BY <1>0, <1>7, <2>1, <2>2, StoredQuiet DEF NextDelta
<1>8. CASE StreamEnds(q) \/ StreamBreaks(q)
  <2>1. pc[q] = "next" /\ pc'[q] = "finally" /\ sent' = sent
        BY <1>1, <1>8 DEF StreamEnds, StreamBreaks, Goto, Pcs
  <2>2. ~ WasSent(q, {"answer", "done"})'
        BY <2>1, SentBefore DEF WasSent
  <2> QED BY <1>0, <1>8, <2>1, <2>2, StoredQuiet DEF StreamEnds, StreamBreaks
<1>9. CASE NothingToPersist(q)
  <2>1. pc[q] = "finally" /\ pc'[q] = "ended" /\ deltas' = deltas /\ deltas[q] = 0
        BY <1>1, <1>9 DEF NothingToPersist, Finish, Goto, Pcs
  <2> QED BY <1>0, <1>9, <2>1, StoredQuiet DEF NothingToPersist
<1>10. CASE Reject(q)
  <2>1. /\ pc[q] \in {"ask", "generate", "reply", "finally"} \cup Saving
        /\ pc'[q] = "ended" /\ Send(q, "error") /\ deltas' = deltas
        BY <1>1, <1>10 DEF Reject, Awaits, MoreBlocks, Finish, Goto, Pcs
  <2>2. /\ ~ WasSent(q, {"answer", "done"})'
        /\ WasSent(q, {"session"})' => pc[q] # "ask"
        BY <2>1, SentBefore, SentAfter DEF Events
  <2> QED BY <1>0, <1>10, <2>1, <2>2, StoredQuiet DEF Reject
<1>11. CASE RecordUserMessage(q)
  <2>1. /\ pc[q] = "ask" /\ pc'[q] \in {"next", "generate"} /\ target[q] # None
        /\ AddMessage(q, "user", 0) /\ 0 \in 0..MaxDeltas + 1
        /\ target' = target /\ deltas' = deltas
        BY <1>1, <1>11, HasTarget, ExchangeAssumption
        DEF RecordUserMessage, Goto, Pcs
  <2>2. sent' = sent \/ Send(q, "session")
        BY <1>11 DEF RecordUserMessage
  <2>3. ~ WasSent(q, {"answer", "done"})'
        BY <2>1, <2>2, SentBefore, SentAfter DEF WasSent, Events
  <2>4. /\ At(s, q, "user")' = IF s = target[q] THEN {Len(history[s]) + 1} ELSE {}
        /\ At(s, q, "assistant")' = {}
        BY <1>0, <2>1, AddAt
  <2> QED BY <2>1, <2>3, <2>4 DEF StoredOf
<1>12. ASSUME pc[q] \in {"reply", "finally"}, pc'[q] \in {"artifacts", "ended"},
              q \in Streams => pc'[q] = "ended",
              AddMessage(q, "assistant", deltas[q]), target' = target, deltas' = deltas
       PROVE  StoredOf(s, q)'
  <2>1. target[q] # None /\ deltas[q] \in 0..MaxDeltas + 1
        BY <1>12, HasTarget DEF TypeOK
  <2>2. At(s, q, "user")' = At(s, q, "user")
        BY <1>12, <2>1, AddAt
  <2>3. CASE s = target[q]
    <3> DEFINE last == Len(history[s]) + 1
    <3>1. At(s, q, "assistant")' = {last} /\ history'[s][last].length = deltas[q]
          BY <1>0, <1>12, <2>1, <2>3, AddAt
    <3>2. session[s] = "open" /\ session' = session
          BY <1>12, <2>3 DEF AddMessage
    <3>3. PICK j \in At(s, q, "user") : TRUE
          BY <1>0, <1>12, <2>3, <3>2
    <3>4. j < last
          BY <1>12, <2>1, AddAt
    <3> HIDE DEF last
    <3> QED BY <1>12, <2>2, <2>3, <3>1, <3>2, <3>3, <3>4 DEF StoredOf
  <2>4. CASE s # target[q]
    <3>1. At(s, q, "assistant")' = {}
          BY <1>0, <1>12, <2>1, <2>4, AddAt
    <3> QED BY <1>12, <2>2, <2>4, <3>1 DEF StoredOf
  <2> QED BY <2>3, <2>4
<1>13. CASE RecordReply(q)
      BY <1>1, <1>12, <1>13 DEF RecordReply, Goto, Pcs, ProgressOf
<1>14. CASE Persist(q)
      BY <1>1, <1>12, <1>14 DEF Persist, Finish, Goto, Pcs
<1> QED
  BY <1>2, <1>3, <1>4, <1>5, <1>6, <1>7, <1>8, <1>9, <1>10, <1>11, <1>13, <1>14
  DEF Step, Work

LEMMA StoredStep ==
    ASSUME IInv, [Next]_vars, NEW s \in Sessions, NEW q \in Requests
    PROVE  StoredOf(s, q)'
<1> TypeOK /\ StoredOf(s, q) /\ ProgressOf(q)
    BY DEF IInv
<1> USE DEF conversation
<1>1. ASSUME NEW r \in Requests, Step(r) PROVE StoredOf(s, q)'
      BY <1>1, StoredOwn, StoredOther
<1>2. ASSUME NEW u \in Sessions, DeleteSession(u) PROVE StoredOf(s, q)'
  <2>1. Same(q)
        BY <1>2 DEF DeleteSession, Same
  <2>2. CASE u = s
    <3>1. history'[s] = <<>> /\ session'[s] = "deleted"
          BY <1>2, <2>2 DEF DeleteSession, TypeOK
    <3>2. \A o : At(s, q, o)' = {}
          BY <3>1 DEF At
    <3> QED BY <3>1, <3>2 DEF StoredOf
  <2>3. CASE u # s
    <3>1. history'[s] = history[s] /\ session'[s] = session[s]
          BY <1>2, <2>3 DEF DeleteSession, TypeOK
    <3> QED BY <2>1, <3>1, StoredSame, SameHistory
  <2> QED BY <2>2, <2>3
<1>3. CASE Restart
  <2>1. /\ pc'[q] = IF pc[q] \in {"ended", "died", "new"} THEN pc[q] ELSE "died"
        /\ history' = history /\ session' = session /\ target' = target
        /\ deltas' = deltas /\ sent' = sent
        BY <1>3 DEF Restart, Over
  <2>2. \A E : WasSent(q, E)' <=> WasSent(q, E)
        BY <2>1 DEF WasSent
  <2>3. pc[q] # "ended" => ~ WasSent(q, {"answer", "done"})
        BY SentBefore
  <2>4. pc[q] \in {"new", "ask"} => ~ WasSent(q, {"session"})
        BY SentBefore
  <2>5. pc[q] \in {"new", "ask"} => At(s, q, "user") = {}
        BY DEF StoredOf
  <2>6. /\ At(s, q, "user")' = At(s, q, "user")
        /\ At(s, q, "assistant")' = At(s, q, "assistant")
        BY <2>1, SameHistory
  <2> QED BY <2>1, <2>2, <2>3, <2>4, <2>5, <2>6 DEF StoredOf, Saving
<1>4. CASE UNCHANGED vars \/ \E r \in Requests, i \in 1..MaxBlocks : DeleteFile(r, i)
  <2>1. Same(q) /\ history' = history /\ session' = session
        BY <1>4 DEF vars, DeleteFile, Same
  <2> QED BY <2>1, StoredSame, SameHistory
<1> QED BY <1>1, <1>2, <1>3, <1>4 DEF Next, Step

LEMMA InvInit == Init => IInv
<1> SUFFICES ASSUME Init PROVE IInv
    OBVIOUS
<1>1. TypeOK
  <2>1. <<>> \in Seq(Message) /\ <<>> \in Seq(Events)
        OBVIOUS
  <2> QED BY <2>1, ExchangeAssumption DEF Init, TypeOK, Pcs, FileStates
<1>2. ASSUME NEW r \in Requests PROVE ProgressOf(r) /\ TargetOf(r) /\ FlagOf(r)
  <2>1. sent[r] # <<"answer">>
        BY NoEvent DEF Init
  <2> QED BY <2>1, ExchangeAssumption DEF Init, ProgressOf, TargetOf, FlagOf, Saving, Over
<1>3. ASSUME NEW s \in Sessions, NEW r \in Requests PROVE StoredOf(s, r)
  <2>1. At(s, r, "user") = {} /\ At(s, r, "assistant") = {}
        BY DEF Init, At
  <2>2. target[r] = None /\ s # target[r]
        BY ExchangeAssumption DEF Init
  <2> QED BY <2>1, <2>2 DEF StoredOf
<1> QED BY <1>1, <1>2, <1>3 DEF IInv

THEOREM Invariance == Spec => []IInv
<1>1. IInv /\ [Next]_vars => IInv'
      BY TypeStep, ProgressStep, TargetStep, FlagStep, StoredStep DEF IInv
<1> QED BY InvInit, <1>1, PTL DEF Spec

(* Types, with the outcome of a stream known when it is saved.             *)
THEOREM TypeCorrect == Spec => []TypeOK
<1>1. IInv => TypeOK
      BY DEF IInv
<1> QED BY Invariance, <1>1, PTL

(* In a stream as in one piece, what a client is told to be stored is.     *)
THEOREM AnnouncementsHold == Spec => []AnnouncedIsStored
<1>1. IInv => AnnouncedIsStored
  <2> SUFFICES ASSUME IInv, NEW r \in Requests, target[r] # None,
                      session[target[r]] = "open"
               PROVE  /\ WasSent(r, {"session"}) => At(target[r], r, "user") # {}
                      /\ WasSent(r, {"answer", "done"}) /\ deltas[r] > 0 =>
                            At(target[r], r, "assistant") # {}
      BY DEF AnnouncedIsStored
  <2>1. target[r] \in Sessions
        BY DEF IInv, TypeOK
  <2>2. StoredOf(target[r], r)
        BY <2>1 DEF IInv
  <2> QED BY <2>2 DEF StoredOf
<1> QED BY Invariance, <1>1, PTL

(* The files a reply names are those stored for it, and its flag is right, *)
(* whoever stores and deletes files between its checks of the limit.       *)
THEOREM FlagIsTrue == Spec => []FlagTellsMissingFiles
<1>1. IInv => FlagTellsMissingFiles
      BY DEF IInv, FlagOf, FlagTellsMissingFiles
<1> QED BY Invariance, <1>1, PTL

\* The number of deltas sent, counted over the events.
LEMMA CountDeltas ==
    ASSUME TypeOK, NEW r \in Requests, r \in Streams, Answered(r)
    PROVE  Deltas(r) = deltas[r]
<1> DEFINE D == {i \in DOMAIN sent[r] : sent[r][i] = "delta"}
<1>1. sent[r] \in Seq(Events) /\ deltas[r] \in Nat
      BY ExchangeAssumption DEF TypeOK
<1>2. D = 2..(deltas[r] + 1)
  <2>1. CASE sent[r] = <<"error">> /\ deltas[r] = 0
        BY <2>1
  <2>2. CASE /\ Len(sent[r]) = deltas[r] + 2
             /\ \A i \in DOMAIN sent[r] :
                   IF i = 1 THEN sent[r][i] = "session"
                   ELSE IF i = Len(sent[r]) THEN sent[r][i] \in {"done", "error"}
                   ELSE sent[r][i] = "delta"
    <3>1. DOMAIN sent[r] = 1..(deltas[r] + 2)
          BY <1>1, <2>2
    <3> QED BY <1>1, <2>2, <3>1
  <2> QED BY <2>1, <2>2 DEF Answered
<1>3. Cardinality(2..(deltas[r] + 1)) = deltas[r]
      BY <1>1, FS_Interval
<1> QED BY <1>2, <1>3 DEF Deltas

(* However requests share a session, each has at most one prompt and one   *)
(* reply behind it there, and a streamed reply is what the client was sent. *)
THEOREM HistoryStaysInOrder == Spec => []HistoryInOrder
<1>1. IInv => HistoryInOrder
  <2> SUFFICES ASSUME IInv, NEW s \in Sessions, NEW r \in Requests
               PROVE  /\ \A role \in {"user", "assistant"} :
                            \A i, j \in At(s, r, role) : i = j
                      /\ At(s, r, "user") # {} => s = target[r]
                      /\ \A i \in At(s, r, "assistant") :
                            /\ \E j \in At(s, r, "user") : j < i
                            /\ r \in Streams => history[s][i].length = Deltas(r)
      BY DEF HistoryInOrder
  <2>1. StoredOf(s, r) /\ ProgressOf(r) /\ TypeOK
        BY DEF IInv
  <2>2. ASSUME NEW i \in At(s, r, "assistant"), r \in Streams
        PROVE  history[s][i].length = Deltas(r)
    <3>1. pc[r] = "ended" /\ history[s][i].length = deltas[r]
          BY <2>1, <2>2 DEF StoredOf
    <3>2. Answered(r)
          BY <2>1, <3>1 DEF ProgressOf
    <3> QED BY <2>1, <2>2, <3>1, <3>2, CountDeltas
  <2> QED BY <2>1, <2>2 DEF StoredOf
<1> QED BY Invariance, <1>1, PTL

(* The events of a stream come in the protocol's order and end once.       *)
THEOREM EventsInOrder == Spec => []EventOrder
<1>1. ASSUME IInv, NEW r \in Requests PROVE EventsOf(r)
  <2>1. ProgressOf(r) /\ sent[r] \in Seq(Events) /\ deltas[r] \in Nat /\ pc[r] \in Pcs
        BY <1>1, ExchangeAssumption DEF IInv, TypeOK
  <2>2. DOMAIN sent[r] = 1..Len(sent[r]) /\ Len(sent[r]) \in Nat
        BY <2>1
  <2>3. CASE pc[r] = "ended"
    <3>1. ASSUME NEW e, sent[r] = <<e>>, e = "error" \/ (e = "answer" /\ r \notin Streams)
          PROVE  EventsOf(r)
      <4>1. Len(sent[r]) = 1 /\ DOMAIN sent[r] = 1..1 /\ sent[r][1] = e
            BY <3>1
      <4>2. e \in Final
            BY <3>1 DEF Final
      <4>3. WasSent(r, Final)
            BY <4>1, <4>2 DEF WasSent
      <4> QED BY <2>3, <3>1, <4>1, <4>2, <4>3 DEF EventsOf
    <3>2. CASE /\ r \in Streams /\ Len(sent[r]) = deltas[r] + 2
               /\ \A i \in DOMAIN sent[r] :
                     IF i = 1 THEN sent[r][i] = "session"
                     ELSE IF i = Len(sent[r]) THEN sent[r][i] \in {"done", "error"}
                     ELSE sent[r][i] = "delta"
      <4>1. Len(sent[r]) \in DOMAIN sent[r] /\ sent[r][Len(sent[r])] \in Final
            BY <2>1, <2>2, <3>2 DEF Final
      <4>2. WasSent(r, Final)
            BY <4>1 DEF WasSent
      <4> QED BY <2>1, <2>2, <2>3, <3>2, <4>2 DEF Final, EventsOf
    <3> QED BY <2>1, <2>3, <3>1, <3>2 DEF ProgressOf, Answered
  <2>4. CASE pc[r] # "ended" /\ sent[r] = <<>>
        BY <2>4 DEF WasSent, EventsOf
  <2>5. CASE pc[r] # "ended" /\ Announced(r)
        BY <2>1, <2>2, <2>5 DEF WasSent, Announced, Final, EventsOf
  <2> QED BY <2>1, <2>3, <2>4, <2>5 DEF ProgressOf, Pcs, Saving
<1>2. IInv => EventOrder
      BY <1>1 DEF EventOrder
<1> QED BY Invariance, <1>2, PTL
-----------------------------------------------------------------------------
(* EveryRequestEnds, as far as it is safety: a request that has begun and  *)
(* is not over has a step to take, each of its steps brings it nearer to   *)
(* its end, and nothing others do takes it back.                           *)

\* The awaits a request has at most in front of it: three for every block.
BlocksLeft(r) == 3 * ((MaxBlocks + 1) - block[r])

AwaitsLeft(r) ==
    CASE pc[r] \in Over        -> 0
      [] pc[r] = "finally"     -> 1
      [] pc[r] = "next"        -> (MaxDeltas + 3) - deltas[r]
      [] pc[r] = "respond"     -> 1
      [] pc[r] = "push"        -> BlocksLeft(r)
      [] pc[r] = "create"      -> BlocksLeft(r) + 1
      [] pc[r] = "artifacts"   -> BlocksLeft(r) + 2
      [] pc[r] = "reply"       -> 3 * MaxBlocks + 3
      [] pc[r] = "generate"    -> 3 * MaxBlocks + 4
      [] OTHER                 -> MaxDeltas + 3 * MaxBlocks + 5

\* The condition of one of the steps in Work(r).
HasWork(r) ==
    \/ Awaits(r)
    \/ pc[r] = "respond" \/ (pc[r] = "artifacts" /\ ~ MoreBlocks(r))
    \/ pc[r] = "next"
    \/ pc[r] = "finally" /\ deltas[r] = 0

LEMMA WorkRemains ==
    ASSUME IInv, NEW r \in Requests, pc[r] \notin Over \cup {"new"} PROVE HasWork(r)
<1>1. pc[r] \in Pcs /\ deltas[r] \in 0..MaxDeltas + 1
      BY DEF IInv, TypeOK
<1> QED BY <1>1, ExchangeAssumption DEF HasWork, Awaits, Pcs, Over

LEMMA LeftIsNat ==
    ASSUME NEW r, pc[r] \in Pcs, deltas[r] \in 0..MaxDeltas + 1,
           block[r] \in 1..MaxBlocks + 1
    PROVE  AwaitsLeft(r) \in Nat
<1>1. BlocksLeft(r) \in Nat
      BY ExchangeAssumption DEF BlocksLeft
<1> QED BY <1>1, ExchangeAssumption DEF AwaitsLeft, Over, Pcs

\* The step of one request.
LEMMA WorkShortens ==
    ASSUME IInv, NEW r \in Requests, Work(r) PROVE AwaitsLeft(r)' < AwaitsLeft(r)
<1>0. /\ pc \in [Requests -> Pcs] /\ MaxDeltas \in Nat /\ MaxBlocks \in Nat
      /\ deltas \in [Requests -> 0..MaxDeltas + 1]
      /\ block \in [Requests -> 1..MaxBlocks + 1]
      /\ blocks[r] \in 0..MaxBlocks
      BY ExchangeAssumption DEF IInv, TypeOK
<1>1. /\ pc[r] = "ask" => deltas[r] = 0
      /\ pc[r] = "reply" => block[r] = 1
      /\ pc[r] \in {"create", "push", "respond"} => block[r] <= blocks[r]
      BY DEF IInv, FlagOf, ProgressOf, Over, Saving
<1>2. CASE RecordUserMessage(r)
      BY <1>0, <1>1, <1>2 DEF RecordUserMessage, Goto, AwaitsLeft, Over
<1>3. ASSUME NEW n \in 0..MaxBlocks, Generate(r, n) PROVE AwaitsLeft(r)' < AwaitsLeft(r)
      BY <1>0, <1>3 DEF Generate, Goto, AwaitsLeft, Over
<1>4. CASE RecordReply(r)
  <2>1. BlocksLeft(r)' = 3 * MaxBlocks /\ pc'[r] = "artifacts" /\ pc[r] = "reply"
        BY <1>0, <1>1, <1>4 DEF RecordReply, Goto, BlocksLeft, artifacts
  <2> QED BY <1>0, <2>1 DEF AwaitsLeft, Over
<1>5. CASE (\E n \in 0..MaxFiles : CheckLimit(r, n)) \/ CreateRow(r)
  <2>1. /\ \/ pc[r] = "artifacts" /\ pc'[r] \in {"create", "respond"} /\ block[r] <= blocks[r]
           \/ pc[r] = "create" /\ pc'[r] = "push"
        /\ block' = block
        BY <1>0, <1>5 DEF CheckLimit, CreateRow, MoreBlocks, Goto
  <2>2. BlocksLeft(r)' = BlocksLeft(r) /\ BlocksLeft(r) \in Nat
        BY <1>0, <2>1 DEF BlocksLeft
  <2> QED BY <2>1, <2>2 DEF AwaitsLeft, Over
<1>6. CASE PushFile(r)
  <2>1. pc[r] = "push" /\ pc'[r] = "artifacts" /\ block'[r] = block[r] + 1
        BY <1>0, <1>6 DEF PushFile, Goto
  <2>2. BlocksLeft(r)' = BlocksLeft(r) - 3 /\ BlocksLeft(r) \in Nat
        BY <1>0, <2>1 DEF BlocksLeft
  <2> QED BY <2>1, <2>2 DEF AwaitsLeft, Over
<1>7. CASE NextDelta(r)
      BY <1>0, <1>7 DEF NextDelta, AwaitsLeft, Over
<1>8. CASE StreamEnds(r) \/ StreamBreaks(r)
      BY <1>0, <1>8 DEF StreamEnds, StreamBreaks, Goto, AwaitsLeft, Over
<1>9. CASE Answer(r) \/ Persist(r) \/ NothingToPersist(r) \/ Reject(r)
  <2>1. /\ pc[r] \in {"ask", "generate", "reply", "finally"} \cup Saving
        /\ pc'[r] = "ended"
        BY <1>0, <1>9 DEF Answer, Persist, NothingToPersist, Reject, Awaits, MoreBlocks,
           Finish, Goto, Saving
  <2>2. AwaitsLeft(r)' = 0
        BY <2>1 DEF AwaitsLeft, Over
  <2>3. BlocksLeft(r) \in Nat /\ (pc[r] = "push" => BlocksLeft(r) > 0)
        BY <1>0, <1>1 DEF BlocksLeft
  <2>4. AwaitsLeft(r) > 0
        BY <1>0, <2>1, <2>3 DEF AwaitsLeft, Over, Saving
  <2> QED BY <2>2, <2>4
<1> QED BY <1>2, <1>3, <1>4, <1>5, <1>6, <1>7, <1>8, <1>9 DEF Work

\* A step that is not the request's own, or no step.
Unmoved(r) == pc'[r] = pc[r] /\ deltas'[r] = deltas[r] /\ block'[r] = block[r]

LEMMA OthersDoNotLengthen ==
    ASSUME IInv, NEW r \in Requests, pc[r] # "new", Unmoved(r) \/ Restart
    PROVE  AwaitsLeft(r)' <= AwaitsLeft(r)
<1>1. AwaitsLeft(r) \in Nat
      BY LeftIsNat DEF IInv, TypeOK
<1>2. CASE Unmoved(r)
  <2>1. AwaitsLeft(r)' = AwaitsLeft(r)
        BY <1>2 DEF AwaitsLeft, BlocksLeft, Unmoved
  <2> QED BY <1>1, <2>1
<1>3. CASE Restart
  <2>1. pc'[r] \in Over
        BY <1>3 DEF Restart, Over
  <2>2. AwaitsLeft(r)' = 0
        BY <2>1 DEF AwaitsLeft, Over
  <2> QED BY <1>1, <2>2
<1> QED BY <1>2, <1>3

\* A request that has begun and is not over can go on, whatever became of its
\* session.
THEOREM NoRequestIsStuck ==
    Spec => [](\A r \in Requests : pc[r] \notin Over \cup {"new"} => HasWork(r))
<1>1. IInv => \A r \in Requests : pc[r] \notin Over \cup {"new"} => HasWork(r)
      BY WorkRemains
<1> QED BY <1>1, Invariance, PTL

\* Its own steps are at most AwaitsLeft many, and no other step adds one.
THEOREM EveryStepCounts ==
    Spec => [][\A r \in Requests : pc[r] # "new" =>
                  /\ AwaitsLeft(r)' <= AwaitsLeft(r)
                  /\ Work(r) => AwaitsLeft(r)' < AwaitsLeft(r)]_vars
<1> DEFINE Nearer(r) == pc[r] # "new" =>
                  /\ AwaitsLeft(r)' <= AwaitsLeft(r)
                  /\ Work(r) => AwaitsLeft(r)' < AwaitsLeft(r)
<1>1. IInv /\ [Next]_vars => [\A r \in Requests : Nearer(r)]_vars
  <2> SUFFICES ASSUME IInv, Next, NEW r \in Requests, pc[r] # "new"
               PROVE  /\ AwaitsLeft(r)' <= AwaitsLeft(r)
                      /\ Work(r) => AwaitsLeft(r)' < AwaitsLeft(r)
      OBVIOUS
  <2>1. CASE Work(r)
    <3>1. AwaitsLeft(r)' < AwaitsLeft(r)
          BY <2>1, WorkShortens
    <3>2. AwaitsLeft(r) \in Nat
          BY LeftIsNat DEF IInv, TypeOK
    <3>3. AwaitsLeft(r)' \in Nat
      <4>1. pc'[r] \in Pcs /\ deltas'[r] \in 0..MaxDeltas + 1 /\ block'[r] \in 1..MaxBlocks + 1
            BY TypeStep DEF TypeOK
      <4>2. BlocksLeft(r)' \in Nat
            BY <4>1, ExchangeAssumption DEF BlocksLeft
      <4> QED BY <4>1, <4>2, ExchangeAssumption DEF AwaitsLeft, Over, Pcs
    <3> QED BY <3>1, <3>2, <3>3
  <2>2. CASE ~ Work(r)
    <3>1. Unmoved(r) \/ Restart
      <4>1. ASSUME NEW q \in Requests, q # r, Step(q) PROVE Unmoved(r)
            BY <4>1, Frame DEF IInv, Same, SameFiles, Unmoved
      <4>2. ASSUME Refuse(r) \/ (\E s \in Sessions : ResolveSession(r, s)) PROVE FALSE
            BY <4>2 DEF Refuse, ResolveSession
      <4>3. ASSUME NEW s \in Sessions, DeleteSession(s) PROVE Unmoved(r)
            BY <4>3 DEF DeleteSession, artifacts, Unmoved
      <4>4. ASSUME NEW q \in Requests, NEW i \in 1..MaxBlocks, DeleteFile(q, i)
            PROVE  Unmoved(r)
            BY <4>4 DEF DeleteFile, conversation, Unmoved
      <4> QED BY <2>2, <4>1, <4>2, <4>3, <4>4 DEF Next, Step
    <3> QED BY <2>2, <3>1, OthersDoNotLengthen
  <2> QED BY <2>1, <2>2
<1> QED BY <1>1, Invariance, PTL DEF Spec
=============================================================================
