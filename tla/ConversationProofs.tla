-------------------------- MODULE ConversationProofs -------------------------
(***************************************************************************)
(* Theorems about Conversations, for any number of turns, sessions and     *)
(* failures.  Most steps of a turn leave the messages alone; those are     *)
(* Quiet, and the proofs treat them as one.                                *)
(***************************************************************************)
EXTENDS Conversations, TLAPS

-----------------------------------------------------------------------------
(* Types *)

\* A request that is under way has a copy of the document.
CopiesLoaded == \A t \in Running : turn[t].conv \in Conversation

TypeInv == TypeOK /\ CopiesLoaded

USE DEF _SESSION_RETRY_LIMIT, Endings

\* An ended request is a request, and is not running.
LEMMA EndedType ==
    ASSUME NEW sent \in Endings
    PROVE  /\ Ended(sent) \in Request
           /\ Ended(sent).pc = "over"
    BY DEF Ended, Blank, Request

\* Only a loaded conversation differs from NoDoc.
LEMMA NoDocApart == NoDoc \notin Conversation
    BY DEF NoDoc, Conversation

\* The initial states satisfy the invariant.
LEMMA InitType == Init => TypeInv
    <1> SUFFICES ASSUME Init PROVE TypeInv
        OBVIOUS
    <1>1. doc \in Conversation /\ engine \in [Sessions -> {"unused", "live", "gone"}]
        BY DEF Init, Conversation
    <1>2. Unsent \in Request
        BY DEF Unsent, Blank, Request
    <1>3. turn \in [Turns -> Request] /\ Running = {}
        BY <1>2 DEF Init, Running, Unsent, Blank
    <1>4. QED
        BY <1>1, <1>3, ConversationAssumption DEF Init, TypeInv, TypeOK, CopiesLoaded

\* A step that puts a well-formed request in the place of t's keeps the types
\* of turn.
LEMMA TurnType ==
    ASSUME TypeInv, NEW t \in Turns, NEW r \in Request,
           turn' = [turn EXCEPT ![t] = r],
           r.pc \notin {"unsent", "over"} => r.conv \in Conversation
    PROVE  (turn \in [Turns -> Request])' /\ CopiesLoaded'
    <1>1. turn' \in [Turns -> Request] /\ turn'[t] = r
        BY DEF TypeInv, TypeOK
    <1>2. \A u \in Turns : u # t => turn'[u] = turn[u]
        BY DEF TypeInv, TypeOK
    <1>3. QED
        BY <1>1, <1>2 DEF TypeInv, CopiesLoaded, Running

\* What append_message makes of a copy is a conversation.
LEMMA AppendedType ==
    ASSUME NEW t \in Turns, turn[t].conv \in Conversation, NEW role \in Roles
    PROVE  /\ Appended(t, role) \in Conversation
           /\ Appended(t, role).messages = Append(turn[t].conv.messages, <<t, role>>)
           /\ Appended(t, role).session = turn[t].conv.session
           /\ Appended(t, role).status = turn[t].conv.status
           /\ Appended(t, role).mode = turn[t].conv.mode
    <1>1. Append(turn[t].conv.messages, <<t, role>>) \in Seq(Turns \X Roles)
        BY DEF Conversation
    <1>2. QED
        BY <1>1 DEF Appended, Conversation

\* A step of turn t that says nothing: a copy it goes on with has the messages,
\* the status and the mode it had, and so has the document.
SameDialogue(a, b) ==
    /\ a \in Conversation
    /\ b.messages = a.messages
    /\ b.status = a.status
    /\ b.mode = a.mode

Goes(t, r) ==
    /\ turn' = [turn EXCEPT ![t] = r]
    /\ r.pc # "over" => /\ turn[t].pc # "append"
                        /\ r.pc \notin {"unsent", "append"}
                        /\ SameDialogue(r.conv, turn[t].conv)
                        /\ r.sent \in {turn[t].sent, "done"}

Quiet(t) ==
    /\ t \in Running
    /\ \E r \in Request : Goes(t, r)
    /\ doc' = doc \/ (Exists /\ SameDialogue(doc', doc))
    /\ UNCHANGED <<stored, wanted, overlapped>>

QuietAction(t) ==
    \/ AppendFails(t) \/ AskAboutClaim(t) \/ SetupFails(t) \/ EnsureSession(t)
    \/ EnsureFails(t) \/ PersistSession(t) \/ Query(t) \/ RecreateSession(t)
    \/ RecreateFails(t) \/ Chunk(t) \/ Finish(t) \/ StreamFails(t) \/ Pause(t)
    \/ SaveFails(t) \/ Disconnect(t)

\* What a running turn holds.
LEMMA RunningType ==
    ASSUME TypeInv, NEW t \in Running
    PROVE  turn[t] \in Request /\ turn[t].conv \in Conversation
    BY DEF TypeInv, TypeOK, CopiesLoaded, Running

\* A turn that is given up.
LEMMA EndsQuietly ==
    ASSUME NEW t, NEW sent \in Endings,
           turn' = [turn EXCEPT ![t] = Ended(sent)]
    PROVE  \E r \in Request : Goes(t, r)
    BY EndedType DEF Goes

\* A turn that goes on with its copy.
LEMMA GoesOn ==
    ASSUME TypeInv, NEW t \in Running, turn[t].pc # "append",
           NEW r \in Request, turn' = [turn EXCEPT ![t] = r],
           r.conv = turn[t].conv, r.pc \notin {"unsent", "append"},
           r.sent \in {turn[t].sent, "done"}
    PROVE  \E q \in Request : Goes(t, q)
    BY RunningType DEF Goes, SameDialogue

\* A request with a new session.
LEMMA WithSessionType ==
    ASSUME TypeInv, NEW t \in Running, NEW s \in Sessions
    PROVE  /\ WithSession(t, s) \in Request
           /\ WithSession(t, s).pc = "persist"
           /\ WithSession(t, s).retries = turn[t].retries
           /\ WithSession(t, s).spoke = turn[t].spoke
           /\ WithSession(t, s).session = s
           /\ WithSession(t, s).sent = turn[t].sent
           /\ WithSession(t, s).conv.session = s
           /\ SameDialogue(WithSession(t, s).conv, turn[t].conv)
    <1>1. turn[t] \in Request /\ turn[t].conv \in Conversation
        BY RunningType
    <1>2. [turn[t].conv EXCEPT !.session = s] \in Conversation
        BY <1>1 DEF Conversation
    <1>3. WithSession(t, s) \in Request
        BY <1>1, <1>2 DEF WithSession, Request
    <1>4. QED
        BY <1>1, <1>2, <1>3 DEF WithSession, SameDialogue, Request, Conversation

\* The actions that are quiet.
LEMMA QuietStep == ASSUME TypeInv, NEW t \in Turns, QuietAction(t) PROVE Quiet(t)
    <1>1. CASE AppendFails(t) \/ SetupFails(t)
        BY <1>1, EndsQuietly DEF AppendFails, SetupFails, Step, Quiet, Running
    <1>2. CASE AskAboutClaim(t)
        <2>1. t \in Running /\ turn[t].pc = "setup" /\ UNCHANGED <<doc, stored, wanted, overlapped>>
            BY <1>2 DEF AskAboutClaim, Step, Running
        <2> DEFINE r == [turn[t] EXCEPT !.pc = "stream"]
        <2>2. r \in Request /\ r.conv = turn[t].conv /\ r.pc = "stream" /\ r.sent = turn[t].sent
            BY <2>1, RunningType DEF Request
        <2>3. QED
            BY <1>2, <2>1, <2>2, GoesOn DEF AskAboutClaim, Step, Quiet
    <1>3. CASE EnsureSession(t)
        <2>1. t \in Running /\ turn[t].pc = "setup" /\ UNCHANGED <<doc, stored, wanted, overlapped>>
            BY <1>3 DEF EnsureSession, Step, Running
        <2>2. PICK s \in Sessions : turn' = [turn EXCEPT ![t] = WithSession(t, s)]
            BY <1>3 DEF EnsureSession, Step
        <2>3. QED
            BY <2>1, <2>2, WithSessionType DEF Quiet, Goes
    <1>4. CASE EnsureFails(t)
        <2>1. t \in Running /\ turn[t].pc = "setup" /\ UNCHANGED <<doc, stored, wanted, overlapped>>
            BY <1>4 DEF EnsureFails, Step, Running
        <2> DEFINE r == [turn[t] EXCEPT !.pc = "query", !.session = None]
        <2>2. r \in Request /\ r.conv = turn[t].conv /\ r.pc = "query" /\ r.sent = turn[t].sent
            BY <2>1, RunningType DEF Request
        <2>3. QED
            BY <1>4, <2>1, <2>2, GoesOn DEF EnsureFails, Step, Quiet
    <1>5. CASE PersistSession(t)
        <2>1. t \in Running /\ turn[t].pc = "persist" /\ UNCHANGED <<stored, wanted, overlapped>>
            BY <1>5 DEF PersistSession, Step, Running
        <2> DEFINE r == [turn[t] EXCEPT !.pc = IF turn[t].retries > 0 THEN "setup" ELSE "query"]
        <2>2. r \in Request /\ r.conv = turn[t].conv /\ r.pc \in {"setup", "query"} /\ r.sent = turn[t].sent
            BY <2>1, RunningType DEF Request
        <2>3. doc' = doc \/ (Exists /\ SameDialogue(doc', doc))
            <3>1. turn[t].session \in Sessions \cup {None}
                BY <2>1, RunningType DEF Request
            <3>2. ASSUME doc \in Conversation
                  PROVE  SameDialogue([doc EXCEPT !.session = turn[t].session], doc)
                BY <3>1, <3>2 DEF SameDialogue, Conversation
            <3>3. QED
                BY <1>5, <3>2 DEF PersistSession, SessionSet, Exists, TypeInv, TypeOK
        <2>4. turn' = [turn EXCEPT ![t] = r]
            BY <1>5 DEF PersistSession, Step
        <2>5. QED
            BY <2>1, <2>2, <2>3, <2>4, GoesOn DEF Quiet
    <1>6. CASE Query(t)
        <2>1. t \in Running /\ turn[t].pc \in {"setup", "query"} /\ UNCHANGED <<doc, stored, wanted, overlapped>>
            BY <1>6 DEF Query, Asks, Running
        <2> DEFINE r == [turn[t] EXCEPT !.pc = "stream"]
        <2>2. r \in Request /\ r.conv = turn[t].conv /\ r.pc = "stream" /\ r.sent = turn[t].sent
            BY <2>1, RunningType DEF Request
        <2>3. turn' = [turn EXCEPT ![t] = r]
            BY <1>6 DEF Query
        <2>4. QED
            BY <2>1, <2>2, <2>3, GoesOn DEF Quiet
    <1>7. CASE RecreateSession(t)
        <2>1. t \in Running /\ turn[t].pc \in {"setup", "query"} /\ UNCHANGED <<doc, stored, wanted, overlapped>>
            BY <1>7 DEF RecreateSession, NotFound, Asks, Running
        <2>2. PICK s \in Sessions :
                  turn' = [turn EXCEPT ![t] = [WithSession(t, s) EXCEPT !.retries = @ + 1]]
            BY <1>7 DEF RecreateSession
        <2> DEFINE r == [WithSession(t, s) EXCEPT !.retries = @ + 1]
        <2>3. turn[t].retries + 1 \in 0 .. _SESSION_RETRY_LIMIT
            BY <1>7, <2>1, RunningType DEF RecreateSession, MayRetry, Request
        <2>4. r \in Request /\ r.conv = WithSession(t, s).conv /\ r.pc = "persist" /\ r.sent = turn[t].sent
            BY <2>1, <2>3, WithSessionType DEF Request
        <2>5. Goes(t, r)
            BY <2>1, <2>2, <2>4, WithSessionType DEF Goes
        <2>6. QED
            BY <2>1, <2>4, <2>5 DEF Quiet
    <1>8. CASE RecreateFails(t)
        BY <1>8, EndsQuietly DEF RecreateFails, NotFound, Asks, Quiet, Running
    <1>9. CASE Chunk(t)
        <2>1. t \in Running /\ turn[t].pc = "stream" /\ UNCHANGED <<doc, stored, wanted, overlapped>>
            BY <1>9 DEF Chunk, Step, Running
        <2> DEFINE r == [turn[t] EXCEPT !.spoke = TRUE]
        <2>2. r \in Request /\ r.conv = turn[t].conv /\ r.pc = "stream" /\ r.sent = turn[t].sent
            BY <2>1, RunningType DEF Request
        <2>3. QED
            BY <1>9, <2>1, <2>2, GoesOn DEF Chunk, Step, Quiet
    <1>10. ASSUME NEW spoke \in BOOLEAN, NEW sent \in {turn[t].sent, "done"},
                  t \in Running, turn[t].pc # "append",
                  turn' = [turn EXCEPT ![t] = AfterStream(t, spoke, sent)]
           PROVE  \E r \in Request : Goes(t, r)
        <2>1. CASE spoke
            <3> DEFINE r == [turn[t] EXCEPT !.pc = "save", !.spoke = TRUE, !.sent = sent]
            <3>1. r \in Request /\ r.conv = turn[t].conv /\ r.pc = "save" /\ r.sent = sent
                BY <1>10, RunningType DEF Request
            <3>2. QED
                BY <1>10, <2>1, <3>1, GoesOn DEF AfterStream
        <2>2. CASE ~spoke
            BY <1>10, <2>2, EndsQuietly, RunningType DEF AfterStream, Request
        <2>3. QED
            BY <2>1, <2>2
    <1>11. CASE Finish(t)
        <2>1. t \in Running /\ turn[t].pc = "stream" /\ UNCHANGED <<doc, stored, wanted, overlapped>>
            BY <1>11 DEF Finish, Step, Running
        <2>2. /\ (turn[t].spoke \/ turn[t].conv.mode = "general") \in BOOLEAN
              /\ turn' = [turn EXCEPT ![t] =
                             AfterStream(t, turn[t].spoke \/ turn[t].conv.mode = "general", "done")]
            BY <1>11 DEF Finish, Step
        <2>3. \E r \in Request : Goes(t, r)
            BY <1>10, <2>1, <2>2
        <2>4. QED
            BY <2>1, <2>3 DEF Quiet
    <1>12. CASE StreamFails(t)
        BY <1>12, EndsQuietly DEF StreamFails, Step, Quiet, Running
    <1>13. CASE Pause(t)
        <2>1. t \in Running /\ turn[t].pc # "append" /\ UNCHANGED <<doc, stored, wanted, overlapped>>
            BY <1>13 DEF Pause, Running
        <2>2. turn[t].spoke \in BOOLEAN /\ turn[t].sent \in Endings
            BY <2>1, RunningType DEF Request
        <2>3. QED
            BY <1>10, <1>13, <2>1, <2>2 DEF Pause, Quiet
    <1>14. CASE SaveFails(t)
        <2>1. t \in Running /\ UNCHANGED <<doc, stored, wanted, overlapped>>
            BY <1>14 DEF SaveFails, Step, Running
        <2>2. turn[t].sent \in Endings
            BY <2>1, RunningType DEF Request
        <2>3. QED
            BY <1>14, <2>1, <2>2, EndsQuietly DEF SaveFails, Step, Closed, Quiet
    <1>15. CASE Disconnect(t)
        <2> DEFINE sent == IF turn[t].sent = "none" THEN "cut" ELSE turn[t].sent
        <2>1. turn' = [turn EXCEPT ![t] = Ended(sent)] /\ t \in Running
            BY <1>15 DEF Disconnect
        <2>2. sent \in Endings
            BY <2>1, RunningType DEF Request, Endings
        <2>3. QED
            BY <1>15, <2>1, <2>2, EndsQuietly DEF Disconnect, Quiet
    <1>16. QED
        BY <1>1, <1>2, <1>3, <1>4, <1>5, <1>6, <1>7, <1>8, <1>9, <1>11, <1>12, <1>13,
           <1>14, <1>15 DEF QuietAction

\* A quiet step keeps the types of the document and of the requests.
LEMMA QuietType ==
    ASSUME TypeInv, NEW t \in Turns, Quiet(t)
    PROVE  /\ doc' \in Conversation \cup {NoDoc}
           /\ (turn \in [Turns -> Request])' /\ CopiesLoaded'
    <1>1. PICK r \in Request : Goes(t, r)
        BY DEF Quiet
    <1>2. turn' = [turn EXCEPT ![t] = r] /\ (r.pc # "over" => r.conv \in Conversation)
        BY <1>1 DEF Goes, SameDialogue
    <1>3. doc' \in Conversation \cup {NoDoc}
        BY DEF Quiet, SameDialogue, TypeInv, TypeOK
    <1>4. QED
        BY <1>2, <1>3, TurnType

\* And it keeps those of the engine, whichever action it is.
LEMMA EngineType ==
    ASSUME TypeInv, NEW t \in Turns, QuietAction(t)
    PROVE  /\ engine' \in [Sessions -> {"unused", "live", "gone"}]
           /\ memory' \in [Sessions -> SUBSET Turns]
           /\ faults' \in 0..MaxFaults
           /\ lapsed' \subseteq Turns
    <1> USE ConversationAssumption
    <1>1. CASE AppendFails(t) \/ SetupFails(t) \/ EnsureFails(t) \/ SaveFails(t)
        BY <1>1 DEF AppendFails, SetupFails, EnsureFails, SaveFails, Fault, TypeInv, TypeOK
    <1>2. CASE AskAboutClaim(t) \/ Chunk(t) \/ Finish(t) \/ StreamFails(t) \/ Pause(t)
               \/ Disconnect(t)
        BY <1>2 DEF AskAboutClaim, Chunk, Finish, StreamFails, Pause, Disconnect,
                    TypeInv, TypeOK
    <1>3. CASE EnsureSession(t) \/ RecreateSession(t)
        BY <1>3 DEF EnsureSession, RecreateSession, NewSession, TypeInv, TypeOK
    <1>4. CASE PersistSession(t)
        BY <1>4 DEF PersistSession, Fault, TypeInv, TypeOK
    <1>5. CASE Query(t)
        <2>1. PICK session \in Sessions \cup {None} :
                  \/ session = None /\ lapsed' = lapsed \cup {t} /\ UNCHANGED memory
                  \/ /\ session # None
                     /\ memory' = [memory EXCEPT ![session] = @ \cup {t}]
                     /\ UNCHANGED lapsed
            BY <1>5 DEF Query
        <2>2. QED
            BY <1>5, <2>1 DEF Query, TypeInv, TypeOK
    <1>6. CASE RecreateFails(t)
        BY <1>6 DEF RecreateFails, Fault, TypeInv, TypeOK
    <1>7. QED
        BY <1>1, <1>2, <1>3, <1>4, <1>5, <1>6 DEF QuietAction

\* Each step keeps the invariant: one case per action that is not quiet.
LEMMA StepType == TypeInv /\ [Next]_vars => TypeInv'
    <1> SUFFICES ASSUME TypeInv, [Next]_vars PROVE TypeInv'
        OBVIOUS
    <1>1. ASSUME NEW t \in Turns, QuietAction(t), UNCHANGED bubble PROVE TypeInv'
        <2>1. Quiet(t)
            BY <1>1, QuietStep
        <2>2. QED
            BY <1>1, <2>1, QuietType, EngineType DEF Quiet, TypeInv, TypeOK
    <1>2. ASSUME NEW t \in Turns, Load(t), UNCHANGED bubble PROVE TypeInv'
        <2> DEFINE r == IF Exists THEN [turn[t] EXCEPT !.pc = "append", !.conv = doc]
                                  ELSE Ended("error")
        <2>1. r \in Request /\ (r.pc # "over" => r.conv \in Conversation)
            BY EndedType DEF TypeInv, TypeOK, Exists, Request
        <2>2. turn' = [turn EXCEPT ![t] = r]
            BY <1>2 DEF Load, Step
        <2>3. overlapped' \subseteq Turns \cup {"patch", "delete"}
            BY <1>2 DEF Load, Running, TypeInv, TypeOK
        <2>4. QED
            BY <1>2, <2>1, <2>2, <2>3, TurnType DEF Load, TypeInv, TypeOK
    <1>3. ASSUME NEW t \in Turns, AppendQuestion(t), UNCHANGED bubble PROVE TypeInv'
        <2> DEFINE r == [turn[t] EXCEPT !.pc = "setup", !.conv = Appended(t, "user")]
        <2>1. turn[t] \in Request /\ turn[t].conv \in Conversation
            BY <1>3, RunningType DEF AppendQuestion, Step, Running
        <2>2. Appended(t, "user") \in Conversation
            BY <2>1, AppendedType DEF Roles
        <2>3. r \in Request /\ r.conv \in Conversation
            BY <2>1, <2>2 DEF Request
        <2>4. turn' = [turn EXCEPT ![t] = r]
            BY <1>3 DEF AppendQuestion, Step
        <2>5. <<t, "user">> \in Turns \X Roles
            BY DEF Roles
        <2>6. QED
            BY <1>3, <2>2, <2>3, <2>4, <2>5, TurnType DEF AppendQuestion, TypeInv, TypeOK
    <1>4. ASSUME NEW t \in Turns, SaveReply(t), UNCHANGED bubble PROVE TypeInv'
        <2>1. t \in Running
            BY <1>4 DEF SaveReply, Step, Running
        <2>2. Appended(t, "assistant") \in Conversation /\ <<t, "assistant">> \in Turns \X Roles
            BY <2>1, RunningType, AppendedType DEF Roles
        <2>3. Closed(t) \in Request /\ Closed(t).pc = "over"
            BY <2>1, RunningType, EndedType DEF Closed, Request
        <2>4. turn' = [turn EXCEPT ![t] = Closed(t)]
            BY <1>4 DEF SaveReply, Step
        <2>5. QED
            BY <1>4, <2>2, <2>3, <2>4, TurnType DEF SaveReply, TypeInv, TypeOK
    <1>5. ASSUME NEW status \in {"active", "archived"}, Patch(status), UNCHANGED bubble
          PROVE  TypeInv'
        <2>1. doc \in Conversation /\ doc' = [doc EXCEPT !.status = status]
            <3>1. doc \in Conversation \cup {NoDoc} /\ doc # NoDoc
                BY <1>5 DEF Patch, Exists, TypeInv, TypeOK
            <3>2. QED
                BY <1>5, <3>1 DEF Patch
        <2>2. doc' \in Conversation
            BY <2>1 DEF Conversation
        <2>3. QED
            BY <1>5, <2>2 DEF Patch, Beside, TypeInv, TypeOK, CopiesLoaded, Running
    <1>6. CASE Delete /\ UNCHANGED bubble
        BY <1>6 DEF Delete, Beside, TypeInv, TypeOK, CopiesLoaded, Running
    <1>7. CASE Redeploy /\ UNCHANGED bubble
        <2>1. engine' \in [Sessions -> {"unused", "live", "gone"}] /\ faults' \in 0..MaxFaults
            BY <1>7, ConversationAssumption DEF Redeploy, Fault, TypeInv, TypeOK
        <2>2. lapsed' \subseteq Turns
            BY <1>7 DEF Redeploy, TypeInv, TypeOK
        <2>3. QED
            BY <1>7, <2>1, <2>2 DEF Redeploy, TypeInv, TypeOK, CopiesLoaded, Running
    <1>8. ASSUME NEW t \in Turns, Read(t) \/ Leave(t), UNCHANGED gatewayVars
          PROVE  TypeInv'
        <2>1. bubble' \in [Turns -> {"waiting", "done", "failed", "cancelled"}]
            <3>1. turn[t].sent \in Endings
                BY DEF TypeInv, TypeOK, Request
            <3>2. QED
                BY <1>8, <3>1 DEF Read, Leave, Endings, TypeInv, TypeOK
        <2>2. QED
            BY <1>8, <2>1 DEF gatewayVars, TypeInv, TypeOK, CopiesLoaded, Running
    <1>9. CASE UNCHANGED vars
        BY <1>9 DEF vars, gatewayVars, TypeInv, TypeOK, CopiesLoaded, Running
    <1>10. QED
        BY <1>1, <1>2, <1>3, <1>4, <1>5, <1>6, <1>7, <1>8, <1>9
           DEF Next, GatewayNext, QuietAction

\* Every reachable state is well typed, and no question is asked again more than
\* _SESSION_RETRY_LIMIT times.
THEOREM TypeCorrect == Spec => []TypeOK
    <1>1. TypeInv => TypeOK
        BY DEF TypeInv
    <1>2. QED
        BY InitType, StepType, <1>1, PTL DEF Spec

-----------------------------------------------------------------------------
(* The dialogue *)

\* What a conversation holds of a turn follows from how far that turn has come.
Told(requests, messages) ==
    \A i \in DOMAIN messages :
        /\ messages[i][2] = "user" => requests[messages[i][1]].pc \notin {"unsent", "append"}
        /\ messages[i][2] = "assistant" => requests[messages[i][1]].pc = "over"

Sound(requests, conv) == IsDialogue(conv.messages) /\ Told(requests, conv.messages)

\* The copy of a turn that has asked ends with its question.
Asked(t, conv) ==
    /\ Len(conv.messages) > 0
    /\ conv.messages[Len(conv.messages)] = <<t, "user">>

\* ReplyFollowsQuestion for the document and for each copy that may replace it.
DialogueInv ==
    /\ Exists => Sound(turn, doc)
    /\ \A t \in Running :
        /\ Sound(turn, turn[t].conv)
        /\ turn[t].pc # "append" => Asked(t, turn[t].conv)

\* A new message keeps a dialogue, when a reply is put below its question.
LEMMA DialogueAppended ==
    ASSUME NEW messages \in Seq(Turns \X Roles), IsDialogue(messages),
           NEW m \in Turns \X Roles,
           \A i \in DOMAIN messages : messages[i] # m,
           m[2] = "assistant" =>
               Len(messages) > 0 /\ messages[Len(messages)] = <<m[1], "user">>
    PROVE  IsDialogue(Append(messages, m))
    <1> DEFINE longer == Append(messages, m)
               n == Len(messages)
    <1>1. /\ n \in Nat /\ DOMAIN messages = 1..n /\ DOMAIN longer = 1..(n + 1)
          /\ \A i \in 1..n : longer[i] = messages[i]
          /\ longer[n + 1] = m
          /\ \A i \in 1..n : messages[i] # m
          /\ m[2] = "assistant" => n > 0 /\ messages[n] = <<m[1], "user">>
        OBVIOUS
    <1>2. \A i, j \in 1..n : messages[i] = messages[j] => i = j
        BY <1>1 DEF IsDialogue, IsInjective
    <1> HIDE DEF longer, n
    <1>3. ASSUME NEW i \in 1..(n + 1), NEW j \in 1..(n + 1), longer[i] = longer[j]
          PROVE  i = j
        <2>1. CASE i \in 1..n /\ j \in 1..n
            BY <1>1, <1>3, <1>2, <2>1
        <2>2. CASE i = n + 1 \/ j = n + 1
            BY <1>1, <1>3, <2>2
        <2>3. QED
            BY <1>1, <2>1, <2>2
    <1>4. ASSUME NEW i \in 1..(n + 1), longer[i][2] = "assistant"
          PROVE  i > 1 /\ longer[i - 1] = <<longer[i][1], "user">>
        <2>1. CASE i \in 1..n
            <3>1. i > 1 /\ messages[i - 1] = <<messages[i][1], "user">>
                BY <1>1, <1>4, <2>1 DEF IsDialogue
            <3>2. QED
                BY <1>1, <2>1, <3>1
        <2>2. CASE i = n + 1
            BY <1>1, <1>4, <2>2
        <2>3. QED
            BY <1>1, <2>1, <2>2
    <1>5. QED
        BY <1>1, <1>3, <1>4 DEF IsDialogue, IsInjective, longer

\* A turn that goes forward makes nothing untrue of what is told.
LEMMA ToldKept ==
    ASSUME turn \in [Turns -> Request], NEW t \in Turns, NEW r,
           turn' = [turn EXCEPT ![t] = r],
           turn[t].pc # "over",
           r.pc \in {"unsent", "append"} => turn[t].pc \in {"unsent", "append"},
           NEW messages \in Seq(Turns \X Roles), Told(turn, messages)
    PROVE  Told(turn', messages)
    <1> SUFFICES ASSUME NEW i \in DOMAIN messages
                 PROVE  /\ messages[i][2] = "user" =>
                               turn'[messages[i][1]].pc \notin {"unsent", "append"}
                        /\ messages[i][2] = "assistant" => turn'[messages[i][1]].pc = "over"
        BY DEF Told
    <1>1. messages[i] \in Turns \X Roles /\ messages[i][1] \in Turns
        OBVIOUS
    <1>2. /\ messages[i][2] = "user" => turn[messages[i][1]].pc \notin {"unsent", "append"}
          /\ messages[i][2] = "assistant" => turn[messages[i][1]].pc = "over"
        BY DEF Told
    <1>3. CASE messages[i][1] = t
        BY <1>1, <1>2, <1>3
    <1>4. CASE messages[i][1] # t
        BY <1>1, <1>2, <1>4
    <1>5. QED
        BY <1>3, <1>4

\* One turn goes forward, and leaves a sound document and a sound copy.
LEMMA OneTurn ==
    ASSUME TypeInv, DialogueInv, NEW t \in Turns, NEW r \in Request,
           turn' = [turn EXCEPT ![t] = r],
           turn[t].pc # "over",
           r.pc \in {"unsent", "append"} => turn[t].pc \in {"unsent", "append"},
           doc' = doc \/ (Exists' => Sound(turn', doc')),
           r.pc \notin {"unsent", "over"} => Sound(turn', r.conv),
           r.pc \notin {"unsent", "append", "over"} => Asked(t, r.conv)
    PROVE  DialogueInv'
    <1>1. turn \in [Turns -> Request] /\ turn'[t] = r /\ t \in DOMAIN turn
        BY DEF TypeInv, TypeOK
    <1>2. ASSUME NEW u \in Running', u # t
          PROVE  Sound(turn', turn'[u].conv) /\ (turn'[u].pc # "append" => Asked(u, turn'[u].conv))
        <2>1. u \in Running /\ turn'[u] = turn[u]
            BY <1>1, <1>2 DEF Running
        <2>2. turn[u].conv.messages \in Seq(Turns \X Roles)
            BY <2>1, RunningType DEF Conversation
        <2>3. Sound(turn, turn[u].conv) /\ (turn[u].pc # "append" => Asked(u, turn[u].conv))
            BY <2>1 DEF DialogueInv
        <2>4. QED
            BY <1>1, <2>1, <2>2, <2>3, ToldKept DEF Sound
    <1>3. Exists' => Sound(turn', doc')
        <2>1. CASE doc' = doc
            <3>1. Exists => doc.messages \in Seq(Turns \X Roles)
                BY DEF TypeInv, TypeOK, Exists, Conversation
            <3>2. QED
                BY <1>1, <2>1, <3>1, ToldKept DEF Sound, DialogueInv, Exists
        <2>2. QED
            BY <2>1
    <1>4. QED
        BY <1>1, <1>2, <1>3 DEF DialogueInv, Running

LEMMA InitDialogue == Init => DialogueInv
    <1> SUFFICES ASSUME Init PROVE DialogueInv
        OBVIOUS
    <1>1. doc.messages = <<>> /\ Running = {}
        BY DEF Init, Running, Unsent, Blank
    <1>2. QED
        BY <1>1 DEF DialogueInv, Sound, Told, IsDialogue, IsInjective

\* Each step keeps it: one case per action that writes a message or a copy.
LEMMA DialogueStep == TypeInv /\ DialogueInv /\ [Next]_vars => DialogueInv'
    <1> SUFFICES ASSUME TypeInv, DialogueInv, [Next]_vars PROVE DialogueInv'
        OBVIOUS
    <1>1. turn \in [Turns -> Request]
        BY DEF TypeInv, TypeOK
    <1>2. ASSUME NEW t \in Turns, QuietAction(t) PROVE DialogueInv'
        <2>1. Quiet(t) /\ t \in Running
            BY <1>2, QuietStep DEF Quiet
        <2>2. PICK r \in Request : Goes(t, r)
            BY <2>1 DEF Quiet
        <2>3. turn' = [turn EXCEPT ![t] = r] /\ turn[t].pc \notin {"unsent", "over"}
            BY <2>1, <2>2 DEF Goes, Running
        <2>4. r.pc \notin {"unsent", "append"} \/ r.pc = "over"
            BY <2>2 DEF Goes
        <2>5. ASSUME r.pc # "over"
              PROVE  Sound(turn', r.conv) /\ Asked(t, r.conv)
            <3>1. turn[t].pc # "append" /\ r.conv.messages = turn[t].conv.messages
                BY <2>2, <2>5 DEF Goes, SameDialogue
            <3>2. Sound(turn, turn[t].conv) /\ Asked(t, turn[t].conv)
                BY <2>1, <3>1 DEF DialogueInv
            <3>3. turn[t].conv.messages \in Seq(Turns \X Roles)
                BY <2>1, RunningType DEF Conversation
            <3>4. Told(turn', turn[t].conv.messages)
                BY <1>1, <2>3, <2>4, <3>2, <3>3, ToldKept DEF Sound
            <3>5. QED
                BY <3>1, <3>2, <3>4 DEF Sound, Asked
        <2>6. doc' = doc \/ (Exists' => Sound(turn', doc'))
            <3>1. CASE doc' # doc
                <4>1. SameDialogue(doc', doc) /\ Exists
                    BY <2>1, <3>1 DEF Quiet
                <4>2. Sound(turn, doc) /\ doc.messages \in Seq(Turns \X Roles)
                    BY <4>1 DEF DialogueInv, Exists, TypeInv, TypeOK, Conversation
                <4>3. Told(turn', doc.messages)
                    BY <1>1, <2>3, <2>4, <4>2, ToldKept DEF Sound
                <4>4. QED
                    BY <4>1, <4>2, <4>3 DEF Sound, SameDialogue
            <3>2. QED
                BY <3>1
        <2>7. QED
            BY <2>3, <2>4, <2>5, <2>6, OneTurn
    <1>3. ASSUME NEW t \in Turns, Load(t) PROVE DialogueInv'
        <2> DEFINE r == IF Exists THEN [turn[t] EXCEPT !.pc = "append", !.conv = doc]
                                  ELSE Ended("error")
        <2>1. /\ turn' = [turn EXCEPT ![t] = r] /\ turn[t].pc = "unsent"
              /\ doc' = doc
            BY <1>3 DEF Load, Step
        <2>2. CASE Exists
            <3>1. r \in Request /\ r.pc = "append" /\ r.conv = doc
                <4>1. turn[t] \in Request /\ doc \in Conversation
                    BY <1>1, <2>2 DEF TypeInv, TypeOK, Exists
                <4>2. QED
                    BY <2>2, <4>1 DEF Request
            <3>2. Sound(turn, doc) /\ doc.messages \in Seq(Turns \X Roles)
                BY <2>2 DEF DialogueInv, Exists, TypeInv, TypeOK, Conversation
            <3> HIDE DEF r
            <3>3. Told(turn', doc.messages)
                BY <1>1, <2>1, <3>2, ToldKept DEF Sound
            <3>4. QED
                BY <2>1, <3>1, <3>2, <3>3, OneTurn DEF Sound
        <2>3. CASE ~Exists
            <3>1. r \in Request /\ r.pc = "over"
                BY <2>3, EndedType
            <3> HIDE DEF r
            <3>2. QED
                BY <2>1, <3>1, OneTurn
        <2>4. QED
            BY <2>2, <2>3
    <1>4. ASSUME NEW t \in Turns, AppendQuestion(t) PROVE DialogueInv'
        <2> DEFINE r == [turn[t] EXCEPT !.pc = "setup", !.conv = Appended(t, "user")]
                   messages == turn[t].conv.messages
        <2>1. /\ t \in Running /\ turn[t].pc = "append"
              /\ turn' = [turn EXCEPT ![t] = r] /\ doc' = Appended(t, "user")
            BY <1>4 DEF AppendQuestion, Step, Running
        <2>2. turn[t].conv \in Conversation /\ messages \in Seq(Turns \X Roles)
            BY <2>1, RunningType DEF Conversation
        <2>3. Appended(t, "user") \in Conversation
              /\ Appended(t, "user").messages = Append(messages, <<t, "user">>)
            BY <2>2, AppendedType DEF Roles
        <2>4. r \in Request /\ r.pc = "setup" /\ r.conv = Appended(t, "user")
            BY <2>1, <2>3, RunningType DEF Request
        <2>5. IsDialogue(messages) /\ Told(turn, messages)
            BY <2>1 DEF DialogueInv, Sound
        <2>6. \A i \in DOMAIN messages : messages[i] # <<t, "user">>
            BY <2>1, <2>5 DEF Told
        <2>7. <<t, "user">> \in Turns \X Roles
            BY DEF Roles
        <2> HIDE DEF r, messages
        <2>8. IsDialogue(Append(messages, <<t, "user">>))
            BY <2>2, <2>5, <2>6, <2>7, DialogueAppended
        <2>9. Told(turn', Append(messages, <<t, "user">>))
            <3>1. Told(turn', messages)
                BY <1>1, <2>1, <2>2, <2>4, <2>5, ToldKept
            <3>2. turn'[t].pc = "setup"
                BY <1>1, <2>1, <2>4
            <3>3. QED
                BY <2>2, <2>7, <3>1, <3>2 DEF Told
        <2>10. Asked(t, Appended(t, "user"))
            BY <2>2, <2>3, <2>7 DEF Asked
        <2>11. Sound(turn', Appended(t, "user"))
            BY <2>3, <2>8, <2>9 DEF Sound
        <2>12. QED
            BY <2>1, <2>4, <2>10, <2>11, OneTurn
    <1>5. ASSUME NEW t \in Turns, SaveReply(t) PROVE DialogueInv'
        <2> DEFINE messages == turn[t].conv.messages
        <2>1. /\ t \in Running /\ turn[t].pc = "save"
              /\ turn' = [turn EXCEPT ![t] = Closed(t)] /\ doc' = Appended(t, "assistant")
            BY <1>5 DEF SaveReply, Step, Running
        <2>2. turn[t].conv \in Conversation /\ messages \in Seq(Turns \X Roles)
            BY <2>1, RunningType DEF Conversation
        <2>3. Appended(t, "assistant").messages = Append(messages, <<t, "assistant">>)
            BY <2>2, AppendedType DEF Roles
        <2>4. Closed(t) \in Request /\ Closed(t).pc = "over"
            BY <2>1, RunningType, EndedType DEF Closed, Request
        <2>5. /\ IsDialogue(messages) /\ Told(turn, messages)
              /\ Len(messages) > 0 /\ messages[Len(messages)] = <<t, "user">>
            BY <2>1 DEF DialogueInv, Sound, Asked
        <2>6. \A i \in DOMAIN messages : messages[i] # <<t, "assistant">>
            BY <2>1, <2>5 DEF Told
        <2>7. <<t, "assistant">> \in Turns \X Roles
            BY DEF Roles
        <2> HIDE DEF messages
        <2>8. IsDialogue(Append(messages, <<t, "assistant">>))
            BY <2>2, <2>5, <2>6, <2>7, DialogueAppended
        <2>9. Told(turn', Append(messages, <<t, "assistant">>))
            <3>1. Told(turn', messages)
                BY <1>1, <2>1, <2>2, <2>4, <2>5, ToldKept
            <3>2. turn'[t].pc = "over"
                BY <1>1, <2>1, <2>4
            <3>3. QED
                BY <2>2, <2>7, <3>1, <3>2 DEF Told
        <2>10. Sound(turn', Appended(t, "assistant"))
            BY <2>3, <2>8, <2>9 DEF Sound
        <2>11. QED
            BY <2>1, <2>4, <2>10, OneTurn
    <1>6. ASSUME NEW status \in {"active", "archived"}, Patch(status) PROVE DialogueInv'
        <2>1. doc \in Conversation \cup {NoDoc} /\ doc # NoDoc
            BY <1>6 DEF Patch, Exists, TypeInv, TypeOK
        <2>2. doc'.messages = doc.messages /\ turn' = turn
            BY <1>6, <2>1 DEF Patch, Conversation
        <2>3. QED
            BY <2>1, <2>2 DEF DialogueInv, Exists, Sound, Running
    <1>7. CASE Delete
        BY <1>7 DEF Delete, DialogueInv, Exists, Running
    <1>8. CASE Redeploy \/ UNCHANGED gatewayVars
        BY <1>8 DEF Redeploy, gatewayVars, DialogueInv, Exists, Running
    <1>9. QED
        BY <1>2, <1>3, <1>4, <1>5, <1>6, <1>7, <1>8 DEF Next, GatewayNext, QuietAction, vars

\* However many requests write over each other, the stored conversation has no
\* message twice and every reply directly below the question it answers.
THEOREM DialogueKept == Spec => []ReplyFollowsQuestion
    <1>1. DialogueInv => ReplyFollowsQuestion
        BY DEF DialogueInv, Sound, ReplyFollowsQuestion
    <1>2. QED
        BY InitType, StepType, InitDialogue, DialogueStep, <1>1, PTL DEF Spec

-----------------------------------------------------------------------------
(* What overlapping requests may lose *)

\* Requests that ran beside each other are all on record.
Recorded == \A t, u \in Running : t # u => t \in overlapped

\* Nothing but what was stored, and all of it but messages of recorded turns.
Holds(conv, said, beside) ==
    /\ ToSet(conv.messages) \subseteq said
    /\ \A m \in said : m[1] \in beside \/ m \in ToSet(conv.messages)

KeepsMessages ==
    /\ Exists => Holds(doc, stored, overlapped)
    /\ \A t \in Running : Holds(turn[t].conv, stored, overlapped)

\* No running copy can undo what the user made of the conversation.
KeepsStatus ==
    /\ wanted = "deleted" /\ "delete" \notin overlapped => ~Exists /\ Running = {}
    /\ wanted # "deleted" /\ "patch" \notin overlapped =>
        /\ Exists
        /\ doc.status = wanted
        /\ \A t \in Running : turn[t].conv.status = wanted

LossInv == Recorded /\ KeepsMessages /\ KeepsStatus

LEMMA InitLoss == Init => LossInv
    <1> SUFFICES ASSUME Init PROVE LossInv
        OBVIOUS
    <1>1. doc.status = "active" /\ ToSet(doc.messages) = {} /\ Running = {}
        BY DEF Init, Running, Unsent, Blank, ToSet
    <1>2. Exists
        BY DEF Init, Exists, NoDoc
    <1>3. QED
        BY <1>1, <1>2 DEF Init, LossInv, Recorded, KeepsMessages, Holds, KeepsStatus

\* The messages of a copy with one more appended to it.
LEMMA AppendedHolds ==
    ASSUME NEW t \in Turns, turn[t].conv \in Conversation, NEW role \in Roles
    PROVE  ToSet(Appended(t, role).messages) = ToSet(turn[t].conv.messages) \cup {<<t, role>>}
    <1> DEFINE messages == turn[t].conv.messages
               longer == Append(messages, <<t, role>>)
    <1>1. messages \in Seq(Turns \X Roles) /\ <<t, role>> \in Turns \X Roles
        BY DEF Conversation
    <1>2. Appended(t, role).messages = longer
        BY AppendedType
    <1> HIDE DEF messages
    <1>3. /\ DOMAIN messages = 1..Len(messages) /\ Len(messages) \in Nat
          /\ DOMAIN longer = 1..(Len(messages) + 1)
          /\ \A i \in 1..Len(messages) : longer[i] = messages[i]
          /\ longer[Len(messages) + 1] = <<t, role>>
        BY <1>1
    <1> HIDE DEF longer
    <1>4. /\ ToSet(messages) = {messages[i] : i \in DOMAIN messages}
          /\ ToSet(longer) = {longer[i] : i \in DOMAIN longer}
        BY DEF ToSet
    <1>5. <<t, role>> \in ToSet(longer)
        BY <1>3, <1>4
    <1>6. ASSUME NEW m \in ToSet(messages) PROVE m \in ToSet(longer)
        <2>1. PICK i \in 1..Len(messages) : m = messages[i]
            BY <1>3, <1>4
        <2>2. i \in DOMAIN longer /\ m = longer[i]
            BY <1>3, <2>1
        <2>3. QED
            BY <1>4, <2>2
    <1>7. ASSUME NEW m \in ToSet(longer) PROVE m \in ToSet(messages) \/ m = <<t, role>>
        <2>1. PICK i \in 1..(Len(messages) + 1) : m = longer[i]
            BY <1>3, <1>4
        <2>2. CASE i \in 1..Len(messages)
            BY <1>3, <1>4, <2>1, <2>2
        <2>3. CASE i = Len(messages) + 1
            BY <1>3, <2>1, <2>3
        <2>4. QED
            BY <1>3, <2>2, <2>3
    <1>8. QED
        BY <1>2, <1>5, <1>6, <1>7 DEF messages

\* A step of t that writes its copy with a message of its own into the document.
LEMMA WriteLoss ==
    ASSUME TypeInv, LossInv, NEW t \in Running, NEW role \in Roles, NEW r \in Request,
           turn' = [turn EXCEPT ![t] = r],
           r.pc \notin {"unsent", "over"} => r.conv = Appended(t, role),
           doc' = Appended(t, role),
           stored' = stored \cup {<<t, role>>},
           UNCHANGED <<wanted, overlapped>>
    PROVE  LossInv'
    <1>1. turn[t] \in Request /\ turn[t].conv \in Conversation /\ t \in Turns
        BY RunningType DEF Running
    <1>2. turn'[t] = r /\ \A u \in Turns : u # t => turn'[u] = turn[u]
        BY <1>1 DEF TypeInv, TypeOK
    <1>3. \A u \in Running' : u \in Running /\ (u # t => turn'[u] = turn[u])
        BY <1>1, <1>2 DEF Running
    <1>4. Recorded'
        BY <1>3 DEF LossInv, Recorded
    <1>5. Holds(Appended(t, role), stored', overlapped)
        BY <1>1, AppendedHolds DEF LossInv, KeepsMessages, Holds
    <1>6. ASSUME NEW u \in Running' PROVE Holds(turn'[u].conv, stored', overlapped)
        <2>1. CASE u = t
            BY <1>2, <1>5, <1>6, <2>1 DEF Running
        <2>2. CASE u # t
            <3>1. t \in overlapped /\ Holds(turn[u].conv, stored, overlapped)
                BY <1>3, <2>2 DEF LossInv, Recorded, KeepsMessages
            <3>2. QED
                BY <1>3, <2>2, <3>1 DEF Holds
        <2>3. QED
            BY <2>1, <2>2
    <1>7. KeepsMessages'
        BY <1>5, <1>6 DEF KeepsMessages, Holds
    <1>8. Appended(t, role) \in Conversation /\ Appended(t, role).status = turn[t].conv.status
        BY <1>1, AppendedType
    <1>9. wanted = "deleted" => "delete" \in overlapped
        BY DEF LossInv, KeepsStatus
    <1>10. \A u \in Running' :
               wanted # "deleted" /\ "patch" \notin overlapped => turn'[u].conv.status = wanted
        BY <1>2, <1>3, <1>8 DEF LossInv, KeepsStatus, Running
    <1>11. KeepsStatus'
        BY <1>8, <1>9, <1>10, NoDocApart DEF LossInv, KeepsStatus, Exists
    <1>12. QED
        BY <1>4, <1>7, <1>11 DEF LossInv

\* A step that stores nothing.
LEMMA QuietLoss ==
    ASSUME TypeInv, LossInv, NEW t \in Turns, Quiet(t)
    PROVE  LossInv'
    <1>1. PICK r \in Request : Goes(t, r)
        BY DEF Quiet
    <1>2. turn' = [turn EXCEPT ![t] = r] /\ t \in Running
        BY <1>1 DEF Goes, Quiet
    <1>3. turn'[t] = r /\ \A u \in Turns : u # t => turn'[u] = turn[u]
        BY <1>2 DEF TypeInv, TypeOK
    <1>4. ASSUME NEW u \in Running'
          PROVE  /\ u \in Running
                 /\ turn'[u].conv.messages = turn[u].conv.messages
                 /\ turn'[u].conv.status = turn[u].conv.status
        <2>1. u \in Turns /\ turn'[u].pc \notin {"unsent", "over"}
            BY DEF Running
        <2>2. CASE u = t
            BY <1>1, <1>2, <1>3, <2>1, <2>2 DEF Goes, SameDialogue
        <2>3. CASE u # t
            BY <1>3, <2>1, <2>3 DEF Running
        <2>4. QED
            BY <2>2, <2>3
    <1>5. /\ Exists' <=> Exists
          /\ Exists => doc'.messages = doc.messages /\ doc'.status = doc.status
        BY NoDocApart DEF Quiet, SameDialogue, Exists
    <1>6. UNCHANGED <<stored, wanted, overlapped>>
        BY DEF Quiet
    <1>7. Recorded'
        BY <1>4, <1>6 DEF LossInv, Recorded
    <1>8. KeepsMessages'
        BY <1>4, <1>5, <1>6 DEF LossInv, KeepsMessages, Holds
    <1>9. KeepsStatus'
        <2>1. Running' \subseteq Running
            BY <1>4
        <2>2. QED
            BY <1>4, <1>5, <1>6, <2>1 DEF LossInv, KeepsStatus
    <1>10. QED
        BY <1>7, <1>8, <1>9 DEF LossInv

LEMMA LoadLoss ==
    ASSUME TypeInv, LossInv, NEW t \in Turns, Load(t)
    PROVE  LossInv'
    <1> DEFINE r == IF Exists THEN [turn[t] EXCEPT !.pc = "append", !.conv = doc]
                              ELSE Ended("error")
    <1>1. /\ turn' = [turn EXCEPT ![t] = r] /\ turn[t].pc = "unsent" /\ t \notin Running
          /\ UNCHANGED <<doc, stored, wanted>>
        BY DEF Load, Step, Running
    <1>2. turn'[t] = r /\ \A u \in Turns : u # t => turn'[u] = turn[u]
        BY <1>1 DEF TypeInv, TypeOK
    <1>3. CASE Exists
        <2>1. turn[t] \in Request /\ doc \in Conversation
            BY <1>3 DEF TypeInv, TypeOK, Exists
        <2>2. r.pc = "append" /\ r.conv = doc
            BY <1>3, <2>1 DEF Request
        <2> HIDE DEF r
        <2>3. Running' = Running \cup {t} /\ \A u \in Running : turn'[u] = turn[u]
            BY <1>1, <1>2, <2>2 DEF Running
        <2>4. overlapped' = IF Running # {} THEN overlapped \cup Running \cup {t} ELSE overlapped
            BY <1>3 DEF Load
        <2>5. /\ overlapped \subseteq overlapped'
              /\ \A m \in {"patch", "delete"} : m \in overlapped' => m \in overlapped
            BY <2>4, ConversationAssumption DEF Running
        <2>6. Recorded'
            BY <2>3, <2>4 DEF LossInv, Recorded
        <2>7. KeepsMessages'
            BY <1>1, <1>2, <1>3, <2>2, <2>3, <2>5 DEF LossInv, KeepsMessages, Holds, Exists
        <2>8. KeepsStatus'
            BY <1>1, <1>2, <1>3, <2>2, <2>3, <2>5 DEF LossInv, KeepsStatus, Exists
        <2>9. QED
            BY <2>6, <2>7, <2>8 DEF LossInv
    <1>4. CASE ~Exists
        <2>1. r.pc = "over"
            BY <1>4, EndedType
        <2>2. overlapped' = overlapped
            BY <1>4 DEF Load
        <2> HIDE DEF r
        <2>3. Running' = Running /\ \A u \in Running : turn'[u] = turn[u]
            BY <1>1, <1>2, <2>1 DEF Running
        <2>4. QED
            BY <1>1, <2>2, <2>3 DEF LossInv, Recorded, KeepsMessages, Holds, KeepsStatus, Exists
    <1>5. QED
        BY <1>3, <1>4

\* Each step keeps the invariant: one case per action that is not quiet.
LEMMA LossStep == TypeInv /\ LossInv /\ [Next]_vars => LossInv'
    <1> SUFFICES ASSUME TypeInv, LossInv, [Next]_vars PROVE LossInv'
        OBVIOUS
    <1>1. ASSUME NEW t \in Turns, QuietAction(t) PROVE LossInv'
        BY <1>1, QuietStep, QuietLoss
    <1>2. ASSUME NEW t \in Turns, Load(t) PROVE LossInv'
        BY <1>2, LoadLoss
    <1>3. ASSUME NEW t \in Turns, AppendQuestion(t) PROVE LossInv'
        <2> DEFINE r == [turn[t] EXCEPT !.pc = "setup", !.conv = Appended(t, "user")]
        <2>1. t \in Running /\ turn' = [turn EXCEPT ![t] = r]
            BY <1>3 DEF AppendQuestion, Step, Running
        <2>2. turn[t] \in Request /\ Appended(t, "user") \in Conversation
            BY <2>1, RunningType, AppendedType DEF Roles
        <2>3. r \in Request /\ r.conv = Appended(t, "user")
            BY <2>2 DEF Request
        <2> HIDE DEF r
        <2>4. QED
            BY <1>3, <2>1, <2>3, WriteLoss DEF AppendQuestion, Roles
    <1>4. ASSUME NEW t \in Turns, SaveReply(t) PROVE LossInv'
        <2>1. t \in Running /\ turn' = [turn EXCEPT ![t] = Closed(t)]
            BY <1>4 DEF SaveReply, Step, Running
        <2>2. Closed(t) \in Request /\ Closed(t).pc = "over"
            BY <2>1, RunningType, EndedType DEF Closed, Request
        <2>3. QED
            BY <1>4, <2>1, <2>2, WriteLoss DEF SaveReply, Roles
    <1>5. ASSUME NEW status \in {"active", "archived"}, Patch(status) PROVE LossInv'
        <2>1. doc \in Conversation \cup {NoDoc} /\ doc # NoDoc
            BY <1>5 DEF Patch, Exists, TypeInv, TypeOK
        <2>2. /\ doc' \in Conversation /\ doc'.messages = doc.messages /\ doc'.status = status
              /\ wanted' = status /\ UNCHANGED <<turn, stored>>
            BY <1>5, <2>1 DEF Patch, Conversation
        <2>3. /\ Running' = Running
              /\ \A t \in Turns : t \in overlapped => t \in overlapped'
              /\ Running # {} => "patch" \in overlapped'
            BY <1>5, ConversationAssumption DEF Patch, Beside, Running
        <2>4. Recorded'
            BY <2>3 DEF LossInv, Recorded, Running
        <2>5. \A m \in stored : m[1] \in Turns
            BY DEF TypeInv, TypeOK
        <2>6. KeepsMessages'
            BY <1>5, <2>2, <2>3, <2>5 DEF Patch, LossInv, KeepsMessages, Holds, Exists
        <2>7. KeepsStatus'
            BY <2>2, <2>3, NoDocApart DEF KeepsStatus, Exists
        <2>8. QED
            BY <2>4, <2>6, <2>7 DEF LossInv
    <1>6. CASE Delete
        <2>1. doc' = NoDoc /\ wanted' = "deleted" /\ UNCHANGED <<turn, stored>>
            BY <1>6 DEF Delete
        <2>2. /\ Running' = Running
              /\ \A t \in Turns : t \in overlapped => t \in overlapped'
              /\ Running # {} => "delete" \in overlapped'
            BY <1>6, ConversationAssumption DEF Delete, Beside, Running
        <2>3. Recorded'
            BY <2>2 DEF LossInv, Recorded, Running
        <2>4. \A m \in stored : m[1] \in Turns
            BY DEF TypeInv, TypeOK
        <2>5. KeepsMessages'
            BY <2>1, <2>2, <2>4 DEF LossInv, KeepsMessages, Holds, Exists
        <2>6. KeepsStatus'
            BY <2>1, <2>2 DEF KeepsStatus, Exists
        <2>7. QED
            BY <2>3, <2>5, <2>6 DEF LossInv
    <1>7. CASE Redeploy \/ UNCHANGED gatewayVars
        BY <1>7 DEF Redeploy, gatewayVars, LossInv, Recorded, KeepsMessages, Holds, KeepsStatus,
                    Exists, Running
    <1>8. QED
        BY <1>1, <1>2, <1>3, <1>4, <1>5, <1>6, <1>7 DEF Next, GatewayNext, QuietAction, vars

\* What is stored stays, and what the user made of the conversation stays so,
\* unless the request concerned ran beside another one.
THEOREM NothingElseLost == Spec => []OnlyOverlapLoses
    <1>1. LossInv => OnlyOverlapLoses
        BY DEF LossInv, KeepsMessages, Holds, KeepsStatus, OnlyOverlapLoses
    <1>2. QED
        BY InitType, StepType, InitLoss, LossStep, <1>1, PTL DEF Spec

-----------------------------------------------------------------------------
(* Answers that failed *)

\* An error ends a request before its reply is stored, and no reply is stored
\* before the end.
ErrorInv ==
    \A t \in Turns :
        /\ turn[t].sent = "error" => turn[t].pc = "over" /\ <<t, "assistant">> \notin stored
        /\ <<t, "assistant">> \in stored => turn[t].pc = "over"

\* Each step keeps it.
LEMMA ErrorStep == TypeInv /\ ErrorInv /\ [Next]_vars => ErrorInv'
    <1> SUFFICES ASSUME TypeInv, ErrorInv, [Next]_vars PROVE ErrorInv'
        OBVIOUS
    <1>1. turn \in [Turns -> Request]
        BY DEF TypeInv, TypeOK
    <1>2. ASSUME NEW t \in Turns, QuietAction(t) PROVE ErrorInv'
        <2>1. PICK r \in Request : Goes(t, r)
            BY <1>2, QuietStep DEF Quiet
        <2>2. turn' = [turn EXCEPT ![t] = r] /\ stored' = stored /\ turn[t].pc # "over"
            BY <1>2, <2>1, QuietStep DEF Goes, Quiet, Running
        <2>3. <<t, "assistant">> \notin stored /\ turn[t].sent # "error"
            BY <2>2 DEF ErrorInv
        <2>4. r.pc # "over" => r.sent # "error"
            BY <2>1, <2>3 DEF Goes
        <2>5. QED
            BY <1>1, <2>2, <2>3, <2>4 DEF ErrorInv
    <1>3. ASSUME NEW t \in Turns, Load(t) PROVE ErrorInv'
        <2> DEFINE r == IF Exists THEN [turn[t] EXCEPT !.pc = "append", !.conv = doc]
                                  ELSE Ended("error")
        <2>1. turn' = [turn EXCEPT ![t] = r] /\ stored' = stored /\ turn[t].pc = "unsent"
            BY <1>3 DEF Load, Step
        <2>2. <<t, "assistant">> \notin stored /\ turn[t].sent # "error"
            BY <2>1 DEF ErrorInv
        <2>3. turn[t] \in Request
            BY <1>1
        <2>4. r.sent = "error" => r.pc = "over"
            BY <2>2, <2>3, EndedType DEF Request
        <2> HIDE DEF r
        <2>5. QED
            BY <1>1, <2>1, <2>2, <2>4 DEF ErrorInv
    <1>4. ASSUME NEW t \in Turns, AppendQuestion(t) PROVE ErrorInv'
        <2> DEFINE r == [turn[t] EXCEPT !.pc = "setup", !.conv = Appended(t, "user")]
        <2>1. /\ turn' = [turn EXCEPT ![t] = r] /\ stored' = stored \cup {<<t, "user">>}
              /\ turn[t].pc = "append"
            BY <1>4 DEF AppendQuestion, Step
        <2>2. <<t, "assistant">> \notin stored /\ turn[t].sent # "error"
            BY <2>1 DEF ErrorInv
        <2>3. turn[t] \in Request
            BY <1>1
        <2>4. r.sent = turn[t].sent
            BY <2>3 DEF Request
        <2> HIDE DEF r
        <2>5. \A u \in Turns : <<u, "assistant">> \in stored' => <<u, "assistant">> \in stored
            BY <2>1
        <2>6. \A u \in Turns : u # t => turn'[u] = turn[u]
            BY <1>1, <2>1
        <2>7. turn'[t].sent # "error"
            BY <1>1, <2>1, <2>2, <2>4
        <2>8. QED
            BY <2>2, <2>5, <2>6, <2>7 DEF ErrorInv
    <1>5. ASSUME NEW t \in Turns, SaveReply(t) PROVE ErrorInv'
        <2>1. /\ turn' = [turn EXCEPT ![t] = Closed(t)]
              /\ stored' = stored \cup {<<t, "assistant">>} /\ turn[t].pc = "save"
            BY <1>5 DEF SaveReply, Step
        <2>2. turn[t].sent # "error" /\ turn[t].sent \in Endings
            BY <1>1, <2>1 DEF ErrorInv, Request
        <2>3. Closed(t).pc = "over" /\ Closed(t).sent # "error"
            BY <2>2 DEF Closed, Ended, Blank
        <2> HIDE DEF Closed
        <2>4. /\ turn'[t].pc = "over" /\ turn'[t].sent # "error"
              /\ \A u \in Turns : u # t =>
                     turn'[u] = turn[u] /\ (<<u, "assistant">> \in stored' => <<u, "assistant">> \in stored)
            BY <1>1, <2>1, <2>3
        <2>5. QED
            BY <2>4 DEF ErrorInv
    <1>6. ASSUME NEW status \in {"active", "archived"}, Patch(status) PROVE ErrorInv'
        BY <1>6 DEF Patch, ErrorInv
    <1>7. CASE Delete \/ Redeploy \/ UNCHANGED gatewayVars
        BY <1>7 DEF Delete, Redeploy, gatewayVars, ErrorInv
    <1>8. QED
        BY <1>2, <1>3, <1>4, <1>5, <1>6, <1>7 DEF Next, GatewayNext, QuietAction, vars

\* A bubble shows the gateway's error only after the frame was sent.
FailedInv == \A t \in Turns : bubble[t] = "failed" => turn[t].sent = "error"

\* An error frame is the last thing a request sends.
LEMMA FailedStep == TypeInv /\ ErrorInv /\ FailedInv /\ [Next]_vars => FailedInv'
    <1> SUFFICES ASSUME TypeInv, ErrorInv, FailedInv, [Next]_vars PROVE FailedInv'
        OBVIOUS
    <1>1. turn \in [Turns -> Request]
        BY DEF TypeInv, TypeOK
    <1>2. ASSUME NEW t \in Turns, turn[t].pc # "over", NEW r,
                 turn' = [turn EXCEPT ![t] = r], UNCHANGED bubble
          PROVE  FailedInv'
        <2>1. bubble[t] # "failed"
            BY <1>2 DEF ErrorInv, FailedInv
        <2>2. \A u \in Turns : u # t => turn'[u] = turn[u]
            BY <1>1, <1>2
        <2>3. QED
            BY <1>2, <2>1, <2>2 DEF FailedInv
    <1>3. ASSUME NEW t \in Turns, QuietAction(t), UNCHANGED bubble PROVE FailedInv'
        <2>1. PICK r \in Request : Goes(t, r)
            BY <1>3, QuietStep DEF Quiet
        <2>2. turn' = [turn EXCEPT ![t] = r] /\ turn[t].pc # "over"
            BY <1>3, <2>1, QuietStep DEF Goes, Quiet, Running
        <2>3. QED
            BY <1>2, <1>3, <2>2
    <1>4. ASSUME NEW t \in Turns, Load(t) \/ AppendQuestion(t) \/ SaveReply(t),
                 UNCHANGED bubble
          PROVE  FailedInv'
        <2>1. PICK r : turn' = [turn EXCEPT ![t] = r]
            BY <1>4 DEF Load, AppendQuestion, SaveReply, Step
        <2>2. turn[t].pc # "over"
            BY <1>4 DEF Load, AppendQuestion, SaveReply, Step
        <2>3. QED
            BY <1>2, <1>4, <2>1, <2>2
    <1>5. ASSUME NEW t \in Turns, Read(t) \/ Leave(t), UNCHANGED gatewayVars
          PROVE  FailedInv'
        <2>1. turn[t].sent \in Endings
            BY DEF TypeInv, TypeOK, Request
        <2>2. bubble \in [Turns -> {"waiting", "done", "failed", "cancelled"}]
            BY DEF TypeInv, TypeOK
        <2>3. bubble'[t] = "failed" => turn[t].sent = "error"
            BY <1>5, <2>1, <2>2 DEF Read, Leave, Endings
        <2>4. \A u \in Turns : u # t => bubble'[u] = bubble[u]
            BY <1>5, <2>2 DEF Read, Leave
        <2>5. QED
            BY <1>5, <2>3, <2>4 DEF FailedInv, gatewayVars
    <1>6. ASSUME NEW status \in {"active", "archived"}, Patch(status), UNCHANGED bubble
          PROVE  FailedInv'
        BY <1>6 DEF Patch, FailedInv
    <1>7. CASE (Delete \/ Redeploy) /\ UNCHANGED bubble
        BY <1>7 DEF Delete, Redeploy, FailedInv
    <1>8. CASE UNCHANGED vars
        BY <1>8 DEF vars, gatewayVars, FailedInv
    <1>9. QED
        BY <1>3, <1>4, <1>5, <1>6, <1>7, <1>8 DEF Next, GatewayNext, QuietAction

\* A reply whose turn the gateway reports as failed is never stored, however late
\* the tab reads the report and whatever it gave up itself.
THEOREM ErrorsStoreNothing == Spec => []ErrorStoresNothing
    <1>1. Init => ErrorInv /\ FailedInv
        BY DEF Init, ErrorInv, FailedInv, Unsent, Blank
    <1>2. ErrorInv /\ FailedInv => ErrorStoresNothing
        BY DEF ErrorInv, FailedInv, ErrorStoresNothing
    <1>3. QED
        BY InitType, StepType, ErrorStep, FailedStep, <1>1, <1>2, PTL DEF Spec

-----------------------------------------------------------------------------
(* What the sessions remember *)

\* Remembered, with the memory and the excused turns as parameters.
Recalls(conv, heard, excused) ==
    \A t \in Turns \ excused :
        <<t, "assistant">> \in ToSet(conv.messages) =>
            conv.session # None /\ t \in heard[conv.session]

\* A request that can only store what a session remembers: the session that it
\* holds beside its copy is the one in the copy, nothing is said before the
\* question is asked, and what was asked was heard.
Apt(t, r, heard, excused) ==
    /\ r.conv.mode = "general" => Recalls(r.conv, heard, excused)
    /\ r.pc = "persist" =>
           r.conv.mode = "general" /\ r.session # None /\ r.session = r.conv.session
    /\ r.pc = "query" =>
           r.conv.mode = "general" /\ r.session \in {None, r.conv.session}
    /\ r.pc \notin {"stream", "save"} => ~r.spoke
    /\ r.pc \in {"stream", "save"} /\ r.conv.mode = "general" =>
           t \in excused \/ (r.conv.session # None /\ t \in heard[r.conv.session])

Excused == overlapped \cup lapsed

\* A question that was not sent has no answer yet.
UnsentSilent == \A t \in Turns : turn[t].pc = "unsent" => ~turn[t].spoke

MemInv ==
    /\ UnsentSilent
    /\ \A s \in Sessions : engine[s] = "gone" => memory[s] \subseteq lapsed
    /\ Exists /\ doc.mode = "general" => Recalls(doc, memory, Excused)
    /\ \A t \in Running : Apt(t, turn[t], memory, Excused)

LEMMA InitMemory == Init => MemInv
    <1> SUFFICES ASSUME Init PROVE MemInv
        OBVIOUS
    <1>1. ToSet(doc.messages) = {} /\ Running = {}
        BY DEF Init, Running, Unsent, Blank, ToSet
    <1>2. \A s \in Sessions : engine[s] # "gone"
        BY DEF Init
    <1>3. QED
        BY <1>1, <1>2 DEF Init, MemInv, Recalls, UnsentSilent, Unsent, Blank

\* What is heard or excused stays so.
LEMMA AptKept ==
    ASSUME NEW t \in Turns, NEW r \in Request, r.conv \in Conversation,
           NEW heard \in [Sessions -> SUBSET Turns], NEW excused,
           NEW heard2 \in [Sessions -> SUBSET Turns], NEW excused2,
           \A s \in Sessions : heard[s] \subseteq heard2[s],
           excused \subseteq excused2,
           Apt(t, r, heard, excused)
    PROVE  Apt(t, r, heard2, excused2)
    <1>1. r.conv.session \in Sessions \cup {None}
        BY DEF Conversation
    <1>2. QED
        BY <1>1 DEF Apt, Recalls

\* And so does what a conversation recalls.
LEMMA RecallsKept ==
    ASSUME NEW conv \in Conversation,
           NEW heard \in [Sessions -> SUBSET Turns], NEW excused,
           NEW heard2 \in [Sessions -> SUBSET Turns], NEW excused2,
           \A s \in Sessions : heard[s] \subseteq heard2[s],
           excused \subseteq excused2,
           Recalls(conv, heard, excused)
    PROVE  Recalls(conv, heard2, excused2)
    BY DEF Recalls, Conversation

\* One turn goes on aptly, and leaves a document that recalls.
LEMMA OneTurnMemory ==
    ASSUME TypeInv, TypeInv', MemInv, NEW t \in Turns, NEW r,
           turn' = [turn EXCEPT ![t] = r], r.pc # "unsent",
           \A s \in Sessions : engine'[s] = "gone" => memory'[s] \subseteq lapsed',
           \A s \in Sessions : memory[s] \subseteq memory'[s],
           Excused \subseteq Excused',
           doc' = doc \/ (Exists' /\ doc'.mode = "general" => Recalls(doc', memory', Excused')),
           r.pc \notin {"unsent", "over"} => Apt(t, r, memory', Excused')
    PROVE  MemInv'
    <1>1. /\ memory \in [Sessions -> SUBSET Turns] /\ memory' \in [Sessions -> SUBSET Turns]
          /\ turn \in [Turns -> Request] /\ turn'[t] = r
        BY DEF TypeInv, TypeOK
    <1>2. ASSUME NEW u \in Running', u # t PROVE Apt(u, turn'[u], memory', Excused')
        <2>1. u \in Running /\ turn'[u] = turn[u]
            BY <1>1, <1>2 DEF Running
        <2>2. turn[u] \in Request /\ turn[u].conv \in Conversation /\ u \in Turns
            BY <2>1, RunningType DEF Running
        <2>3. Apt(u, turn[u], memory, Excused)
            BY <2>1 DEF MemInv
        <2>4. QED
            BY <1>1, <2>1, <2>2, <2>3, AptKept
    <1>3. Exists' /\ doc'.mode = "general" => Recalls(doc', memory', Excused')
        <2>1. CASE doc' = doc /\ Exists' /\ doc'.mode = "general"
            <3>1. doc \in Conversation /\ Recalls(doc, memory, Excused)
                BY <2>1 DEF MemInv, Exists, TypeInv, TypeOK
            <3>2. QED
                BY <1>1, <2>1, <3>1, RecallsKept
        <2>2. QED
            BY <2>1
    <1>4. UnsentSilent'
        BY <1>1 DEF MemInv, UnsentSilent
    <1>5. \A s \in Sessions : engine'[s] = "gone" => memory'[s] \subseteq lapsed'
        OBVIOUS
    <1>6. QED
        BY <1>1, <1>2, <1>3, <1>4, <1>5 DEF MemInv, Running

\* A step of one turn that changes neither the document nor the engine.
LEMMA TurnOnly ==
    ASSUME TypeInv, TypeInv', MemInv, NEW t \in Turns, NEW r,
           turn' = [turn EXCEPT ![t] = r], r.pc # "unsent",
           UNCHANGED <<doc, engine, memory, lapsed, overlapped>>,
           r.pc \notin {"unsent", "over"} => Apt(t, r, memory, Excused)
    PROVE  MemInv'
    <1>1. Excused' = Excused
        BY DEF Excused
    <1>2. QED
        BY <1>1, OneTurnMemory DEF MemInv

\* A running request is apt.
LEMMA RunningApt ==
    ASSUME TypeInv, MemInv, NEW t \in Running
    PROVE  /\ turn[t] \in Request /\ turn[t].conv \in Conversation
           /\ Apt(t, turn[t], memory, Excused)
    BY RunningType DEF MemInv

\* A conversation whose answers are all excused may be given any session.
LEMMA FreshSession ==
    ASSUME TypeInv, TypeInv', MemInv, NEW t \in Running, NEW s \in Sessions, NEW r,
           turn' = [turn EXCEPT ![t] = r],
           NewSession(s),
           UNCHANGED <<doc, memory, lapsed, overlapped>>,
           r.pc = "persist", r.session = s, ~r.spoke,
           SameDialogue(r.conv, turn[t].conv), r.conv.session = s,
           turn[t].conv.mode = "general",
           turn[t].conv.session \in Sessions => memory[turn[t].conv.session] \subseteq Excused
    PROVE  MemInv'
    <1>1. turn[t].conv \in Conversation /\ Recalls(turn[t].conv, memory, Excused) /\ t \in Turns
        BY RunningApt DEF Apt, Running
    <1>2. Recalls(r.conv, memory, Excused)
        <2>1. \A u \in Turns \ Excused : <<u, "assistant">> \notin ToSet(turn[t].conv.messages)
            BY <1>1 DEF Recalls, Conversation
        <2>2. QED
            BY <2>1 DEF Recalls, SameDialogue
    <1>3. Apt(t, r, memory, Excused)
        BY <1>2, ConversationAssumption DEF Apt, SameDialogue
    <1>4. \A u \in Sessions : engine'[u] = "gone" => memory[u] \subseteq lapsed
        BY DEF NewSession, MemInv, TypeInv, TypeOK
    <1>5. Excused' = Excused
        BY DEF Excused
    <1>6. QED
        BY <1>1, <1>3, <1>4, <1>5, OneTurnMemory

\* A turn whose question is heard by the session that its copy names, or by none.
LEMMA QueryMemory ==
    ASSUME TypeInv, TypeInv', MemInv, NEW t \in Turns, Query(t)
    PROVE  MemInv'
    <1> DEFINE r == [turn[t] EXCEPT !.pc = "stream"]
    <1>1. PICK session \in Sessions \cup {None} :
              /\ Asks(t, session)
              /\ turn' = [turn EXCEPT ![t].pc = "stream"]
              /\ IF session = None
                 THEN lapsed' = lapsed \cup {t} /\ UNCHANGED memory
                 ELSE /\ engine[session] = "live"
                      /\ memory' = [memory EXCEPT ![session] = @ \cup {t}]
                      /\ UNCHANGED lapsed
        BY DEF Query
    <1>2. turn' = [turn EXCEPT ![t] = r] /\ UNCHANGED <<doc, engine, overlapped>>
        BY <1>1 DEF Query
    <1>3. t \in Running
        BY <1>1 DEF Asks, Running
    <1>4. /\ turn[t] \in Request /\ turn[t].conv \in Conversation
          /\ Apt(t, turn[t], memory, Excused)
        BY <1>3, RunningApt
    <1>5. r \in Request /\ r.conv = turn[t].conv /\ r.pc = "stream"
        BY <1>4 DEF Request
    <1>6. session = None \/ session = turn[t].conv.session
        BY <1>1, <1>4 DEF Asks, Apt
    <1>7. turn[t].conv.mode = "general" /\ Recalls(turn[t].conv, memory, Excused)
        BY <1>1, <1>4 DEF Asks, Apt
    <1>8. memory \in [Sessions -> SUBSET Turns] /\ memory' \in [Sessions -> SUBSET Turns]
        BY DEF TypeInv, TypeOK
    <1>9. /\ \A s \in Sessions : memory[s] \subseteq memory'[s]
          /\ lapsed \subseteq lapsed'
          /\ session # None => t \in memory'[session]
          /\ session = None => t \in lapsed'
          /\ \A s \in Sessions : engine[s] = "gone" => memory'[s] = memory[s]
        BY <1>1, <1>8
    <1>10. Excused \subseteq Excused'
        BY <1>2, <1>9 DEF Excused
    <1>11. \A s \in Sessions : engine'[s] = "gone" => memory'[s] \subseteq lapsed'
        BY <1>2, <1>9 DEF MemInv
    <1> HIDE DEF r
    <1>12. Recalls(r.conv, memory', Excused')
        BY <1>4, <1>5, <1>7, <1>8, <1>9, <1>10, RecallsKept
    <1>13. Apt(t, r, memory', Excused')
        <2>1. t \in Excused' \/ (r.conv.session # None /\ t \in memory'[r.conv.session])
            BY <1>5, <1>6, <1>9 DEF Excused
        <2>2. QED
            BY <1>5, <1>12, <2>1 DEF Apt
    <1>14. QED
        BY <1>2, <1>5, <1>9, <1>10, <1>11, <1>13, OneTurnMemory

\* A turn that writes its session into the document, which may have got messages
\* from others since: those of turns beside it, which are excused.
LEMMA PersistMemory ==
    ASSUME TypeInv, TypeInv', LossInv, MemInv, NEW t \in Turns, PersistSession(t)
    PROVE  MemInv'
    <1> DEFINE r == [turn[t] EXCEPT !.pc = IF turn[t].retries > 0 THEN "setup" ELSE "query"]
    <1>1. /\ t \in Running /\ turn[t].pc = "persist" /\ turn' = [turn EXCEPT ![t] = r]
          /\ UNCHANGED <<engine, memory, overlapped, lapsed>>
          /\ doc' = doc \/ doc' = SessionSet(doc, turn[t].session)
        BY DEF PersistSession, Step, Running
    <1>2. /\ turn[t] \in Request /\ turn[t].conv \in Conversation
          /\ Apt(t, turn[t], memory, Excused)
        BY <1>1, RunningApt
    <1>3. /\ r.conv = turn[t].conv /\ r.pc \in {"setup", "query"}
          /\ r.session = turn[t].session /\ r.spoke = turn[t].spoke
        BY <1>2 DEF Request
    <1> HIDE DEF r
    <1>4. Apt(t, r, memory, Excused)
        BY <1>1, <1>2, <1>3 DEF Apt
    <1>5. Excused' = Excused
        BY <1>1 DEF Excused
    <1>6. ASSUME Exists', doc' # doc PROVE Recalls(doc', memory', Excused')
        <2>1. doc \in Conversation /\ doc' = [doc EXCEPT !.session = turn[t].session]
            BY <1>1, <1>6 DEF SessionSet, Exists, TypeInv, TypeOK
        <2>2. doc'.messages = doc.messages /\ doc'.session = turn[t].session
            BY <2>1 DEF Conversation
        <2>3. /\ turn[t].session = turn[t].conv.session /\ turn[t].session # None
              /\ Recalls(turn[t].conv, memory, Excused)
            BY <1>1, <1>2 DEF Apt
        <2>4. Exists
            BY <2>1, NoDocApart DEF Exists
        <2>5. ToSet(doc.messages) \subseteq stored
            BY <2>4 DEF LossInv, KeepsMessages, Holds
        <2>6. \A m \in stored : m[1] \in overlapped \/ m \in ToSet(turn[t].conv.messages)
            BY <1>1 DEF LossInv, KeepsMessages, Holds
        <2>7. ASSUME NEW u \in Turns \ Excused, <<u, "assistant">> \in ToSet(doc.messages)
              PROVE  u \in memory[turn[t].session]
            <3>1. <<u, "assistant">> \in ToSet(turn[t].conv.messages)
                BY <2>5, <2>6, <2>7 DEF Excused
            <3>2. QED
                BY <2>3, <2>7, <3>1 DEF Recalls
        <2>8. QED
            BY <1>1, <1>5, <2>2, <2>3, <2>7 DEF Recalls
    <1>7. \A s \in Sessions : engine'[s] = "gone" => memory'[s] \subseteq lapsed'
        BY <1>1 DEF MemInv
    <1>8. QED
        BY <1>1, <1>3, <1>4, <1>5, <1>6, <1>7, OneTurnMemory

\* A turn that is given a session, the first or a new one.
LEMMA SessionMemory ==
    ASSUME TypeInv, TypeInv', MemInv, NEW t \in Turns,
           EnsureSession(t) \/ RecreateSession(t)
    PROVE  MemInv'
    <1>1. CASE EnsureSession(t)
        <2>1. t \in Running /\ turn[t].pc = "setup" /\ LacksSession(t)
              /\ UNCHANGED <<doc, memory, overlapped, lapsed>>
            BY <1>1 DEF EnsureSession, Step, Running
        <2>2. PICK s \in Sessions : NewSession(s) /\ turn' = [turn EXCEPT ![t] = WithSession(t, s)]
            BY <1>1 DEF EnsureSession, Step
        <2>3. ~turn[t].spoke
            BY <2>1, RunningApt DEF Apt
        <2> DEFINE r == WithSession(t, s)
        <2>4. /\ r.pc = "persist" /\ r.session = s /\ r.spoke = turn[t].spoke
              /\ SameDialogue(r.conv, turn[t].conv) /\ r.conv.session = s
            BY <2>1, WithSessionType
        <2>5. turn' = [turn EXCEPT ![t] = r]
            BY <2>2
        <2> HIDE DEF r
        <2>6. ~r.spoke
            BY <2>3, <2>4
        <2>7. turn[t].conv.mode = "general" /\ turn[t].conv.session \notin Sessions
            BY <2>1, ConversationAssumption DEF LacksSession
        <2>8. QED
            BY <2>1, <2>2, <2>4, <2>5, <2>6, <2>7, FreshSession
    <1>2. CASE RecreateSession(t)
        <2>1. /\ t \in Running /\ turn[t].pc \in {"setup", "query"}
              /\ UNCHANGED <<doc, memory, overlapped, lapsed>>
            BY <1>2 DEF RecreateSession, NotFound, Asks, Running
        <2>2. PICK s \in Sessions :
                  /\ NewSession(s)
                  /\ turn' = [turn EXCEPT ![t] = [WithSession(t, s) EXCEPT !.retries = @ + 1]]
            BY <1>2 DEF RecreateSession
        <2>3. PICK session \in Sessions : Asks(t, session) /\ engine[session] = "gone"
            BY <1>2 DEF RecreateSession, NotFound
        <2>4. Apt(t, turn[t], memory, Excused)
            BY <2>1, RunningApt
        <2>5. /\ turn[t].conv.session = session /\ turn[t].conv.mode = "general"
              /\ ~turn[t].spoke
            BY <2>1, <2>3, <2>4, ConversationAssumption DEF Asks, Apt
        <2>6. memory[session] \subseteq Excused
            BY <2>3 DEF MemInv, Excused
        <2> DEFINE r == [WithSession(t, s) EXCEPT !.retries = @ + 1]
        <2>7. /\ r.pc = "persist" /\ r.session = s /\ r.spoke = turn[t].spoke
              /\ SameDialogue(r.conv, turn[t].conv) /\ r.conv.session = s
            BY <2>1, WithSessionType DEF Request
        <2>8. turn' = [turn EXCEPT ![t] = r]
            BY <2>2
        <2> HIDE DEF r
        <2>9. ~r.spoke
            BY <2>5, <2>7
        <2>10. QED
            BY <2>1, <2>2, <2>5, <2>6, <2>7, <2>8, <2>9, FreshSession
    <1>3. QED
        BY <1>1, <1>2

\* A turn that is given up, or goes on without the engine.
LEMMA OtherMemory ==
    ASSUME TypeInv, TypeInv', MemInv, NEW t \in Turns,
           \/ AppendFails(t) \/ AskAboutClaim(t) \/ SetupFails(t) \/ EnsureFails(t)
           \/ RecreateFails(t) \/ Chunk(t) \/ Finish(t) \/ StreamFails(t) \/ Pause(t)
           \/ SaveFails(t) \/ Disconnect(t)
    PROVE  MemInv'
    <1>1. UNCHANGED <<doc, engine, memory, lapsed, overlapped>> /\ t \in Running
        BY DEF AppendFails, AskAboutClaim, SetupFails, EnsureFails, RecreateFails, Chunk,
               Finish, StreamFails, Pause, SaveFails, Disconnect, Step, Running, NotFound, Asks
    <1>2. /\ turn[t] \in Request /\ turn[t].conv \in Conversation
          /\ Apt(t, turn[t], memory, Excused)
        BY <1>1, RunningApt
    <1>3. \A sent : Ended(sent).pc = "over"
        BY DEF Ended, Blank
    <1>4. CASE AppendFails(t) \/ SetupFails(t) \/ RecreateFails(t) \/ StreamFails(t)
               \/ SaveFails(t) \/ Disconnect(t)
        <2>1. PICK sent : turn' = [turn EXCEPT ![t] = Ended(sent)]
            <3>1. CASE Disconnect(t)
                BY <3>1 DEF Disconnect
            <3>2. CASE ~Disconnect(t)
                BY <1>4, <3>2 DEF AppendFails, SetupFails, RecreateFails, StreamFails,
                                  SaveFails, Step, Closed
            <3>3. QED
                BY <3>1, <3>2
        <2>2. QED
            BY <1>1, <1>3, <2>1, TurnOnly
    <1>5. CASE AskAboutClaim(t)
        <2> DEFINE r == [turn[t] EXCEPT !.pc = "stream"]
        <2>1. turn' = [turn EXCEPT ![t] = r] /\ turn[t].conv.mode = "claim_focused"
            BY <1>5 DEF AskAboutClaim, Step
        <2>2. r.conv = turn[t].conv /\ r.pc = "stream"
            BY <1>2 DEF Request
        <2> HIDE DEF r
        <2>3. Apt(t, r, memory, Excused)
            BY <2>1, <2>2 DEF Apt
        <2>4. QED
            BY <1>1, <2>1, <2>2, <2>3, TurnOnly
    <1>6. CASE EnsureFails(t)
        <2> DEFINE r == [turn[t] EXCEPT !.pc = "query", !.session = None]
        <2>1. turn' = [turn EXCEPT ![t] = r] /\ turn[t].conv.mode = "general" /\ turn[t].pc = "setup"
            BY <1>6 DEF EnsureFails, Step, LacksSession
        <2>2. /\ r.conv = turn[t].conv /\ r.pc = "query" /\ r.session = None
              /\ r.spoke = turn[t].spoke
            BY <1>2 DEF Request
        <2> HIDE DEF r
        <2>3. Apt(t, r, memory, Excused)
            BY <1>2, <2>1, <2>2 DEF Apt
        <2>4. QED
            BY <1>1, <2>1, <2>2, <2>3, TurnOnly
    <1>7. CASE Chunk(t)
        <2> DEFINE r == [turn[t] EXCEPT !.spoke = TRUE]
        <2>1. turn' = [turn EXCEPT ![t] = r] /\ turn[t].pc = "stream"
            BY <1>7 DEF Chunk, Step
        <2>2. r.conv = turn[t].conv /\ r.pc = "stream"
            BY <1>2, <2>1 DEF Request
        <2> HIDE DEF r
        <2>3. Apt(t, r, memory, Excused)
            BY <1>2, <2>1, <2>2 DEF Apt
        <2>4. QED
            BY <1>1, <2>1, <2>2, <2>3, TurnOnly
    <1>8. ASSUME NEW spoke, NEW sent, spoke => turn[t].pc = "stream",
                 turn' = [turn EXCEPT ![t] = AfterStream(t, spoke, sent)]
          PROVE  MemInv'
        <2>1. CASE spoke
            <3> DEFINE r == [turn[t] EXCEPT !.pc = "save", !.spoke = TRUE, !.sent = sent]
            <3>1. r.conv = turn[t].conv /\ r.pc = "save"
                BY <1>2 DEF Request
            <3>2. turn' = [turn EXCEPT ![t] = r]
                BY <1>8, <2>1 DEF AfterStream
            <3> HIDE DEF r
            <3>3. Apt(t, r, memory, Excused)
                BY <1>2, <1>8, <2>1, <3>1 DEF Apt
            <3>4. QED
                BY <1>1, <3>1, <3>2, <3>3, TurnOnly
        <2>2. CASE ~spoke
            BY <1>1, <1>3, <1>8, <2>2, TurnOnly DEF AfterStream
        <2>3. QED
            BY <2>1, <2>2
    <1>9. CASE Finish(t)
        <2> DEFINE spoke == turn[t].spoke \/ turn[t].conv.mode = "general"
        <2>1. turn[t].pc = "stream" /\ turn' = [turn EXCEPT ![t] = AfterStream(t, spoke, "done")]
            BY <1>9 DEF Finish, Step
        <2> HIDE DEF spoke
        <2>2. QED
            BY <1>8, <2>1
    <1>10. CASE Pause(t)
        <2>1. /\ turn[t].pc \in {"persist", "query", "stream"}
              /\ turn' = [turn EXCEPT ![t] = AfterStream(t, turn[t].spoke, turn[t].sent)]
            BY <1>10 DEF Pause
        <2>2. turn[t].spoke => turn[t].pc = "stream"
            BY <1>2, <2>1 DEF Apt
        <2>3. QED
            BY <1>8, <2>1, <2>2
    <1>11. QED
        BY <1>4, <1>5, <1>6, <1>7, <1>9, <1>10

\* A turn that takes a copy, appends its question to it, or stores its reply.
LEMMA CopyMemory ==
    ASSUME TypeInv, TypeInv', MemInv, NEW t \in Turns,
           Load(t) \/ AppendQuestion(t) \/ SaveReply(t)
    PROVE  MemInv'
    <1>1. CASE Load(t)
        <2> DEFINE r == IF Exists THEN [turn[t] EXCEPT !.pc = "append", !.conv = doc]
                                  ELSE Ended("error")
        <2>1. /\ turn' = [turn EXCEPT ![t] = r] /\ turn[t].pc = "unsent"
              /\ UNCHANGED <<doc, engine, memory, lapsed>> /\ overlapped \subseteq overlapped'
            BY <1>1 DEF Load, Step
        <2>2. Excused \subseteq Excused'
            BY <2>1 DEF Excused
        <2>3. \A s \in Sessions : engine'[s] = "gone" => memory'[s] \subseteq lapsed'
            BY <2>1 DEF MemInv
        <2>4. r.pc \notin {"unsent", "over"} => Apt(t, r, memory', Excused')
            <3>1. CASE Exists
                <4>1. turn[t] \in Request /\ doc \in Conversation
                    BY <3>1 DEF TypeInv, TypeOK, Exists
                <4>2. r.pc = "append" /\ r.conv = doc /\ r.spoke = turn[t].spoke
                    BY <3>1, <4>1 DEF Request
                <4>3. ~turn[t].spoke
                    BY <2>1 DEF MemInv, UnsentSilent
                <4>4. memory \in [Sessions -> SUBSET Turns]
                    BY DEF TypeInv, TypeOK
                <4>5. doc.mode = "general" => Recalls(doc, memory', Excused')
                    BY <2>1, <2>2, <3>1, <4>1, <4>4, RecallsKept DEF MemInv
                <4> HIDE DEF r
                <4>6. QED
                    BY <4>2, <4>3, <4>5 DEF Apt
            <3>2. CASE ~Exists
                BY <3>2 DEF Ended, Blank
            <3>3. QED
                BY <3>1, <3>2
        <2> HIDE DEF r
        <2>5. r.pc # "unsent"
            <3>1. Exists => turn[t] \in Request
                BY DEF TypeInv, TypeOK
            <3>2. QED
                BY <3>1 DEF r, Request, Ended, Blank
        <2>6. QED
            BY <2>1, <2>2, <2>3, <2>4, <2>5, OneTurnMemory
    <1>2. CASE AppendQuestion(t)
        <2> DEFINE r == [turn[t] EXCEPT !.pc = "setup", !.conv = Appended(t, "user")]
        <2>1. /\ t \in Running /\ turn[t].pc = "append" /\ turn' = [turn EXCEPT ![t] = r]
              /\ UNCHANGED <<engine, memory, lapsed, overlapped>> /\ doc' = Appended(t, "user")
            BY <1>2 DEF AppendQuestion, Step, Running
        <2>2. /\ turn[t] \in Request /\ turn[t].conv \in Conversation
              /\ Apt(t, turn[t], memory, Excused)
            BY <2>1, RunningApt
        <2>3. r.conv = Appended(t, "user") /\ r.pc = "setup" /\ r.spoke = turn[t].spoke
            BY <2>2 DEF Request
        <2> HIDE DEF r
        <2>4. /\ Appended(t, "user").mode = turn[t].conv.mode
              /\ Appended(t, "user").session = turn[t].conv.session
              /\ \A u \in Turns :
                     <<u, "assistant">> \in ToSet(Appended(t, "user").messages) =>
                         <<u, "assistant">> \in ToSet(turn[t].conv.messages)
            BY <2>2, AppendedType, AppendedHolds DEF Roles
        <2>5. Appended(t, "user").mode = "general" =>
                  Recalls(Appended(t, "user"), memory, Excused)
            BY <2>2, <2>4 DEF Apt, Recalls
        <2>6. Apt(t, r, memory, Excused)
            BY <2>1, <2>2, <2>3, <2>5 DEF Apt
        <2>7. Excused' = Excused
            BY <2>1 DEF Excused
        <2>8. QED
            BY <2>1, <2>3, <2>5, <2>6, <2>7, OneTurnMemory DEF MemInv
    <1>3. CASE SaveReply(t)
        <2>1. /\ t \in Running /\ turn[t].pc = "save" /\ turn' = [turn EXCEPT ![t] = Closed(t)]
              /\ UNCHANGED <<engine, memory, lapsed, overlapped>>
              /\ doc' = Appended(t, "assistant")
            BY <1>3 DEF SaveReply, Step, Running
        <2>2. /\ turn[t] \in Request /\ turn[t].conv \in Conversation
              /\ Apt(t, turn[t], memory, Excused)
            BY <2>1, RunningApt
        <2>3. Closed(t).pc = "over"
            BY DEF Closed, Ended, Blank
        <2>4. /\ Appended(t, "assistant").mode = turn[t].conv.mode
              /\ Appended(t, "assistant").session = turn[t].conv.session
              /\ \A u \in Turns :
                     <<u, "assistant">> \in ToSet(Appended(t, "assistant").messages) =>
                         u = t \/ <<u, "assistant">> \in ToSet(turn[t].conv.messages)
            BY <2>2, AppendedType, AppendedHolds DEF Roles
        <2>5. Appended(t, "assistant").mode = "general" =>
                  Recalls(Appended(t, "assistant"), memory, Excused)
            BY <2>1, <2>2, <2>4 DEF Apt, Recalls
        <2>6. Excused' = Excused
            BY <2>1 DEF Excused
        <2>7. QED
            BY <2>1, <2>3, <2>5, <2>6, OneTurnMemory DEF MemInv
    <1>4. QED
        BY <1>1, <1>2, <1>3

\* Each step keeps the invariant.
LEMMA MemoryStep ==
    TypeInv /\ TypeInv' /\ LossInv /\ MemInv /\ [Next]_vars => MemInv'
    <1> SUFFICES ASSUME TypeInv, TypeInv', LossInv, MemInv, [Next]_vars PROVE MemInv'
        OBVIOUS
    <1>1. ASSUME NEW t \in Turns, QuietAction(t) PROVE MemInv'
        BY <1>1, QueryMemory, PersistMemory, SessionMemory, OtherMemory DEF QuietAction
    <1>2. ASSUME NEW t \in Turns, Load(t) \/ AppendQuestion(t) \/ SaveReply(t)
          PROVE  MemInv'
        BY <1>2, CopyMemory
    <1>3. ASSUME NEW status \in {"active", "archived"}, Patch(status) PROVE MemInv'
        <2>1. doc \in Conversation \cup {NoDoc} /\ doc # NoDoc
            BY <1>3 DEF Patch, Exists, TypeInv, TypeOK
        <2>2. /\ doc'.messages = doc.messages /\ doc'.mode = doc.mode
              /\ doc'.session = doc.session
              /\ UNCHANGED <<turn, engine, memory, lapsed>>
            BY <1>3, <2>1 DEF Patch, Conversation
        <2>3. Turns \ Excused' \subseteq Turns \ Excused
            BY <1>3, <2>2, ConversationAssumption DEF Patch, Beside, Excused
        <2>4. Recalls(doc, memory, Excused) => Recalls(doc', memory, Excused')
            BY <2>2, <2>3 DEF Recalls
        <2>5. ASSUME NEW t \in Running PROVE Apt(t, turn[t], memory, Excused')
            <3>1. t \in Turns /\ Apt(t, turn[t], memory, Excused)
                BY DEF MemInv, Running
            <3>2. t \in Excused => t \in Excused'
                BY <2>3, <3>1, <1>3, <2>2, ConversationAssumption DEF Patch, Beside, Excused
            <3>3. \A conv : Recalls(conv, memory, Excused) => Recalls(conv, memory, Excused')
                BY <2>3 DEF Recalls
            <3>4. QED
                BY <3>1, <3>2, <3>3 DEF Apt
        <2>6. QED
            BY <2>1, <2>2, <2>4, <2>5 DEF MemInv, Exists, Running, UnsentSilent
    <1>4. CASE Delete
        <2>1. doc' = NoDoc /\ UNCHANGED <<turn, engine, memory, lapsed>>
            BY <1>4 DEF Delete
        <2>2. Turns \ Excused' \subseteq Turns \ Excused
            BY <1>4, <2>1, ConversationAssumption DEF Delete, Beside, Excused
        <2>3. ASSUME NEW t \in Running PROVE Apt(t, turn[t], memory, Excused')
            <3>1. t \in Turns /\ Apt(t, turn[t], memory, Excused)
                BY DEF MemInv, Running
            <3>2. t \in Excused => t \in Excused'
                BY <3>1, <1>4, <2>1, ConversationAssumption DEF Delete, Beside, Excused
            <3>3. \A conv : Recalls(conv, memory, Excused) => Recalls(conv, memory, Excused')
                BY <2>2 DEF Recalls
            <3>4. QED
                BY <3>1, <3>2, <3>3 DEF Apt
        <2>4. QED
            BY <2>1, <2>3 DEF MemInv, Exists, Running, UnsentSilent
    <1>5. CASE Redeploy
        <2>1. /\ UNCHANGED <<doc, turn, memory, overlapped>>
              /\ engine' = [s \in Sessions |-> IF engine[s] = "live" THEN "gone" ELSE engine[s]]
              /\ lapsed' = lapsed \cup UNION {memory[s] : s \in {r \in Sessions : engine[r] = "live"}}
            BY <1>5 DEF Redeploy
        <2>2. /\ \A s \in Sessions : engine'[s] = "gone" => memory[s] \subseteq lapsed'
              /\ lapsed \subseteq lapsed'
            BY <2>1 DEF MemInv
        <2>3. Excused \subseteq Excused'
            BY <2>1, <2>2 DEF Excused
        <2>4. memory \in [Sessions -> SUBSET Turns]
            BY DEF TypeInv, TypeOK
        <2>5. ASSUME NEW t \in Running PROVE Apt(t, turn[t], memory, Excused')
            <3>1. /\ t \in Turns /\ turn[t] \in Request /\ turn[t].conv \in Conversation
                  /\ Apt(t, turn[t], memory, Excused)
                BY RunningApt DEF Running
            <3>2. QED
                BY <2>3, <2>4, <3>1, AptKept
        <2>6. Exists /\ doc.mode = "general" => Recalls(doc, memory, Excused')
            BY <2>3 DEF MemInv, Recalls
        <2>7. QED
            BY <2>1, <2>2, <2>5, <2>6 DEF MemInv, Exists, Running, UnsentSilent
    <1>6. CASE UNCHANGED gatewayVars
        BY <1>6 DEF gatewayVars, MemInv, Excused, Exists, Running, UnsentSilent
    <1>7. QED
        BY <1>1, <1>2, <1>3, <1>4, <1>5, <1>6 DEF Next, GatewayNext, QuietAction, vars

\* The answers that a conversation shows are in the memory of the session that its
\* next question goes to, but for turns that overlapped or that no session remembers.
THEOREM MemoryKept == Spec => []MemoryMatches
    <1>1. MemInv => MemoryMatches
        BY DEF MemInv, Recalls, Excused, MemoryMatches, Remembered
    <1>2. QED
        BY InitType, StepType, InitLoss, LossStep, InitMemory, MemoryStep, <1>1, PTL DEF Spec
=============================================================================
