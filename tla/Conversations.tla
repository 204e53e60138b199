---------------------------- MODULE Conversations ---------------------------
(***************************************************************************)
(* One conversation of the assistant: the document, the turns that load    *)
(* it, append to their copy and write the whole of it back, and the agent  *)
(* engine with the sessions that are its memory.  A conversation about a   *)
(* claim streams from the assistant-agent instead, without a session.      *)
(*                                                                         *)
(* A message is a turn and a role.  A turn may be sent from any tab while  *)
(* others run.  The wall-clock limits of an answer end it as a failure     *)
(* does.  The search tools of the agent change nothing; those that change  *)
(* a claim are in ClaimLifecycle.                                          *)
(***************************************************************************)
EXTENDS Naturals, SequencesExt

CONSTANTS
    Turns,       \* bound: questions sent
    Sessions,    \* bound: sessions that the engine creates
    None,        \* agent_session_id is null
    FaultKinds,  \* which failures the environment produces
    MaxFaults    \* bound: how many of them

AllFaults == {"write", "unreachable", "create", "persist", "redeploy"}

ASSUME ConversationAssumption ==
    /\ None \notin Sessions
    /\ Turns \cap {"patch", "delete"} = {}
    /\ FaultKinds \subseteq AllFaults
    /\ MaxFaults \in Nat

VARIABLES
    doc,         \* the stored conversation
    turn,        \* the request of each question at the gateway
    bubble,      \* what the tab shows for the answer
    engine,      \* the sessions of the agent engine
    memory,      \* the turns that each session has heard
    faults,      \* bound: failures so far
    stored,      \* history: the messages whose write succeeded
    wanted,      \* history: what the user last made of the conversation
    overlapped,  \* history: requests that ran beside another one
    lapsed       \* history: turns that no session remembers

gatewayVars == <<doc, turn, engine, memory, faults, stored, wanted, overlapped, lapsed>>
vars        == <<gatewayVars, bubble>>

_SESSION_RETRY_LIMIT == 1

Roles == {"user", "assistant"}

NoDoc == [mode |-> "deleted"]

Conversation ==
    [mode : {"general", "claim_focused"}, messages : Seq(Turns \X Roles),
     status : {"active", "archived"}, session : Sessions \cup {None}]

\* What ended the response so far: a done frame, a done frame with an error, or the
\* break of the connection.
Endings == {"none", "done", "error", "cut"}

\* session is the id that the request holds beside the one in its copy.
Request ==
    [pc : {"unsent", "append", "setup", "persist", "query", "stream", "save", "over"},
     conv : Conversation \cup {NoDoc}, session : Sessions \cup {None},
     retries : 0.._SESSION_RETRY_LIMIT, spoke : BOOLEAN,
     sent : Endings]

\* A request that holds nothing but what it has sent.
Blank(pc, sent) == [pc |-> pc, conv |-> NoDoc, session |-> None, retries |-> 0,
                    spoke |-> FALSE, sent |-> sent]

Unsent == Blank("unsent", "none")

Ended(sent) == Blank("over", sent)

\* create_conversation tries to have a session from the start.
Init ==
    /\ \E first \in Sessions \cup {None}, mode \in {"general", "claim_focused"} :
        /\ doc = [mode |-> mode, messages |-> <<>>, status |-> "active", session |-> first]
        /\ engine = [s \in Sessions |-> IF s = first THEN "live" ELSE "unused"]
    /\ turn = [t \in Turns |-> Unsent]
    /\ bubble = [t \in Turns |-> "waiting"]
    /\ memory = [s \in Sessions |-> {}]
    /\ faults = 0
    /\ stored = {}
    /\ wanted = "active"
    /\ overlapped = {}
    /\ lapsed = {}

Exists == doc # NoDoc

Running == {t \in Turns : turn[t].pc \notin {"unsent", "over"}}

Fault(kind) ==
    /\ kind \in FaultKinds
    /\ faults < MaxFaults
    /\ faults' = faults + 1

Step(t, from, request) ==
    /\ turn[t].pc = from
    /\ turn' = [turn EXCEPT ![t] = request]

Closed(t) == Ended(turn[t].sent)

\* What append_message makes of the copy.
Appended(t, role) ==
    [turn[t].conv EXCEPT !.messages = Append(@, <<t, role>>)]

\* partial_update of the session id, which a deleted conversation does not match.
SessionSet(conv, session) ==
    IF conv = NoDoc THEN conv ELSE [conv EXCEPT !.session = session]

-----------------------------------------------------------------------------
(* A question, from the tab to the agent.                                  *)

Load(t) ==
    /\ Step(t, "unsent", IF Exists THEN [turn[t] EXCEPT !.pc = "append", !.conv = doc]
                                   ELSE Ended("error"))
    /\ overlapped' = IF Exists /\ Running # {} THEN overlapped \cup Running \cup {t}
                                               ELSE overlapped
    /\ UNCHANGED <<doc, engine, memory, faults, stored, wanted, lapsed>>

\* Mutant: the question goes to the database and not into the copy.
AppendQuestionOnly(t) ==
    /\ Step(t, "append", [turn[t] EXCEPT !.pc = "setup"])
    /\ doc' = Appended(t, "user")
    /\ stored' = stored \cup {<<t, "user">>}
    /\ UNCHANGED <<engine, memory, faults, wanted, overlapped, lapsed>>

AppendQuestion(t) ==
    /\ Step(t, "append", [turn[t] EXCEPT !.pc = "setup", !.conv = Appended(t, "user")])
    /\ doc' = Appended(t, "user")
    /\ stored' = stored \cup {<<t, "user">>}
    /\ UNCHANGED <<engine, memory, faults, wanted, overlapped, lapsed>>

\* The exception breaks the response off.
AppendFails(t) ==
    /\ Fault("write")
    /\ Step(t, "append", Ended("cut"))
    /\ UNCHANGED <<doc, engine, memory, stored, wanted, overlapped, lapsed>>

\* The claim is loaded and the assistant-agent asked.
AskAboutClaim(t) ==
    /\ turn[t].conv.mode = "claim_focused"
    /\ Step(t, "setup", [turn[t] EXCEPT !.pc = "stream"])
    /\ UNCHANGED <<doc, engine, memory, faults, stored, wanted, overlapped, lapsed>>

\* The claim is gone, the assistant-agent or the engine does not answer.
SetupFails(t) ==
    /\ Fault("unreachable")
    /\ Step(t, "setup", Ended("error"))
    /\ UNCHANGED <<doc, engine, memory, stored, wanted, overlapped, lapsed>>

\* Mutant: the new id is not mirrored onto the copy, whose upsert drops it again.
WithSessionUnmirrored(t, s) == [turn[t] EXCEPT !.pc = "persist", !.session = s]

\* Mutant: every new session counts as another attempt, the first one too.
WithSessionCounted(t, s) ==
    [turn[t] EXCEPT !.pc = "persist", !.session = s, !.conv.session = s, !.retries = @ + 1]

WithSession(t, s) ==
    [turn[t] EXCEPT !.pc = "persist", !.session = s, !.conv.session = s]

NewSession(s) ==
    /\ engine[s] = "unused"
    /\ engine' = [engine EXCEPT ![s] = "live"]

LacksSession(t) == turn[t].conv.mode = "general" /\ turn[t].conv.session = None

EnsureSession(t) ==
    /\ LacksSession(t)
    /\ \E s \in Sessions :
        /\ NewSession(s)
        /\ Step(t, "setup", WithSession(t, s))
    /\ UNCHANGED <<doc, memory, faults, stored, wanted, overlapped, lapsed>>

\* The question is asked without memory.
EnsureFails(t) ==
    /\ LacksSession(t)
    /\ Fault("create")
    /\ Step(t, "setup", [turn[t] EXCEPT !.pc = "query", !.session = None])
    /\ UNCHANGED <<doc, engine, memory, stored, wanted, overlapped, lapsed>>

\* After a retry stream_agent_response starts over; a failed update is logged.
PersistSession(t) ==
    /\ Step(t, "persist",
            [turn[t] EXCEPT !.pc = IF turn[t].retries > 0 THEN "setup" ELSE "query"])
    /\ \/ doc' = SessionSet(doc, turn[t].session) /\ UNCHANGED faults
       \/ Fault("persist") /\ UNCHANGED doc
    /\ UNCHANGED <<engine, memory, stored, wanted, overlapped, lapsed>>

\* Nothing is awaited between the fetch of the agent and the question to it.
Asks(t, session) ==
    \/ turn[t].pc = "query" /\ session = turn[t].session
    \/ /\ turn[t].pc = "setup"
       /\ turn[t].conv.mode = "general"
       /\ session = turn[t].conv.session
       /\ session # None

Query(t) ==
    \E session \in Sessions \cup {None} :
        /\ Asks(t, session)
        /\ turn' = [turn EXCEPT ![t].pc = "stream"]
        /\ IF session = None
           THEN lapsed' = lapsed \cup {t} /\ UNCHANGED memory
           ELSE /\ engine[session] = "live"
                /\ memory' = [memory EXCEPT ![session] = @ \cup {t}]
                /\ UNCHANGED lapsed
        /\ UNCHANGED <<doc, engine, faults, stored, wanted, overlapped>>

NotFound(t) == \E session \in Sessions : Asks(t, session) /\ engine[session] = "gone"

MayRetry(t) == turn[t].retries < _SESSION_RETRY_LIMIT

\* NotFound: a new session and the same question once more.
RecreateSession(t) ==
    /\ NotFound(t)
    /\ MayRetry(t)
    /\ \E s \in Sessions :
        /\ NewSession(s)
        /\ turn' = [turn EXCEPT ![t] = [WithSession(t, s) EXCEPT !.retries = @ + 1]]
    /\ UNCHANGED <<doc, memory, faults, stored, wanted, overlapped, lapsed>>

\* No new session can be had, or the new one is not found either.
RecreateFails(t) ==
    /\ NotFound(t)
    /\ IF MayRetry(t) THEN Fault("create") ELSE UNCHANGED faults
    /\ turn' = [turn EXCEPT ![t] = Ended("error")]
    /\ UNCHANGED <<doc, engine, memory, stored, wanted, overlapped, lapsed>>

-----------------------------------------------------------------------------
(* The answer.                                                             *)

\* The first text or tool call that is forwarded to the tab.
Chunk(t) ==
    /\ ~turn[t].spoke
    /\ Step(t, "stream", [turn[t] EXCEPT !.spoke = TRUE])
    /\ UNCHANGED <<doc, engine, memory, faults, stored, wanted, overlapped, lapsed>>

\* Nothing is saved of an answer without text and without a tool call.
AfterStream(t, spoke, sent) ==
    IF spoke THEN [turn[t] EXCEPT !.pc = "save", !.spoke = TRUE, !.sent = sent]
             ELSE Ended(sent)

\* done.  An empty answer of the engine is given a fallback text.  A run about a
\* claim ends so too when it failed: its finally clause sends done before the
\* error frame, and the gateway stops reading at the first done.
Finish(t) ==
    /\ Step(t, "stream", AfterStream(t, turn[t].spoke \/ turn[t].conv.mode = "general",
                                     "done"))
    /\ UNCHANGED <<doc, engine, memory, faults, stored, wanted, overlapped, lapsed>>

\* Mutant: the reply is saved in spite of done_error.
StreamFailsSaving(t) ==
    /\ Step(t, "stream", AfterStream(t, turn[t].spoke, "error"))
    /\ UNCHANGED <<doc, engine, memory, faults, stored, wanted, overlapped, lapsed>>

\* done with an error: the engine or the transport failed, refused or took too long.
StreamFails(t) ==
    /\ Step(t, "stream", Ended("error"))
    /\ UNCHANGED <<doc, engine, memory, faults, stored, wanted, overlapped, lapsed>>

\* No frame for 15 seconds: wait_for cancels the generator, the next read of it
\* ends the loop after a heartbeat, and there is no done frame.
Pause(t) ==
    /\ turn[t].pc \in {"persist", "query", "stream"}
    /\ turn' = [turn EXCEPT ![t] = AfterStream(t, turn[t].spoke, turn[t].sent)]
    /\ UNCHANGED <<doc, engine, memory, faults, stored, wanted, overlapped, lapsed>>

\* Mutant: the reply is pushed onto whatever is stored by now.
SaveReplyPushed(t) ==
    /\ Step(t, "save", Closed(t))
    /\ doc' = IF Exists THEN [doc EXCEPT !.messages = Append(@, <<t, "assistant">>)] ELSE doc
    /\ stored' = stored \cup {<<t, "assistant">>}
    /\ UNCHANGED <<engine, memory, faults, wanted, overlapped, lapsed>>

SaveReply(t) ==
    /\ Step(t, "save", Closed(t))
    /\ doc' = Appended(t, "assistant")
    /\ stored' = stored \cup {<<t, "assistant">>}
    /\ UNCHANGED <<engine, memory, faults, wanted, overlapped, lapsed>>

\* Logged only.
SaveFails(t) ==
    /\ Fault("write")
    /\ Step(t, "save", Closed(t))
    /\ UNCHANGED <<doc, engine, memory, stored, wanted, overlapped, lapsed>>

\* The response is cancelled because the tab has gone away, which the gateway may
\* notice late or never, or the gateway dies.
Disconnect(t) ==
    /\ t \in Running
    /\ turn' = [turn EXCEPT ![t] = Ended(IF @.sent = "none" THEN "cut" ELSE @.sent)]
    /\ UNCHANGED <<doc, engine, memory, faults, stored, wanted, overlapped, lapsed>>

-----------------------------------------------------------------------------
(* The bubble.  The tab reads frames after they were sent, and gives up        *)
(* without asking the gateway.  One without a frame for 45 seconds looks       *)
(* finished but still waits.                                                   *)

Read(t) ==
    /\ bubble[t] = "waiting"
    /\ turn[t].sent # "none"
    /\ bubble' = [bubble EXCEPT ![t] = CASE turn[t].sent = "done" -> "done"
                                        [] turn[t].sent = "error" -> "failed"
                                        [] turn[t].sent = "cut" -> "cancelled"]

\* The user stops it or sends another question, the page is closed, or the
\* connection breaks, perhaps with a done frame on its way.
Leave(t) ==
    /\ bubble[t] = "waiting"
    /\ bubble' = [bubble EXCEPT ![t] = "cancelled"]

-----------------------------------------------------------------------------
(* The conversation as a whole, and the agent engine.                      *)

\* Whether the user's request ran beside a turn, which may write over it.
Beside(request) ==
    overlapped' = IF Running = {} THEN overlapped \ {request} ELSE overlapped \cup {request}

Patch(status) ==
    /\ Exists
    /\ doc' = [doc EXCEPT !.status = status]
    /\ wanted' = status
    /\ Beside("patch")
    /\ UNCHANGED <<turn, engine, memory, faults, stored, lapsed>>

Delete ==
    /\ Exists
    /\ doc' = NoDoc
    /\ wanted' = "deleted"
    /\ Beside("delete")
    /\ UNCHANGED <<turn, engine, memory, faults, stored, lapsed>>

\* Sessions do not survive a new version of the agent.  How often there is one is
\* bounded by the sessions that are left.
Redeploy ==
    /\ "redeploy" \in FaultKinds
    /\ \E s \in Sessions : engine[s] = "live"
    /\ engine' = [s \in Sessions |-> IF engine[s] = "live" THEN "gone" ELSE engine[s]]
    /\ lapsed' = lapsed \cup UNION {memory[s] : s \in {r \in Sessions : engine[r] = "live"}}
    /\ UNCHANGED <<doc, turn, memory, faults, stored, wanted, overlapped>>

GatewayNext ==
    \/ \E t \in Turns :
        \/ Load(t) \/ AppendQuestion(t) \/ AppendFails(t)
        \/ AskAboutClaim(t) \/ SetupFails(t) \/ EnsureSession(t) \/ EnsureFails(t)
        \/ PersistSession(t) \/ Query(t) \/ RecreateSession(t) \/ RecreateFails(t)
        \/ Chunk(t) \/ Finish(t) \/ StreamFails(t) \/ Pause(t)
        \/ SaveReply(t) \/ SaveFails(t) \/ Disconnect(t)
    \/ \E status \in {"active", "archived"} : Patch(status)
    \/ Delete
    \/ Redeploy

Next ==
    \/ GatewayNext /\ UNCHANGED bubble
    \/ (\E t \in Turns : Read(t) \/ Leave(t)) /\ UNCHANGED gatewayVars

Spec == Init /\ [][Next]_vars

-----------------------------------------------------------------------------
(* What the conversation promises.                                         *)

\* Types, and that a question is asked again at most _SESSION_RETRY_LIMIT times.
TypeOK ==
    /\ doc \in Conversation \cup {NoDoc}
    /\ turn \in [Turns -> Request]
    /\ bubble \in [Turns -> {"waiting", "done", "failed", "cancelled"}]
    /\ engine \in [Sessions -> {"unused", "live", "gone"}]
    /\ memory \in [Sessions -> SUBSET Turns]
    /\ faults \in 0..MaxFaults
    /\ stored \subseteq Turns \X Roles
    /\ wanted \in {"active", "archived", "deleted"}
    /\ overlapped \subseteq Turns \cup {"patch", "delete"}
    /\ lapsed \subseteq Turns

\* No message twice, and every reply directly below the question it answers.
IsDialogue(messages) ==
    /\ IsInjective(messages)
    /\ \A i \in DOMAIN messages :
        messages[i][2] = "assistant" =>
            i > 1 /\ messages[i - 1] = <<messages[i][1], "user">>

\* However requests write over each other, what is stored reads as a dialogue.
ReplyFollowsQuestion == Exists => IsDialogue(doc.messages)

\* Whole-document upserts from a copy lose only what ran beside them: a message
\* once stored stays, an archived conversation stays archived and a deleted one
\* deleted, unless their request overlapped with another one's.
OnlyOverlapLoses ==
    /\ Exists =>
        \A message \in stored :
            message[1] \in overlapped \/ message \in ToSet(doc.messages)
    /\ wanted = "deleted" /\ "delete" \notin overlapped => ~Exists
    /\ wanted # "deleted" /\ "patch" \notin overlapped => Exists /\ doc.status = wanted

\* Turns that overlapped, were asked without a session or were forgotten in a
\* redeployment are excused.
Remembered(conv) ==
    \A t \in Turns \ (overlapped \cup lapsed) :
        <<t, "assistant">> \in ToSet(conv.messages) =>
            conv.session # None /\ t \in memory[conv.session]

\* The answers that the conversation shows are in the memory of the session that
\* the next question will be asked in, whichever of the writes of its id failed.
MemoryMatches == Exists /\ doc.mode = "general" => Remembered(doc)

\* A bubble that shows the gateway's error has no reply in the document, however
\* late the frame is read.  One that the tab itself gave up may well have one: the
\* gateway notices late or never, finishes the answer and saves it.
ErrorStoresNothing ==
    \A t \in Turns :
        bubble[t] = "failed" => <<t, "assistant">> \notin stored

\* What the stream's timeouts are documented to give: a bubble that still waits for
\* an answer that is over has a last frame on its way, because a heartbeat every 15
\* seconds keeps the stream of a slow agent alive.
EndsOnScreen ==
    \A t \in Turns :
        turn[t].pc = "over" /\ bubble[t] = "waiting" => turn[t].sent # "none"
=============================================================================
