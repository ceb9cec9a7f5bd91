----------------------------- MODULE ClawSession -----------------------------
(***************************************************************************)
(* One Claw session: its MongoDB document, the Docker container and volume *)
(* behind it, the REST calls that view, restart and delete it              *)
(* (ClawDomainService), the background tasks that provision its container, *)
(* the chats that stream through it, the event bus and a client of the     *)
(* claw WebSocket (ClawService, ws_routes).                                *)
(*                                                                         *)
(* The Docker client is synchronous: a coroutine goes from one await of    *)
(* MongoDB, of an HTTP request or of the container's stream to the next in *)
(* one step. ClawSessionRepository writes by a find_one and a save of the  *)
(* whole document, with an await before each.                              *)
(***************************************************************************)
EXTENDS Naturals, Sequences, FiniteSets

CONSTANTS Restarts,   \* calls of restart_session, each with a model of its own
          Deletes,    \* calls of delete_session
          Views,      \* calls of get_session or list_sessions
          Chats,      \* calls of send_message
          Created,    \* the call of create_session that made the session
          MaxChunks,  \* chunks of text a container streams for a message
          NoOne

ASSUME ClawConstants ==
    /\ MaxChunks \in Nat
    /\ Created \notin Restarts
    /\ Restarts \cap Deletes = {}
    /\ NoOne \notin {Created} \cup Restarts \cup Chats

VARIABLES
    claw,      \* the session document
    host,      \* the container and the volume on the Docker host; as a history, how
               \* many volumes there were, and whether the container was left by a
               \* creation of another that failed
    calls,     \* each REST call: its place, its session object, the document that
               \* the update or delete it is in has found
    provs,     \* the same of each provisioning task, named by the call that
               \* spawned it
    chats,     \* each chat: its place, the chunks it streamed, the document found
    state,     \* ClawService._chat_states: the chat whose text is pending
    client,    \* a client of the WebSocket: its place, the text it is sent
    \* History.
    stale,     \* a save overwrote a document that had changed since it was found,
               \* or a delete a session that had since it was read
    crowded    \* a chat began while another was in progress

clawDoc == <<claw, stale>>
bus == <<state, client, crowded>>
clawVars == <<clawDoc, host, calls, provs, chats, bus>>

Provs == {Created} \cup Restarts
Calls == Restarts \cup Deletes \cup Views
Text == Chats \X (1..MaxChunks)
\* What a chat stores: the request, the calls of tools that ended, the reply.
Entry == Chats \X {"user", "tool", "assistant"}

ClawStatus == {"creating", "running", "stopped", "error"}
\* container_name and container_ip are set and cleared together: `named`.
Session == [model: Provs, status: ClawStatus, named: BOOLEAN]
Document == [session: Session, messages: SUBSET Entry, exists: BOOLEAN]

\* "find" and "save": before and after the document is found.
CallPC == {"idle", "health", "stop find", "stop save", "act", "find", "save", "closed"}
ProvPC == {"none", "create", "named find", "named save", "wait", "run find", "run save",
           "error", "error find", "error save", "closed"}
ChatPC == {"idle", "user find", "user save", "stream", "tool find", "tool save",
           "reply find", "reply save", "finish", "closed"}

ClawTypeOK ==
    /\ claw \in Document
    /\ host \in [box: BOOLEAN, volume: BOOLEAN, volumes: Nat, left: BOOLEAN]
    /\ calls \in [Calls -> [pc: CallPC, my: Session, found: Document]]
    /\ provs \in [Provs -> [pc: ProvPC, my: Session, found: Document]]
    /\ chats \in [Chats -> [pc: ChatPC, chunks: 0..MaxChunks, found: Document]]
    /\ state \in Chats \cup {NoOne}
    /\ client \in [pc: {"away", "joined", "there"}, got: SUBSET Text]
    /\ stale \in BOOLEAN /\ crowded \in BOOLEAN

NewSession == [model |-> Created, status |-> "creating", named |-> FALSE]
NewDocument == [session |-> NewSession, messages |-> {}, exists |-> TRUE]
At(pc, my) == [pc |-> pc, my |-> my, found |-> NewDocument]
Closed == At("closed", NewSession)

\* create_session has inserted the document and spawned its provisioning.
ClawInit ==
    /\ claw = NewDocument
    /\ host = [box |-> FALSE, volume |-> FALSE, volumes |-> 0, left |-> FALSE]
    /\ calls = [c \in Calls |-> At("idle", NewSession)]
    /\ provs = [p \in Provs |-> At(IF p = Created THEN "create" ELSE "none", NewSession)]
    /\ chats = [c \in Chats |-> [pc |-> "idle", chunks |-> 0, found |-> NewDocument]]
    /\ state = NoOne
    /\ client = [pc |-> "away", got |-> {}]
    /\ stale = FALSE /\ crowded = FALSE

-----------------------------------------------------------------------------
(* The document and the host.                                              *)

\* The save of a whole document: Beanie inserts one that is no longer there.
Save(found, new) ==
    /\ claw' = new
    /\ stale' = (stale \/ found # claw)

\* ClawSessionRepository.update writes every field of the session on the
\* document it found; append_message and append_tool_event add to its lists.
Merged(found, my) == [found EXCEPT !.session = my]
Appended(found, message) == [found EXCEPT !.messages = found.messages \cup {message}]

\* A fault of Emptied: the volume goes with the container.
EmptiedAll(named) == IF named THEN [host EXCEPT !.box = FALSE, !.volume = FALSE] ELSE host

\* DockerClawRuntime.destroy: every container of a session has the same name.
Emptied(named) == IF named THEN [host EXCEPT !.box = FALSE] ELSE host

\* DockerClawRuntime.create: a container of the same name is removed, and a volume
\* is created only if there is none.
Filled(box) ==
    [box |-> box, volume |-> TRUE,
     volumes |-> IF host.volume THEN host.volumes ELSE host.volumes + 1, left |-> FALSE]

\* delete_session: the container if it is named, and the volume, which Docker does
\* not remove from under a container.
Wiped(named) ==
    LET left == Emptied(named) IN [left EXCEPT !.volume = left.volume /\ left.box]

\* The container exits, or is stopped by its own CLAW_TTL_SECONDS.
BoxDies ==
    /\ host.box
    /\ host' = [host EXCEPT !.box = FALSE]
    /\ UNCHANGED <<clawDoc, calls, provs, chats, bus>>

-----------------------------------------------------------------------------
(* get_session and list_sessions, restart_session, delete_session.         *)

CallIs(c, next) == calls' = [calls EXCEPT ![c] = next]
\* What follows _check_expiry: a view is answered.
Checked(c, my) == IF c \in Views THEN Closed ELSE At("act", my)

\* get_by_id and _check_expiry, up to its health check or update. A chat, a file
\* download and a terminal begin with it too: a view stands for the ones refused.
Read(c) ==
    /\ calls[c].pc = "idle"
    /\ \/ ~claw.exists /\ CallIs(c, Closed) /\ UNCHANGED host
       \/ /\ claw.exists /\ claw.session.status # "running"
          /\ CallIs(c, Checked(c, claw.session)) /\ UNCHANGED host
       \/ /\ claw.exists /\ claw.session.status = "running"
          /\ \/ /\ host' = Emptied(claw.session.named)     \* expired
                /\ CallIs(c, At("stop find", [claw.session EXCEPT !.status = "stopped",
                                                                 !.named = FALSE]))
             \/ /\ CallIs(c, IF claw.session.named THEN At("health", claw.session)
                             ELSE Checked(c, claw.session))
                /\ UNCHANGED host
    /\ UNCHANGED <<clawDoc, provs, chats, bus>>

\* A container that is there may still fail to answer in time.
Health(c) ==
    /\ calls[c].pc = "health"
    /\ \/ host.box /\ CallIs(c, Checked(c, calls[c].my))
       \/ CallIs(c, At("stop find", [calls[c].my EXCEPT !.status = "stopped"]))
    /\ UNCHANGED <<clawDoc, host, provs, chats, bus>>

\* restart_session and delete_session destroy what they know of. The Docker client
\* is synchronous: nothing runs between two of its calls.
Act(c) ==
    /\ calls[c].pc = "act"
    /\ \/ /\ c \in Restarts
          /\ host' = Emptied(calls[c].my.named)
          /\ CallIs(c, At("find", [model |-> c, status |-> "creating", named |-> FALSE]))
       \/ /\ c \in Deletes
          /\ host' = Wiped(calls[c].my.named)
          /\ CallIs(c, At("find", calls[c].my))
    /\ UNCHANGED <<clawDoc, provs, chats, bus>>

\* An update of a document that is not there raises, a delete returns.
CallFinds(c) ==
    /\ calls[c].pc \in {"stop find", "find"}
    /\ CallIs(c, IF ~claw.exists THEN Closed
                 ELSE [pc |-> IF calls[c].pc = "find" THEN "save" ELSE "stop save",
                       my |-> calls[c].my, found |-> claw])
    /\ UNCHANGED <<clawDoc, host, provs, chats, bus>>

Stopped(c) ==
    /\ calls[c].pc = "stop save"
    /\ Save(calls[c].found, Merged(calls[c].found, calls[c].my))
    /\ CallIs(c, Checked(c, calls[c].my))
    /\ UNCHANGED <<host, provs, chats, bus>>

\* The update of a restart, and the spawn of its provisioning task
Restarted(c) ==
    /\ c \in Restarts /\ calls[c].pc = "save"
    /\ Save(calls[c].found, Merged(calls[c].found, calls[c].my))
    /\ CallIs(c, Closed)
    /\ provs' = [provs EXCEPT ![c] = At("create", calls[c].my)]
    /\ UNCHANGED <<host, chats, bus>>

Deleted(c) ==
    /\ c \in Deletes /\ calls[c].pc = "save"
    /\ claw' = [claw EXCEPT !.exists = FALSE]
    /\ stale' = (stale \/ calls[c].my # claw.session)
    /\ CallIs(c, Closed)
    /\ UNCHANGED <<host, provs, chats, bus>>

-----------------------------------------------------------------------------
(* provision_session.                                                      *)

ProvIs(p, next) == provs' = [provs EXCEPT ![p] = next]
\* A fault of Failed: the handler only logs.
FailedNot(my) == At("error", my)

\* The exception handler: the status is in the object, not yet in the document.
Failed(my) == At("error", [my EXCEPT !.status = "error"])

\* Docker may fail before it removes a container, or after the volume is there.
Create(p) ==
    /\ provs[p].pc = "create"
    /\ \/ /\ host' = Filled(TRUE)
          /\ ProvIs(p, At("named find", [provs[p].my EXCEPT !.named = TRUE]))
       \/ /\ host' \in {[host EXCEPT !.left = host.box], Filled(FALSE)}
          /\ ProvIs(p, Failed(provs[p].my))
    /\ UNCHANGED <<clawDoc, calls, chats, bus>>

\* A container takes seconds to become ready: whoever had a command to Docker or
\* MongoDB to make before that has made it.
Writing(pc) == pc \notin {"idle", "health", "none", "wait", "run find", "run save", "closed"}
Slow(p) ==
    /\ \A c \in Calls : ~Writing(calls[c].pc)
    /\ \A q \in Provs \ {p} : ~Writing(provs[q].pc)

\* wait_for_ready polls an address: what answers may be another provisioning's
\* container.
Wait(p) ==
    /\ provs[p].pc = "wait"
    /\ \/ /\ host.box /\ Slow(p)
          /\ ProvIs(p, At("run find", [provs[p].my EXCEPT !.status = "running"]))
       \/ ProvIs(p, Failed(provs[p].my))
    /\ UNCHANGED <<clawDoc, host, calls, chats, bus>>

\* The update in the handler may fail: the exception is dropped.
ProvFinds(p) ==
    /\ provs[p].pc \in {"named find", "run find", "error find"}
    /\ ProvIs(p,
          IF claw.exists
          THEN [pc |-> CASE provs[p].pc = "named find" -> "named save"
                         [] provs[p].pc = "run find" -> "run save"
                         [] OTHER -> "error save",
                my |-> provs[p].my, found |-> claw]
          ELSE IF provs[p].pc = "error find" THEN Closed ELSE Failed(provs[p].my))
    /\ UNCHANGED <<clawDoc, host, calls, chats, bus>>

ProvSaves(p) ==
    /\ provs[p].pc \in {"named save", "run save", "error save"}
    /\ Save(provs[p].found, Merged(provs[p].found, provs[p].my))
    /\ ProvIs(p, IF provs[p].pc = "named save" THEN At("wait", provs[p].my) ELSE Closed)
    /\ UNCHANGED <<host, calls, chats, bus>>

\* A fault of Clear: the failed container is left.
ClearNot(my) == host

Clear(my) == Emptied(my.named)

Error(p) ==
    /\ provs[p].pc = "error"
    /\ host' = Clear(provs[p].my)
    /\ ProvIs(p, At("error find", [provs[p].my EXCEPT !.named = FALSE]))
    /\ UNCHANGED <<clawDoc, calls, chats, bus>>

-----------------------------------------------------------------------------
(* send_message, _process_chat and process_chat_stream.                    *)

ChatIs(c, pc) == chats' = [chats EXCEPT ![c] = [pc |-> pc, chunks |-> chats[c].chunks,
                                               found |-> NewDocument]]

\* validate_session_for_chat
Validate(c) ==
    /\ chats[c].pc = "idle"
    /\ claw.exists /\ claw.session.status = "running" /\ claw.session.named
    /\ ChatIs(c, "user find")
    /\ UNCHANGED <<clawDoc, host, calls, provs, bus>>

\* What a chat does after its append: _process_chat begins, or goes on.
AfterAppend(pc) == IF pc \in {"reply find", "reply save"} THEN "finish" ELSE "stream"
EntryKind(pc) == CASE pc = "user save" -> "user"
                   [] pc = "tool save" -> "tool"
                   [] pc = "reply save" -> "assistant"

\* The first append is followed by the task, whose state replaces another's.
Begins(c) ==
    IF chats[c].pc \in {"user find", "user save"}
    THEN state' = c /\ crowded' = (crowded \/ state # NoOne) /\ UNCHANGED client
    ELSE UNCHANGED bus

\* An append to a document that is not there returns.
ChatFinds(c) ==
    /\ chats[c].pc \in {"user find", "tool find", "reply find"}
    /\ IF claw.exists
       THEN /\ chats' = [chats EXCEPT
                   ![c] = [pc |-> CASE chats[c].pc = "user find" -> "user save"
                                    [] chats[c].pc = "tool find" -> "tool save"
                                    [] OTHER -> "reply save",
                           chunks |-> chats[c].chunks, found |-> claw]]
            /\ UNCHANGED bus
       ELSE ChatIs(c, AfterAppend(chats[c].pc)) /\ Begins(c)
    /\ UNCHANGED <<clawDoc, host, calls, provs>>

ChatSaves(c) ==
    /\ chats[c].pc \in {"user save", "tool save", "reply save"}
    /\ Save(chats[c].found, Appended(chats[c].found, <<c, EntryKind(chats[c].pc)>>))
    /\ ChatIs(c, AfterAppend(chats[c].pc)) /\ Begins(c)
    /\ UNCHANGED <<host, calls, provs>>

\* A chunk of text is added to the pending text, then published.
Chunk(c) ==
    /\ chats[c].pc = "stream" /\ host.box /\ chats[c].chunks < MaxChunks
    /\ chats' = [chats EXCEPT ![c].chunks = chats[c].chunks + 1]
    /\ client' = IF client.pc = "away" THEN client
                 ELSE [client EXCEPT !.got = client.got \cup {<<c, chats[c].chunks + 1>>}]
    /\ UNCHANGED <<clawDoc, host, calls, provs, state, crowded>>

\* The result of a tool is stored before the chunk is published; one per chat.
ToolResult(c) ==
    /\ chats[c].pc = "stream" /\ host.box /\ <<c, "tool">> \notin claw.messages
    /\ ChatIs(c, "tool find")
    /\ UNCHANGED <<clawDoc, host, calls, provs, bus>>

\* A fault of Ended: text is dropped when the stream breaks off.
EndedOff(c) == "finish"

\* The stream ends or raises: what it said is stored either way.
Ended(c) == IF chats[c].chunks > 0 THEN "reply find" ELSE "finish"

EndStream(c) ==
    /\ chats[c].pc = "stream"
    /\ ChatIs(c, Ended(c))
    /\ UNCHANGED <<clawDoc, host, calls, provs, bus>>

\* "done" is published, and the state dropped, whosever it is.
Finish(c) ==
    /\ chats[c].pc = "finish"
    /\ ChatIs(c, "closed") /\ state' = NoOne
    /\ UNCHANGED <<clawDoc, host, calls, provs, client, crowded>>

-----------------------------------------------------------------------------
(* A client of the WebSocket. Its queue is sent to it: `got` is both.      *)

Join ==
    /\ client.pc = "away" /\ claw.exists
    /\ client' = [pc |-> "joined", got |-> {}]
    /\ UNCHANGED <<clawDoc, host, calls, provs, chats, state, crowded>>

\* A fault of PendingText: there is no text before the first chunk is published.
PendingTextNot == {}

\* get_pending_content
PendingText == IF state = NoOne THEN {} ELSE {state} \X (1..chats[state].chunks)

\* The writer task starts with the pending text.
CatchUp ==
    /\ client.pc = "joined"
    /\ client' = [pc |-> "there", got |-> client.got \cup PendingText]
    /\ UNCHANGED <<clawDoc, host, calls, provs, chats, state, crowded>>

Leave ==
    /\ client.pc # "away"
    /\ client' = [pc |-> "away", got |-> {}]
    /\ UNCHANGED <<clawDoc, host, calls, provs, chats, state, crowded>>

CallStep(c) == Health(c) \/ Act(c) \/ CallFinds(c) \/ Stopped(c) \/ Restarted(c)
               \/ Deleted(c)
ProvStep(p) == Create(p) \/ Wait(p) \/ ProvFinds(p) \/ ProvSaves(p) \/ Error(p)
ChatStep(c) == ChatFinds(c) \/ ChatSaves(c) \/ EndStream(c) \/ Finish(c)

ClawNext ==
    \/ BoxDies \/ Join \/ CatchUp \/ Leave
    \/ \E c \in Calls : Read(c) \/ CallStep(c)
    \/ \E p \in Provs : ProvStep(p)
    \/ \E c \in Chats : Validate(c) \/ Chunk(c) \/ ToolResult(c) \/ ChatStep(c)

ClawSpec == ClawInit /\ [][ClawNext]_clawVars

\* What is under way in the process goes on: Docker, MongoDB and the polls of a
\* container return, and a stream ends.
ProvFairness(p) == WF_clawVars(ProvStep(p))

FairClawSpec ==
    /\ ClawSpec
    /\ \A c \in Calls : WF_clawVars(CallStep(c))
    /\ \A p \in Provs : ProvFairness(p)
    /\ \A c \in Chats : WF_clawVars(ChatStep(c))

-----------------------------------------------------------------------------
(* Properties.                                                             *)

\* The memory of a session survives its restarts, on whatever model, and the death
\* and the expiry of its containers: until a delete is asked for there is never a
\* second volume, and a container always has the first (restart_session,
\* _check_expiry, provision_session, DockerClawRuntime.create).
VolumeKept ==
    (\A d \in Deletes : calls[d].pc \in {"idle", "health", "stop find", "stop save", "act"}) =>
        /\ host.volumes <= 1
        /\ host.volumes = 1 => host.volume

\* When every call and every provisioning has ended, a container that runs is one
\* the session names, so that a restart, an expiry or a delete can destroy it; a
\* deleted session leaves none. Calls race each other and the provisioning of
\* earlier ones (restart_session, delete_session, provision_session). Excepted is
\* what one command to MongoDB in the middle of another's update does, and a
\* container of another that a failed creation did not come to replace: the failure
\* of the one before may have cleared its name already.
Quiet ==
    /\ \A c \in Calls : calls[c].pc \in {"idle", "closed"}
    /\ \A p \in Provs : provs[p].pc \in {"none", "closed"}
NoStrayContainer ==
    Quiet /\ host.box /\ ~host.left /\ ~stale => claw.exists /\ claw.session.named

\* A session does not stay in CREATING: each provisioning ends in RUNNING or ERROR,
\* also when its container fails, it is overtaken by a restart or the session is
\* deleted (provision_session).
Settled == ~claw.exists \/ claw.session.status # "creating" \/ stale
CreatingSettles == \A p \in Provs : (~Settled /\ claw.session.model = p) ~> Settled

\* A client that joins while a reply streams gets all of its text: what came before
\* from the pending text, the rest as it comes, with nothing lost between the two,
\* if there is one chat at a time (claw_ws, ClawEventBus, get_pending_content).
JoinSeesAll ==
    client.pc = "there" /\ state # NoOne /\ ~crowded =>
        {state} \X (1..chats[state].chunks) \subseteq client.got

\* When a client is told that a reply is done, the transcript it may load has the
\* request and the reply, also after the stream broke off, unless a save took them
\* out again (process_chat_stream, _process_chat).
DoneMeansStored ==
    \A c \in Chats :
        chats[c].pc = "closed" /\ chats[c].chunks > 0 /\ claw.exists /\ ~stale =>
            {<<c, "user">>, <<c, "assistant">>} \subseteq claw.messages
=============================================================================
