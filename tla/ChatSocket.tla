----------------------------- MODULE ChatSocket -----------------------------
(***************************************************************************)
(* One connection of the chat WebSocket (chat_ws), shared by the sessions  *)
(* that its tab switches between: the receive loop, which handles one      *)
(* frame of the client at a time, and the tasks it starts, each of which   *)
(* forwards the events of a session. What agent_service.chat does with the *)
(* session is AgentSession's matter: here it yields events until it ends   *)
(* or raises. A stream is named by the frame that started it.              *)
(***************************************************************************)
EXTENDS Naturals, FiniteSets

CONSTANTS Frames,   \* frames the client sends
          Rooms,    \* the sessions of the user
          NoRoom, NoFrame

ASSUME SocketAssumption == NoRoom \notin Rooms /\ NoFrame \notin Frames

VARIABLES
    receiver,  \* the receive loop: where it is, and the frame it handles
    joined,    \* joined_session_id
    current,   \* stream_task
    streams,   \* each frame's stream
    lastSent,  \* the last frame sent to the client
    told       \* the session the client was told that it is joined to

socketVars == <<receiver, joined, current, streams, lastSent, told>>

FrameType == {"join", "leave", "chat", "stop"}
ReceiverPC == {"receive", "find", "switch", "joined", "recall", "acked", "stopping", "stopped",
               "closed"}
StreamPC == {"none", "get", "send", "wait", "final", "end", "failing", "failed", "over"}
\* "completed" is the status_update of that value that answers a stop_session; "status" is
\* every other one.
SentKind == {"joined", "left", "stopped", "completed", "ack", "error", "event", "status",
             "stream_end"}
MaybeRoom == Rooms \cup {NoRoom}
MaybeFrame == Frames \cup {NoFrame}

SocketTypeOK ==
    /\ receiver \in [pc: ReceiverPC, frame: MaybeFrame, type: FrameType, room: MaybeRoom]
    /\ joined \in MaybeRoom /\ told \in MaybeRoom
    /\ current \in MaybeFrame
    /\ streams \in [Frames -> [pc: StreamPC, room: MaybeRoom, received: BOOLEAN]]
    /\ lastSent \in [kind: SentKind, room: MaybeRoom]

Waiting == [pc |-> "receive", frame |-> NoFrame, type |-> "leave", room |-> NoRoom]

SocketInit ==
    /\ receiver = Waiting
    /\ joined = NoRoom /\ told = NoRoom
    /\ current = NoFrame
    /\ streams = [f \in Frames |-> [pc |-> "none", room |-> NoRoom, received |-> FALSE]]
    /\ lastSent = [kind |-> "left", room |-> NoRoom]

Send(kind, s) == lastSent' = [kind |-> kind, room |-> s]

-----------------------------------------------------------------------------
(* The receive loop.                                                       *)

ReceiverAt(pc) == receiver' = [receiver EXCEPT !.pc = pc]
Handled == receiver' = Waiting

\* A fault of Cancelled: the task is let go of, not cancelled.
CancelledNot == streams

\* cancel_stream: the task ends at the await it is in before the loop goes on.
Cancelled == IF current = NoFrame THEN streams
             ELSE [streams EXCEPT ![current].pc = "over", ![current].room = NoRoom]

Arrives(f) == receiver.pc = "receive" /\ ~streams[f].received
Received(f) == [streams EXCEPT ![f].received = TRUE]
Takes(f, pc, type, s) ==
    /\ receiver' = [pc |-> pc, frame |-> f, type |-> type, room |-> s]
    /\ streams' = Received(f)

\* A frame that is malformed, of another version or of a type unknown is refused.
Refuse(f) ==
    /\ Arrives(f)
    /\ Send("error", NoRoom)
    /\ streams' = Received(f)
    /\ UNCHANGED <<receiver, joined, current, told>>

ReceiveJoin(f) ==
    /\ Arrives(f)
    /\ \E s \in Rooms : Takes(f, "find", "join", s)
    /\ UNCHANGED <<joined, current, lastSent, told>>

ReceiveStop(f) ==
    /\ Arrives(f)
    /\ \E s \in Rooms : Takes(f, "stopping", "stop", s)
    /\ UNCHANGED <<joined, current, lastSent, told>>

\* A chat frame is acknowledged, for the session that is joined only.
ReceiveChat(f) ==
    /\ Arrives(f)
    /\ \E s \in Rooms :
          \/ s = joined /\ Send("ack", s) /\ Takes(f, "acked", "chat", s)
          \/ /\ s # joined /\ Send("error", s)
             /\ streams' = Received(f) /\ UNCHANGED receiver
    /\ UNCHANGED <<joined, current, told>>

\* leave_session, of the session joined unless it names one. Another than that joined
\* is passed over.
LeaveRoom(f) ==
    /\ Arrives(f)
    /\ \E s \in Rooms :
          \/ /\ s = joined
             /\ streams' = [Cancelled EXCEPT ![f].received = TRUE]
             /\ current' = NoFrame /\ joined' = NoRoom
             /\ Send("left", s) /\ told' = NoRoom
          \/ /\ s # joined
             /\ streams' = Received(f)
             /\ UNCHANGED <<current, joined, lastSent, told>>
    /\ UNCHANGED receiver

\* join_session finds the session, or not.
JoinFinds ==
    /\ receiver.pc = "find"
    /\ \/ Send("error", receiver.room) /\ Handled
       \/ /\ ReceiverAt(IF joined \in {NoRoom, receiver.room} THEN "joined" ELSE "switch")
          /\ UNCHANGED lastSent
    /\ UNCHANGED <<joined, current, streams, told>>

\* The session joined before is left first.
JoinLeaves ==
    /\ receiver.pc = "switch"
    /\ streams' = Cancelled
    /\ current' = NoFrame /\ joined' = NoRoom
    /\ Send("left", joined) /\ told' = NoRoom
    /\ ReceiverAt("joined")

\* The session found runs, so that its stream is resumed after the client's cursor, or
\* it does not.
Joins ==
    /\ receiver.pc = "joined"
    /\ joined' = receiver.room /\ told' = receiver.room
    /\ Send("joined", receiver.room)
    /\ \E pc \in {"acked", "recall"} : ReceiverAt(pc)
    /\ UNCHANGED <<current, streams>>

\* What MongoDB has after that cursor, and the status. A stream that an earlier join
\* of the session started runs on.
Recalls ==
    /\ receiver.pc = "recall"
    /\ \/ Send("event", receiver.room) /\ UNCHANGED receiver
       \/ Send("status", receiver.room) /\ Handled
    /\ UNCHANGED <<joined, current, streams, told>>

\* start_stream, after status_update(running)
Starts ==
    /\ receiver.pc = "acked"
    /\ streams' = [Cancelled EXCEPT ![receiver.frame].pc = "get", ![receiver.frame].room = receiver.room]
    /\ current' = receiver.frame
    /\ Send("status", receiver.room)
    /\ Handled
    /\ UNCHANGED <<joined, told>>

\* stop_session of the session that the frame names, whichever is joined: the stream of
\* the one joined runs on until it ends.
StopRoom ==
    /\ receiver.pc = "stopping"
    /\ \/ Send("stopped", receiver.room) /\ ReceiverAt("stopped")
       \/ Send("error", receiver.room) /\ Handled
    /\ UNCHANGED <<joined, current, streams, told>>

SendsCompleted ==
    /\ receiver.pc = "stopped"
    /\ Send("completed", receiver.room)
    /\ Handled
    /\ UNCHANGED <<joined, current, streams, told>>

\* The client is gone, or a frame could not be sent.
Disconnects ==
    /\ receiver.pc # "closed"
    /\ streams' = Cancelled /\ current' = NoFrame
    /\ receiver' = [Waiting EXCEPT !.pc = "closed"]
    /\ UNCHANGED <<joined, lastSent, told>>

-----------------------------------------------------------------------------
(* stream_session, in the task that frame f started.                       *)

StreamAt(f, pc) == streams' = [streams EXCEPT ![f].pc = pc]
\* `_run` clears stream_task as it ends.
Over(f) ==
    /\ streams' = [streams EXCEPT ![f].pc = "over", ![f].room = NoRoom]
    /\ current' = NoFrame

\* chat() yields an event, to be mapped and sent if the session is still joined.
Yields(f) ==
    /\ streams[f].pc = "get"
    /\ IF joined = streams[f].room THEN StreamAt(f, "send") /\ UNCHANGED current ELSE Over(f)
    /\ UNCHANGED <<receiver, joined, lastSent, told>>

\* A WaitEvent is followed by the status.
SendsEvent(f) ==
    /\ streams[f].pc = "send"
    /\ Send("event", streams[f].room)
    /\ \E pc \in {"get", "wait"} : StreamAt(f, pc)
    /\ UNCHANGED <<receiver, joined, current, told>>

SendsWaiting(f) ==
    /\ streams[f].pc = "wait"
    /\ Send("status", streams[f].room)
    /\ StreamAt(f, "get")
    /\ UNCHANGED <<receiver, joined, current, told>>

\* chat() ends, and the status that the session has now is read.
ChatEnds(f) ==
    /\ streams[f].pc = "get"
    /\ IF joined = streams[f].room THEN StreamAt(f, "final") /\ UNCHANGED current ELSE Over(f)
    /\ UNCHANGED <<receiver, joined, lastSent, told>>

\* The status_update, then stream_end
SendsStatus(f) ==
    /\ streams[f].pc = "final"
    /\ Send("status", streams[f].room)
    /\ StreamAt(f, "end")
    /\ UNCHANGED <<receiver, joined, current, told>>

SendsEnd(f) ==
    /\ streams[f].pc = "end"
    /\ Send("stream_end", streams[f].room)
    /\ Over(f)
    /\ UNCHANGED <<receiver, joined, told>>

Fails(f) ==
    /\ streams[f].pc \in {"get", "send", "wait", "final", "end"}
    /\ StreamAt(f, "failing")
    /\ UNCHANGED <<receiver, joined, current, lastSent, told>>

\* The error is sent in any case, the status to a client that is still joined.
SendsError(f) ==
    /\ streams[f].pc = "failing"
    /\ Send("error", streams[f].room)
    /\ IF joined = streams[f].room THEN StreamAt(f, "failed") /\ UNCHANGED current ELSE Over(f)
    /\ UNCHANGED <<receiver, joined, told>>

SendsFailed(f) ==
    /\ streams[f].pc = "failed"
    /\ Send("status", streams[f].room)
    /\ Over(f)
    /\ UNCHANGED <<receiver, joined, told>>

SocketNext ==
    \/ \E f \in Frames : Refuse(f) \/ ReceiveJoin(f) \/ ReceiveStop(f) \/ ReceiveChat(f)
                         \/ LeaveRoom(f)
    \/ JoinFinds \/ JoinLeaves \/ Joins \/ Recalls \/ Starts
    \/ StopRoom \/ SendsCompleted \/ Disconnects
    \/ \E f \in Frames : Yields(f) \/ SendsEvent(f) \/ SendsWaiting(f) \/ ChatEnds(f)
                         \/ SendsStatus(f) \/ SendsEnd(f)
                         \/ Fails(f) \/ SendsError(f) \/ SendsFailed(f)

SocketSpec == SocketInit /\ [][SocketNext]_socketVars

-----------------------------------------------------------------------------
\* A tab that was told it left a session hears no more of what goes on in it: events,
\* statuses and stream_end are of the session it was last told that it joined. A stream
\* of before may be between its test of joined_session_id and its send when the tab
\* leaves or switches (cancel_stream). Only the "completed" that answers a stop_session
\* of the tab itself is of the session which that frame named, joined or not.
OfJoinedOnly == lastSent.kind \in {"event", "status", "stream_end"} => lastSent.room = told
=============================================================================
