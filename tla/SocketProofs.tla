---------------------------- MODULE SocketProofs ----------------------------
(***************************************************************************)
(* Theorems about the two WebSockets and what streams through them: a chat *)
(* client hears only of the session it is joined to (ChatSocket), for any  *)
(* number of frames and sessions; and a claw session keeps its volume, its *)
(* text and its replies (ClawSession), for any number of calls and chats.  *)
(***************************************************************************)
EXTENDS ChatSocket, ClawSession, TLAPS

-----------------------------------------------------------------------------
(* The chat socket.                                                        *)

Stream == [pc: StreamPC, room: MaybeRoom, received: BOOLEAN]
Receiver == [pc: ReceiverPC, frame: MaybeFrame, type: FrameType, room: MaybeRoom]
Sent == [kind: SentKind, room: MaybeRoom]

LiveStream(f) ==
    streams[f].pc \in {"get", "send", "wait", "final", "end", "failing", "failed"}

\* The client knows what is joined,
ToldWhatIsJoined == told = joined

\* the frame that is handled names a session, joined or free to be joined,
HandlesJoin ==
    /\ receiver.pc \in {"find", "switch", "joined", "recall", "acked"} => receiver.room \in Rooms
    /\ receiver.pc = "joined" => joined \in {NoRoom, receiver.room}
    /\ receiver.pc \in {"recall", "acked"} => joined = receiver.room

\* and the one stream that lives is stream_task, of the session joined.
StreamsOfJoined ==
    \A f \in Frames :
        LiveStream(f) => f = current /\ streams[f].room = joined /\ joined \in Rooms

SocketInv == SocketTypeOK /\ ToldWhatIsJoined /\ HandlesJoin /\ StreamsOfJoined /\ OfJoinedOnly

-----------------------------------------------------------------------------
(* The types.                                                              *)

\* After cancel_stream the stream of stream_task is over.
LEMMA CancelledStreams ==
    ASSUME SocketTypeOK
    PROVE  /\ Cancelled \in [Frames -> Stream]
           /\ current \in Frames => Cancelled[current].pc = "over"
           /\ \A f \in Frames : f # current => Cancelled[f] = streams[f]
<1>1. streams \in [Frames -> Stream]
    BY DEF SocketTypeOK, Stream
<1>2. CASE current = NoFrame
    BY <1>1, <1>2, SocketAssumption DEF Cancelled
<1>3. CASE current # NoFrame
    BY <1>1, <1>3 DEF Cancelled, Stream, StreamPC, MaybeRoom
<1> QED
    BY <1>2, <1>3

\* What one frame's stream may become.
LEMMA StreamTyped ==
    ASSUME NEW s \in [Frames -> Stream], NEW f, NEW pc \in StreamPC, NEW r \in MaybeRoom
    PROVE  /\ [s EXCEPT ![f].pc = pc] \in [Frames -> Stream]
           /\ [s EXCEPT ![f].pc = pc, ![f].room = r] \in [Frames -> Stream]
           /\ [s EXCEPT ![f].received = TRUE] \in [Frames -> Stream]
BY DEF Stream

LEMMA SocketTypeStep == SocketTypeOK /\ [SocketNext]_socketVars => SocketTypeOK'
<1> SUFFICES ASSUME SocketTypeOK, [SocketNext]_socketVars PROVE SocketTypeOK'
    OBVIOUS
<1>1. /\ receiver \in Receiver /\ joined \in MaybeRoom /\ told \in MaybeRoom
      /\ current \in MaybeFrame /\ streams \in [Frames -> Stream] /\ lastSent \in Sent
    BY DEF SocketTypeOK, Receiver, Stream, Sent
<1>2. Waiting \in Receiver
    BY DEF Waiting, Receiver, ReceiverPC, FrameType, MaybeFrame, MaybeRoom
<1>3. \A kind \in SentKind, r \in MaybeRoom : Send(kind, r) => lastSent' \in Sent
    BY DEF Send, Sent
<1>4. \A pc \in ReceiverPC : ReceiverAt(pc) => receiver' \in Receiver
    BY <1>1 DEF ReceiverAt, Receiver
<1>5. receiver.room \in MaybeRoom /\ receiver.frame \in MaybeFrame
    BY <1>1 DEF Receiver
<1>6. Rooms \subseteq MaybeRoom /\ NoRoom \in MaybeRoom /\ Frames \subseteq MaybeFrame /\ NoFrame \in MaybeFrame
    BY DEF MaybeRoom, MaybeFrame
<1>7. Cancelled \in [Frames -> Stream]
    BY CancelledStreams
<1>8. SUFFICES /\ receiver' \in Receiver /\ joined' \in MaybeRoom /\ told' \in MaybeRoom
               /\ current' \in MaybeFrame /\ streams' \in [Frames -> Stream] /\ lastSent' \in Sent
    BY DEF SocketTypeOK, Receiver, Stream, Sent
<1>9. CASE UNCHANGED socketVars
    BY <1>1, <1>9 DEF socketVars
<1>10. ASSUME NEW f \in Frames, Refuse(f) \/ ReceiveJoin(f) \/ ReceiveStop(f) \/ ReceiveChat(f)
       PROVE  /\ receiver' \in Receiver /\ joined' \in MaybeRoom /\ told' \in MaybeRoom
              /\ current' \in MaybeFrame /\ streams' \in [Frames -> Stream] /\ lastSent' \in Sent
    <2>0. Received(f) \in [Frames -> Stream]
        BY <1>1 DEF Received, Stream
    <2>1. \A pc \in ReceiverPC, type \in FrameType, r \in Rooms :
              Takes(f, pc, type, r) => receiver' \in Receiver /\ streams' \in [Frames -> Stream]
        <3>1. \A pc \in ReceiverPC, type \in FrameType, r \in Rooms :
                  [pc |-> pc, frame |-> f, type |-> type, room |-> r] \in Receiver
            BY <1>6 DEF Receiver
        <3> QED
            BY <2>0, <3>1 DEF Takes
    <2>3. {"error", "ack"} \subseteq SentKind /\ {"find", "stopping", "acked"} \subseteq ReceiverPC
          /\ {"join", "stop", "chat"} \subseteq FrameType
        BY DEF SentKind, ReceiverPC, FrameType
    <2> QED
        BY <1>1, <1>3, <1>6, <1>10, <2>0, <2>1, <2>3 DEF Refuse, ReceiveJoin, ReceiveStop, ReceiveChat
<1>11. ASSUME NEW f \in Frames, LeaveRoom(f)
       PROVE  /\ receiver' \in Receiver /\ joined' \in MaybeRoom /\ told' \in MaybeRoom
              /\ current' \in MaybeFrame /\ streams' \in [Frames -> Stream] /\ lastSent' \in Sent
    <2>1. Received(f) \in [Frames -> Stream] /\ [Cancelled EXCEPT ![f].received = TRUE] \in [Frames -> Stream]
        BY <1>1, <1>7 DEF Received, Stream
    <2>2. "left" \in SentKind
        BY DEF SentKind
    <2> QED
        BY <1>1, <1>3, <1>6, <1>11, <2>1, <2>2 DEF LeaveRoom
<1>12. CASE JoinFinds \/ JoinLeaves \/ Joins \/ Recalls \/ StopRoom \/ SendsCompleted
    <2>1. {"error", "left", "joined", "event", "status", "stopped", "completed"} \subseteq SentKind
          /\ {"joined", "switch", "acked", "recall", "stopped"} \subseteq ReceiverPC
        BY DEF SentKind, ReceiverPC
    <2>2. CASE JoinFinds
        BY <1>1, <1>2, <1>3, <1>4, <1>5, <2>1, <2>2 DEF JoinFinds, Handled
    <2>3. CASE JoinLeaves
        BY <1>1, <1>3, <1>4, <1>6, <1>7, <2>1, <2>3 DEF JoinLeaves
    <2>4. CASE Joins
        BY <1>1, <1>2, <1>3, <1>4, <1>5, <2>1, <2>4 DEF Joins
    <2>5. CASE Recalls
        BY <1>1, <1>2, <1>3, <1>5, <2>1, <2>5 DEF Recalls, Handled
    <2>6. CASE StopRoom \/ SendsCompleted
        BY <1>1, <1>2, <1>3, <1>4, <1>5, <2>1, <2>6 DEF StopRoom, SendsCompleted, Handled
    <2> QED
        BY <1>12, <2>2, <2>3, <2>4, <2>5, <2>6
<1>13. CASE Starts
    <2>1. "status" \in SentKind /\ "get" \in StreamPC
        BY DEF SentKind, StreamPC
    <2>2. streams' \in [Frames -> Stream]
        BY <1>5, <1>7, <1>13, <2>1, StreamTyped DEF Starts
    <2> QED
        BY <1>1, <1>2, <1>3, <1>5, <1>13, <2>1, <2>2 DEF Starts, Handled
<1>14. CASE Disconnects
    BY <1>1, <1>2, <1>6, <1>7, <1>14 DEF Disconnects, Receiver, ReceiverPC
<1>15. ASSUME NEW f \in Frames,
              \/ Yields(f) \/ SendsEvent(f) \/ SendsWaiting(f)
           \/ ChatEnds(f) \/ SendsStatus(f) \/ SendsEnd(f)
              \/ Fails(f) \/ SendsError(f) \/ SendsFailed(f)
       PROVE  /\ receiver' \in Receiver /\ joined' \in MaybeRoom /\ told' \in MaybeRoom
              /\ current' \in MaybeFrame /\ streams' \in [Frames -> Stream] /\ lastSent' \in Sent
    <2>1. {"event", "stream_end", "error", "status"} \subseteq SentKind
          /\ {"get", "send", "wait", "final", "end", "failing", "failed", "over"} \subseteq StreamPC
        BY DEF SentKind, StreamPC
    <2>2. \A pc \in StreamPC : StreamAt(f, pc) => streams' \in [Frames -> Stream]
        BY <1>1 DEF StreamAt, Stream
    <2>3. Over(f) => streams' \in [Frames -> Stream] /\ current' \in MaybeFrame
        <3>1. [streams EXCEPT ![f].pc = "over", ![f].room = NoRoom] \in [Frames -> Stream]
            BY <1>1, <1>6, <2>1, StreamTyped
        <3> QED
            BY <1>6, <3>1 DEF Over
    <2>4. streams[f].room \in MaybeRoom
        BY <1>1 DEF Stream
    <2> QED
        BY <1>1, <1>3, <1>15, <2>1, <2>2, <2>3, <2>4
        DEF Yields, SendsEvent, SendsWaiting, ChatEnds, SendsStatus, SendsEnd, Fails, SendsError,
            SendsFailed
<1> QED
    BY <1>9, <1>10, <1>11, <1>12, <1>13, <1>14, <1>15 DEF SocketNext

LEMMA SocketTypeInit == SocketInit => SocketTypeOK
BY DEF SocketInit, SocketTypeOK, Waiting, ReceiverPC, FrameType, StreamPC, SentKind,
       MaybeRoom, MaybeFrame

-----------------------------------------------------------------------------
(* What the client hears.                                                  *)

\* A step of a stream leaves the others alone, and says what it says of its own room.
LEMMA StreamFrame ==
    ASSUME SocketTypeOK, NEW f \in Frames,
           \/ Yields(f) \/ SendsEvent(f) \/ SendsWaiting(f)
           \/ ChatEnds(f) \/ SendsStatus(f) \/ SendsEnd(f)
           \/ Fails(f) \/ SendsError(f) \/ SendsFailed(f)
    PROVE  /\ LiveStream(f)
           /\ \A g \in Frames : g # f => streams'[g] = streams[g]
           /\ \/ current' = current /\ streams'[f].room = streams[f].room
              \/ streams'[f].pc = "over"
           /\ \/ lastSent' = lastSent
              \/ lastSent'.room = streams[f].room
           /\ UNCHANGED <<receiver, joined, told>>
<1>1. streams \in [Frames -> Stream]
    BY DEF SocketTypeOK, Stream
<1>2. \A pc : StreamAt(f, pc) =>
          /\ \A g \in Frames : g # f => streams'[g] = streams[g]
          /\ streams'[f].room = streams[f].room
    BY <1>1 DEF StreamAt, Stream
<1>3. Over(f) =>
          /\ \A g \in Frames : g # f => streams'[g] = streams[g]
          /\ streams'[f].pc = "over"
    BY <1>1 DEF Over, Stream
<1>4. \A kind, r : Send(kind, r) => lastSent'.room = r
    BY DEF Send
<1>5. CASE Yields(f) \/ ChatEnds(f) \/ Fails(f)
    BY <1>2, <1>3, <1>5 DEF Yields, ChatEnds, Fails, LiveStream
<1>6. CASE \/ SendsEvent(f) \/ SendsWaiting(f) \/ SendsStatus(f) \/ SendsEnd(f)
           \/ SendsError(f) \/ SendsFailed(f)
    BY <1>2, <1>3, <1>4, <1>6
    DEF SendsEvent, SendsWaiting, SendsStatus, SendsEnd, SendsError, SendsFailed, LiveStream
<1> QED
    BY <1>5, <1>6

LEMMA SocketInvInit == SocketInit => SocketInv
<1> SUFFICES ASSUME SocketInit PROVE SocketInv
    OBVIOUS
<1>1. HandlesJoin /\ ToldWhatIsJoined
    BY DEF SocketInit, HandlesJoin, ToldWhatIsJoined, Waiting
<1>2. StreamsOfJoined /\ OfJoinedOnly
    BY DEF SocketInit, StreamsOfJoined, OfJoinedOnly, LiveStream
<1> QED
    BY <1>1, <1>2, SocketTypeInit DEF SocketInv

LEMMA SocketInvStep == SocketInv /\ [SocketNext]_socketVars => SocketInv'
<1> SUFFICES ASSUME SocketInv, [SocketNext]_socketVars
             PROVE  ToldWhatIsJoined' /\ HandlesJoin' /\ StreamsOfJoined' /\ OfJoinedOnly'
    BY SocketTypeStep DEF SocketInv
<1> DEFINE Safe == ToldWhatIsJoined' /\ HandlesJoin' /\ StreamsOfJoined' /\ OfJoinedOnly'
<1>1. /\ SocketTypeOK /\ ToldWhatIsJoined /\ HandlesJoin /\ StreamsOfJoined /\ OfJoinedOnly
      /\ receiver \in Receiver /\ streams \in [Frames -> Stream]
    BY DEF SocketInv, SocketTypeOK, Receiver, Stream
<1>2. /\ Cancelled \in [Frames -> Stream]
      /\ \A f \in Frames : Cancelled[f].pc \in {"get", "send", "wait", "final", "end", "failing", "failed"} => FALSE
    <2>1. \A f \in Frames : f # current => ~ LiveStream(f)
        BY <1>1 DEF StreamsOfJoined
    <2> QED
        BY <1>1, <2>1, CancelledStreams DEF LiveStream
<1>3. NoRoom \notin Rooms
    BY SocketAssumption
<1>4. \A kind, r : Send(kind, r) => lastSent' = [kind |-> kind, room |-> r]
    BY DEF Send
<1>5. Handled => receiver'.pc = "receive"
    BY DEF Handled, Waiting
<1>6. \A pc : ReceiverAt(pc) => receiver'.pc = pc /\ receiver'.room = receiver.room
    BY <1>1 DEF ReceiverAt, Receiver
<1>7. CASE UNCHANGED socketVars
    BY <1>1, <1>7 DEF socketVars, ToldWhatIsJoined, HandlesJoin, StreamsOfJoined, OfJoinedOnly,
        LiveStream
<1>8. ASSUME NEW f \in Frames, Refuse(f) \/ ReceiveJoin(f) \/ ReceiveStop(f) \/ ReceiveChat(f)
      PROVE  Safe
    <2>1. UNCHANGED <<joined, told, current>> /\ streams' = Received(f)
        BY <1>8 DEF Refuse, ReceiveJoin, ReceiveStop, ReceiveChat, Takes
    <2>2. \A g \in Frames : streams'[g].pc = streams[g].pc /\ streams'[g].room = streams[g].room
        BY <1>1, <2>1 DEF Received, Stream
    <2>3. StreamsOfJoined'
        BY <1>1, <2>1, <2>2 DEF StreamsOfJoined, LiveStream
    <2>4. HandlesJoin'
        BY <1>1, <1>8, <2>1 DEF HandlesJoin, Refuse, ReceiveJoin, ReceiveStop, ReceiveChat, Takes,
            Arrives
    <2>5. OfJoinedOnly'
        BY <1>1, <1>4, <1>8, <2>1 DEF OfJoinedOnly, Refuse, ReceiveJoin, ReceiveStop, ReceiveChat
    <2> QED
        BY <1>1, <2>1, <2>3, <2>4, <2>5 DEF ToldWhatIsJoined
<1>9. ASSUME NEW f \in Frames, LeaveRoom(f) PROVE Safe
    <2>1. receiver.pc = "receive" /\ receiver' = receiver
        BY <1>9 DEF LeaveRoom, Arrives
    <2>2. CASE streams' = [Cancelled EXCEPT ![f].received = TRUE] /\ joined' = NoRoom /\ told' = NoRoom
               /\ \E s \in Rooms : Send("left", s)
        <3>1. \A g \in Frames : ~ LiveStream(g)'
            BY <1>2, <2>2 DEF LiveStream, Stream
        <3> QED
            BY <1>4, <2>1, <2>2, <3>1
            DEF ToldWhatIsJoined, HandlesJoin, StreamsOfJoined, OfJoinedOnly
    <2>3. CASE streams' = Received(f) /\ UNCHANGED <<current, joined, lastSent, told>>
        <3>1. \A g \in Frames : streams'[g].pc = streams[g].pc /\ streams'[g].room = streams[g].room
            BY <1>1, <2>3 DEF Received, Stream
        <3> QED
            BY <1>1, <2>1, <2>3, <3>1
            DEF ToldWhatIsJoined, HandlesJoin, StreamsOfJoined, OfJoinedOnly, LiveStream
    <2> QED
        BY <1>9, <2>2, <2>3 DEF LeaveRoom
<1>10. CASE JoinFinds
    <2>1. UNCHANGED <<joined, current, streams, told>>
        BY <1>10 DEF JoinFinds
    <2>2. HandlesJoin'
        BY <1>1, <1>5, <1>6, <1>10 DEF JoinFinds, HandlesJoin
    <2>3. OfJoinedOnly'
        BY <1>1, <1>4, <1>10 DEF JoinFinds, OfJoinedOnly
    <2> QED
        BY <1>1, <2>1, <2>2, <2>3 DEF ToldWhatIsJoined, StreamsOfJoined, LiveStream
<1>11. CASE JoinLeaves
    <2>1. \A g \in Frames : ~ LiveStream(g)'
        BY <1>2, <1>11 DEF JoinLeaves, LiveStream
    <2>2. HandlesJoin'
        BY <1>1, <1>6, <1>11 DEF JoinLeaves, HandlesJoin
    <2> QED
        BY <1>4, <1>11, <2>1, <2>2 DEF JoinLeaves, ToldWhatIsJoined, StreamsOfJoined, OfJoinedOnly
<1>12. CASE Joins
    <2>1. /\ receiver.room \in Rooms /\ joined \in {NoRoom, receiver.room}
          /\ joined' = receiver.room /\ told' = receiver.room
          /\ UNCHANGED <<current, streams>>
        BY <1>1, <1>12 DEF Joins, HandlesJoin
    <2>2. StreamsOfJoined'
        BY <1>1, <1>3, <2>1 DEF StreamsOfJoined, LiveStream
    <2>3. HandlesJoin'
        BY <1>5, <1>6, <1>12, <2>1 DEF Joins, HandlesJoin
    <2>4. OfJoinedOnly'
        BY <1>4, <1>12, <2>1 DEF Joins, OfJoinedOnly
    <2> QED
        BY <2>1, <2>2, <2>3, <2>4 DEF ToldWhatIsJoined
<1>13. CASE Starts
    <2>1. receiver.room \in Rooms /\ joined = receiver.room /\ UNCHANGED <<joined, told>>
        BY <1>1, <1>13 DEF Starts, HandlesJoin
    <2>2. \A g \in Frames : g # receiver.frame => ~ LiveStream(g)'
        BY <1>2, <1>13 DEF Starts, LiveStream
    <2>3. receiver.frame \in Frames => streams'[receiver.frame].room = receiver.room
        BY <1>2, <1>13 DEF Starts, Stream
    <2>4. StreamsOfJoined'
        BY <1>13, <2>1, <2>2, <2>3 DEF Starts, StreamsOfJoined
    <2> QED
        BY <1>1, <1>4, <1>5, <1>13, <2>1, <2>4
        DEF Starts, ToldWhatIsJoined, HandlesJoin, OfJoinedOnly
<1>14. CASE StopRoom \/ SendsCompleted
    <2>1. OfJoinedOnly'
        BY <1>1, <1>4, <1>14 DEF StopRoom, SendsCompleted, OfJoinedOnly
    <2>2. UNCHANGED <<joined, current, streams, told>>
        BY <1>14 DEF StopRoom, SendsCompleted
    <2>3. HandlesJoin'
        BY <1>5, <1>6, <1>14 DEF StopRoom, SendsCompleted, HandlesJoin
    <2> QED
        BY <1>1, <2>1, <2>2, <2>3 DEF ToldWhatIsJoined, StreamsOfJoined, LiveStream
<1>15. CASE Disconnects
    <2>1. \A g \in Frames : ~ LiveStream(g)'
        BY <1>2, <1>15 DEF Disconnects, LiveStream
    <2> QED
        BY <1>1, <1>15, <2>1
        DEF Disconnects, Waiting, ToldWhatIsJoined, HandlesJoin, StreamsOfJoined, OfJoinedOnly
<1>16. ASSUME NEW f \in Frames,
              \/ Yields(f) \/ SendsEvent(f) \/ SendsWaiting(f)
           \/ ChatEnds(f) \/ SendsStatus(f) \/ SendsEnd(f)
              \/ Fails(f) \/ SendsError(f) \/ SendsFailed(f)
       PROVE  Safe
    <2>1. LiveStream(f) /\ f = current /\ streams[f].room = joined
        BY <1>1, <1>16, StreamFrame DEF StreamsOfJoined
    <2>2. /\ \A g \in Frames : g # f => streams'[g] = streams[g]
          /\ \/ current' = current /\ streams'[f].room = streams[f].room
             \/ streams'[f].pc = "over"
          /\ UNCHANGED <<receiver, joined, told>>
        BY <1>1, <1>16, StreamFrame
    <2>3. StreamsOfJoined'
        BY <1>1, <2>1, <2>2 DEF StreamsOfJoined, LiveStream
    <2>4. OfJoinedOnly'
        BY <1>1, <1>16, <2>1, <2>2, StreamFrame DEF OfJoinedOnly, ToldWhatIsJoined
    <2> QED
        BY <1>1, <2>2, <2>3, <2>4 DEF ToldWhatIsJoined, HandlesJoin
<1>17. CASE Recalls
    <2>1. UNCHANGED <<joined, current, streams, told>> /\ joined = receiver.room
        BY <1>1, <1>17 DEF Recalls, HandlesJoin
    <2>2. HandlesJoin'
        BY <1>1, <1>5, <1>17, <2>1 DEF Recalls, HandlesJoin
    <2>3. OfJoinedOnly'
        BY <1>1, <1>4, <1>17, <2>1 DEF Recalls, OfJoinedOnly, ToldWhatIsJoined
    <2> QED
        BY <1>1, <2>1, <2>2, <2>3 DEF ToldWhatIsJoined, StreamsOfJoined, LiveStream
<1> QED
    BY <1>7, <1>8, <1>9, <1>10, <1>11, <1>12, <1>13, <1>14, <1>15, <1>16, <1>17 DEF SocketNext

\* The loop, stream_task and the streams keep their types.
THEOREM SocketTypes == SocketSpec => []SocketTypeOK
BY SocketTypeInit, SocketTypeStep, PTL DEF SocketSpec

\* chat_ws: of a session the client was told it left, or switched from, it gets no
\* event, status or stream_end any more, whatever the streams were in the middle of;
\* only the answer to a stop_session of its own may be of another session.
THEOREM HearsOfJoined == SocketSpec => []OfJoinedOnly
<1>1. SocketInv => OfJoinedOnly
    BY DEF SocketInv
<1> QED
    BY <1>1, SocketInvInit, SocketInvStep, PTL DEF SocketSpec

-----------------------------------------------------------------------------
(* The claw session: types.                                                *)

CallRecord == [pc: CallPC, my: Session, found: Document]
ProvRecord == [pc: ProvPC, my: Session, found: Document]
ChatRecord == [pc: ChatPC, chunks: 0..MaxChunks, found: Document]
HostRecord == [box: BOOLEAN, volume: BOOLEAN, volumes: Nat, left: BOOLEAN]
ClientRecord == [pc: {"away", "joined", "there"}, got: SUBSET Text]

\* ClawTypeOK, with its sets of records named.
ClawTyped ==
    /\ claw \in Document /\ host \in HostRecord
    /\ calls \in [Calls -> CallRecord]
    /\ provs \in [Provs -> ProvRecord]
    /\ chats \in [Chats -> ChatRecord]
    /\ state \in Chats \cup {NoOne} /\ client \in ClientRecord
    /\ stale \in BOOLEAN /\ crowded \in BOOLEAN

LEMMA ClawTypes == ClawTyped <=> ClawTypeOK
BY DEF ClawTyped, ClawTypeOK, CallRecord, ProvRecord, ChatRecord, HostRecord, ClientRecord

\* What the helpers make of a session and of a document,
LEMMA SessionsMade ==
    /\ NewSession \in Session /\ NewDocument \in Document
    /\ \A my \in Session :
          /\ my.named \in BOOLEAN /\ my.status \in ClawStatus
          /\ \A status \in ClawStatus :
                /\ [my EXCEPT !.status = status] \in Session
                /\ [my EXCEPT !.status = status].named = my.named
                /\ [my EXCEPT !.status = status].status = status
                /\ [my EXCEPT !.status = status, !.named = FALSE] \in Session
          /\ \A named \in BOOLEAN :
                /\ [my EXCEPT !.named = named] \in Session
                /\ [my EXCEPT !.named = named].named = named
                /\ [my EXCEPT !.named = named].status = my.status
          /\ \A found \in Document :
                /\ Merged(found, my) \in Document /\ Merged(found, my).session = my
                /\ Merged(found, my).messages = found.messages
                /\ Merged(found, my).exists = found.exists
    /\ \A found \in Document :
          /\ found.session \in Session /\ found.exists \in BOOLEAN
          /\ \A entry \in Entry :
                /\ Appended(found, entry) \in Document
                /\ Appended(found, entry).session = found.session
                /\ Appended(found, entry).messages = found.messages \cup {entry}
                /\ Appended(found, entry).exists = found.exists
BY ZenonT(60) DEF NewSession, NewDocument, Session, Document, ClawStatus, Provs, Merged, Appended

\* of a call and a provisioning,
LEMMA CallsMade ==
    /\ Closed \in CallRecord /\ Closed \in ProvRecord /\ Closed.pc = "closed"
    /\ \A my \in Session :
          /\ \A pc \in CallPC :
                At(pc, my) \in CallRecord /\ At(pc, my).pc = pc /\ At(pc, my).my = my
          /\ \A pc \in ProvPC :
                At(pc, my) \in ProvRecord /\ At(pc, my).pc = pc /\ At(pc, my).my = my
          /\ \A c : Checked(c, my) \in {Closed, At("act", my)}
          /\ Failed(my) \in ProvRecord /\ Failed(my).pc = "error"
          /\ Failed(my).my.named = my.named /\ Failed(my).my.status = "error"
<1>1. /\ \A my \in Session : [my EXCEPT !.status = "error"] \in Session
      /\ \A my \in Session : [my EXCEPT !.status = "error"].named = my.named
      /\ \A my \in Session : [my EXCEPT !.status = "error"].status = "error"
    BY DEF Session, ClawStatus
<1>2. \A my \in Session : \A pc \in CallPC :
          At(pc, my) \in CallRecord /\ At(pc, my).pc = pc /\ At(pc, my).my = my
    BY SessionsMade DEF At, CallRecord
<1>3. \A my \in Session : \A pc \in ProvPC :
          At(pc, my) \in ProvRecord /\ At(pc, my).pc = pc /\ At(pc, my).my = my
    BY SessionsMade DEF At, ProvRecord
<1>4. Closed \in CallRecord /\ Closed \in ProvRecord /\ Closed.pc = "closed"
    <2>1. "closed" \in CallPC /\ "closed" \in ProvPC
        BY Zenon DEF CallPC, ProvPC
    <2>2. NewSession \in Session
        BY SessionsMade
    <2> QED
        BY <1>2, <1>3, <2>1, <2>2 DEF Closed
<1>5. \A my \in Session : /\ Failed(my) \in ProvRecord /\ Failed(my).pc = "error"
                          /\ Failed(my).my = [my EXCEPT !.status = "error"]
    BY <1>1, <1>3 DEF Failed, ProvPC
<1>6. \A my \in Session : \A c : Checked(c, my) \in {Closed, At("act", my)}
    BY DEF Checked
<1> SUFFICES ASSUME NEW my \in Session
             PROVE  /\ Failed(my) \in ProvRecord /\ Failed(my).pc = "error"
                    /\ Failed(my).my.named = my.named /\ Failed(my).my.status = "error"
    BY <1>2, <1>3, <1>4, <1>6
<1> QED
    BY <1>1, <1>5

\* and of the host.
LEMMA HostsMade ==
    ASSUME host \in HostRecord
    PROVE  /\ \A named \in BOOLEAN :
                 /\ Emptied(named) \in HostRecord /\ Wiped(named) \in HostRecord
                 /\ Emptied(named).box = (host.box /\ ~named)
                 /\ Emptied(named).volume = host.volume
                 /\ Emptied(named).volumes = host.volumes
                 /\ Emptied(named).left = host.left
                 /\ Wiped(named).box = (host.box /\ ~named)
                 /\ Wiped(named).left = host.left
           /\ \A box \in BOOLEAN :
                 /\ Filled(box) \in HostRecord /\ Filled(box).box = box
                 /\ Filled(box).volume /\ ~Filled(box).left
                 /\ Filled(box).volumes = IF host.volume THEN host.volumes
                                          ELSE host.volumes + 1
           /\ [host EXCEPT !.box = FALSE] \in HostRecord
           /\ [host EXCEPT !.box = FALSE].box = FALSE
           /\ [host EXCEPT !.box = FALSE].volume = host.volume
           /\ [host EXCEPT !.box = FALSE].volumes = host.volumes
           /\ [host EXCEPT !.box = FALSE].left = host.left
           /\ [host EXCEPT !.left = host.box] \in HostRecord
           /\ [host EXCEPT !.left = host.box].box = host.box
           /\ [host EXCEPT !.left = host.box].left = host.box
           /\ [host EXCEPT !.left = host.box].volume = host.volume
           /\ [host EXCEPT !.left = host.box].volumes = host.volumes
<1>1. /\ [host EXCEPT !.box = FALSE] \in HostRecord
      /\ [host EXCEPT !.box = FALSE].box = FALSE
      /\ [host EXCEPT !.box = FALSE].volume = host.volume
      /\ [host EXCEPT !.box = FALSE].volumes = host.volumes
      /\ [host EXCEPT !.box = FALSE].left = host.left
    BY DEF HostRecord
<1>2. \A named \in BOOLEAN :
          /\ Emptied(named) \in HostRecord
          /\ Emptied(named).box = (host.box /\ ~named)
          /\ Emptied(named).volume = host.volume
          /\ Emptied(named).volumes = host.volumes
          /\ Emptied(named).left = host.left
    <2> SUFFICES ASSUME NEW named \in BOOLEAN
                 PROVE  /\ Emptied(named) \in HostRecord
                        /\ Emptied(named).box = (host.box /\ ~named)
                        /\ Emptied(named).volume = host.volume
                        /\ Emptied(named).volumes = host.volumes
                        /\ Emptied(named).left = host.left
        OBVIOUS
    <2>1. host.box \in BOOLEAN
        BY DEF HostRecord
    <2>2. CASE named
        <3>1. Emptied(named) = [host EXCEPT !.box = FALSE]
            BY <2>2 DEF Emptied
        <3> QED
            BY <1>1, <2>2, <3>1
    <2>3. CASE ~named
        <3>1. Emptied(named) = host
            BY <2>3 DEF Emptied
        <3> QED
            BY <2>1, <2>3, <3>1
    <2> QED
        BY <2>2, <2>3
<1>3. \A other \in HostRecord : \A volume \in BOOLEAN :
          /\ [other EXCEPT !.volume = volume] \in HostRecord
          /\ [other EXCEPT !.volume = volume].box = other.box
          /\ [other EXCEPT !.volume = volume].left = other.left
    BY DEF HostRecord
<1>4. \A other \in HostRecord : (other.volume /\ other.box) \in BOOLEAN
    OBVIOUS
<1>5. \A named \in BOOLEAN : /\ Wiped(named) \in HostRecord
                             /\ Wiped(named).box = Emptied(named).box
                             /\ Wiped(named).left = Emptied(named).left
    BY <1>2, <1>3, <1>4 DEF Wiped
<1>6. (IF host.volume THEN host.volumes ELSE host.volumes + 1) \in Nat
    BY DEF HostRecord
<1>7. \A box \in BOOLEAN :
          /\ Filled(box) \in HostRecord /\ Filled(box).box = box
          /\ Filled(box).volume = TRUE /\ Filled(box).left = FALSE
          /\ Filled(box).volumes = IF host.volume THEN host.volumes ELSE host.volumes + 1
    BY <1>6 DEF Filled, HostRecord
<1>8. /\ [host EXCEPT !.left = host.box] \in HostRecord
      /\ [host EXCEPT !.left = host.box].box = host.box
      /\ [host EXCEPT !.left = host.box].left = host.box
      /\ [host EXCEPT !.left = host.box].volume = host.volume
      /\ [host EXCEPT !.left = host.box].volumes = host.volumes
    BY DEF HostRecord
<1> QED
    BY <1>1, <1>2, <1>5, <1>7, <1>8

LEMMA ClawTypeInit == ClawInit => ClawTyped
<1> SUFFICES ASSUME ClawInit PROVE ClawTyped
    OBVIOUS
<1>1. 0 \in 0..MaxChunks /\ 0 \in Nat
    BY ClawConstants
<1>2. /\ \A c \in Calls : At("idle", NewSession) \in CallRecord
      /\ At("create", NewSession) \in ProvRecord /\ At("none", NewSession) \in ProvRecord
    BY CallsMade, SessionsMade DEF CallPC, ProvPC
<1>3. [pc |-> "idle", chunks |-> 0, found |-> NewDocument] \in ChatRecord
    BY <1>1, SessionsMade DEF ChatRecord, ChatPC
<1> QED
    BY <1>1, <1>2, <1>3, SessionsMade DEF ClawInit, ClawTyped, HostRecord, ClientRecord

\* One call, provisioning or chat goes on, the others stay; and what a save does.
LEMMA ClawMoves ==
    ASSUME ClawTyped
    PROVE  /\ \A c \in Calls : \A next \in CallRecord : CallIs(c, next) =>
                 /\ calls' \in [Calls -> CallRecord] /\ calls'[c] = next
                 /\ \A d \in Calls : d # c => calls'[d] = calls[d]
           /\ \A p \in Provs : \A next \in ProvRecord : ProvIs(p, next) =>
                 /\ provs' \in [Provs -> ProvRecord] /\ provs'[p] = next
                 /\ \A q \in Provs : q # p => provs'[q] = provs[q]
           /\ \A c \in Chats : \A pc \in ChatPC : ChatIs(c, pc) =>
                 /\ chats' \in [Chats -> ChatRecord]
                 /\ chats'[c].pc = pc /\ chats'[c].chunks = chats[c].chunks
                 /\ chats'[c].found = NewDocument
                 /\ \A d \in Chats : d # c => chats'[d] = chats[d]
           /\ \A found, new \in Document : Save(found, new) =>
                 /\ claw' \in Document /\ claw' = new /\ stale' \in BOOLEAN
                 /\ ~stale' => (~stale /\ found = claw)
<1>1. ASSUME NEW c \in Chats, NEW pc \in ChatPC, ChatIs(c, pc)
      PROVE  /\ chats' \in [Chats -> ChatRecord]
             /\ chats'[c].pc = pc /\ chats'[c].chunks = chats[c].chunks
             /\ chats'[c].found = NewDocument
             /\ \A d \in Chats : d # c => chats'[d] = chats[d]
    <2>1. [pc |-> pc, chunks |-> chats[c].chunks, found |-> NewDocument] \in ChatRecord
        BY SessionsMade DEF ClawTyped, ChatRecord
    <2> QED
        BY <1>1, <2>1 DEF ClawTyped, ChatIs
<1>2. ASSUME NEW found \in Document, NEW new \in Document, Save(found, new)
      PROVE  /\ claw' \in Document /\ claw' = new /\ stale' \in BOOLEAN
             /\ ~stale' => (~stale /\ found = claw)
    <2>1. claw' \in Document /\ claw' = new
        BY <1>2 DEF Save
    <2>2. stale' \in BOOLEAN
        BY <1>2, Zenon DEF Save
    <2>3. ~stale' => (~stale /\ found = claw)
        BY <1>2, Zenon DEF Save
    <2> QED
        BY <2>1, <2>2, <2>3
<1>3. ASSUME NEW c \in Calls, NEW next \in CallRecord, CallIs(c, next)
      PROVE  /\ calls' \in [Calls -> CallRecord] /\ calls'[c] = next
             /\ \A d \in Calls : d # c => calls'[d] = calls[d]
    BY <1>3 DEF ClawTyped, CallIs
<1>4. ASSUME NEW p \in Provs, NEW next \in ProvRecord, ProvIs(p, next)
      PROVE  /\ provs' \in [Provs -> ProvRecord] /\ provs'[p] = next
             /\ \A q \in Provs : q # p => provs'[q] = provs[q]
    BY <1>4 DEF ClawTyped, ProvIs
<1> QED
    BY <1>1, <1>2, <1>3, <1>4

\* The records that the processes are, taken apart.
LEMMA ClawParts ==
    ASSUME ClawTyped
    PROVE  /\ \A c \in Calls : /\ calls[c].pc \in CallPC /\ calls[c].my \in Session
                               /\ calls[c].found \in Document
           /\ \A p \in Provs : /\ provs[p].pc \in ProvPC /\ provs[p].my \in Session
                               /\ provs[p].found \in Document
           /\ \A c \in Chats : /\ chats[c].pc \in ChatPC /\ chats[c].found \in Document
                               /\ chats[c].chunks \in 0..MaxChunks
           /\ claw \in Document /\ claw.session \in Session /\ host \in HostRecord
BY SessionsMade, ZenonT(60) DEF ClawTyped, CallRecord, ProvRecord, ChatRecord

\* What an update saves.
UpdateSaved ==
    \E found \in Document, my \in Session : Save(found, Merged(found, my))

\* A call that does not write the document and spawns nothing keeps the types,
LEMMA ClawCallTypes ==
    ASSUME ClawTyped, NEW c \in Calls
    PROVE  /\ Read(c) \/ Health(c) \/ Act(c) \/ CallFinds(c) =>
                 calls' \in [Calls -> CallRecord] /\ host' \in HostRecord
           /\ Stopped(c) => calls' \in [Calls -> CallRecord] /\ UpdateSaved
           /\ Restarted(c) => /\ calls' \in [Calls -> CallRecord] /\ UpdateSaved
                              /\ provs' \in [Provs -> ProvRecord]
           /\ Deleted(c) => /\ calls' \in [Calls -> CallRecord]
                            /\ claw' \in Document /\ stale' \in BOOLEAN
<1> USE ClawParts
<1>0. /\ {"act", "find", "health", "stop find", "save", "stop save"} \subseteq CallPC
      /\ "create" \in ProvPC
    BY DEF CallPC, ProvPC
<1>1. ASSUME NEW my \in Session
      PROVE  Checked(c, my) \in CallRecord
    <2>1. At("act", my) \in CallRecord /\ Closed \in CallRecord
        BY <1>0, CallsMade
    <2> QED
        BY <2>1 DEF Checked
<1>2. ASSUME Read(c)
      PROVE  calls' \in [Calls -> CallRecord] /\ host' \in HostRecord
    <2>1. CASE UNCHANGED host /\ CallIs(c, Closed)
        BY <2>1, CallsMade, ClawMoves
    <2>2. CASE UNCHANGED host /\ CallIs(c, Checked(c, claw.session))
        BY <2>2, <1>1, ClawMoves
    <2>3. CASE UNCHANGED host /\ CallIs(c, At("health", claw.session))
        BY <2>3, <1>0, CallsMade, ClawMoves
    <2>4. CASE /\ host' = Emptied(claw.session.named)
               /\ CallIs(c, At("stop find", [claw.session EXCEPT !.status = "stopped",
                                                                 !.named = FALSE]))
        <3>1. [claw.session EXCEPT !.status = "stopped", !.named = FALSE] \in Session
            BY SessionsMade DEF ClawStatus
        <3> QED
            BY <2>4, <3>1, <1>0, CallsMade, ClawMoves, HostsMade, SessionsMade, ZenonT(60)
    <2> QED
        BY <1>2, <2>1, <2>2, <2>3, <2>4 DEF Read
<1>3. ASSUME Health(c)
      PROVE  calls' \in [Calls -> CallRecord] /\ host' \in HostRecord
    <2>1. [calls[c].my EXCEPT !.status = "stopped"] \in Session
        BY SessionsMade DEF ClawStatus
    <2>2. At("stop find", [calls[c].my EXCEPT !.status = "stopped"]) \in CallRecord
        BY <2>1, <1>0, CallsMade
    <2> QED
        BY <1>1, <1>3, <2>2, ClawMoves DEF Health
<1>4. ASSUME Act(c)
      PROVE  calls' \in [Calls -> CallRecord] /\ host' \in HostRecord
    <2>1. c \in Restarts => [model |-> c, status |-> "creating", named |-> FALSE] \in Session
        BY DEF Session, Provs, ClawStatus
    <2>2. calls[c].my.named \in BOOLEAN
        BY SessionsMade
    <2>3. CASE /\ c \in Restarts
               /\ host' = Emptied(calls[c].my.named)
               /\ CallIs(c, At("find", [model |-> c, status |-> "creating", named |-> FALSE]))
        BY <2>1, <2>2, <2>3, <1>0, CallsMade, ClawMoves, HostsMade
    <2>4. CASE /\ host' = Wiped(calls[c].my.named)
               /\ CallIs(c, At("find", calls[c].my))
        BY <2>2, <2>4, <1>0, CallsMade, ClawMoves, HostsMade
    <2> QED
        BY <1>4, <2>3, <2>4 DEF Act
<1>5. ASSUME CallFinds(c)
      PROVE  calls' \in [Calls -> CallRecord] /\ host' \in HostRecord
    <2>1. \A pc \in CallPC : [pc |-> pc, my |-> calls[c].my, found |-> claw] \in CallRecord
        BY DEF CallRecord
    <2>2. CASE CallIs(c, Closed)
        BY <1>5, <2>2, CallsMade, ClawMoves DEF CallFinds
    <2>3. CASE CallIs(c, [pc |-> "save", my |-> calls[c].my, found |-> claw])
        BY <1>0, <1>5, <2>1, <2>3, ClawMoves DEF CallFinds
    <2>4. CASE CallIs(c, [pc |-> "stop save", my |-> calls[c].my, found |-> claw])
        BY <1>0, <1>5, <2>1, <2>4, ClawMoves DEF CallFinds
    <2> QED
        BY <1>5, <2>2, <2>3, <2>4 DEF CallFinds
<1>6. ASSUME Stopped(c)
      PROVE  calls' \in [Calls -> CallRecord] /\ UpdateSaved
    BY <1>1, <1>6, ClawMoves DEF Stopped, UpdateSaved
<1>7. ASSUME Restarted(c)
      PROVE  /\ calls' \in [Calls -> CallRecord] /\ UpdateSaved
             /\ provs' \in [Provs -> ProvRecord]
    <2>1. c \in Provs /\ ProvIs(c, At("create", calls[c].my))
        BY <1>7 DEF Restarted, ProvIs, Provs
    <2>2. provs' \in [Provs -> ProvRecord]
        BY <1>0, <2>1, CallsMade, ClawMoves
    <2> QED
        BY <1>7, <2>2, CallsMade, ClawMoves DEF Restarted, UpdateSaved
<1>8. ASSUME Deleted(c)
      PROVE  /\ calls' \in [Calls -> CallRecord]
             /\ claw' \in Document /\ stale' \in BOOLEAN
    <2>1. calls' \in [Calls -> CallRecord]
        BY <1>8, CallsMade, ClawMoves DEF Deleted
    <2>2. claw' \in Document
        BY <1>8 DEF Deleted, Document
    <2>3. stale' \in BOOLEAN
        BY <1>8, Zenon DEF Deleted
    <2> QED
        BY <2>1, <2>2, <2>3
<1> QED
    BY <1>2, <1>3, <1>4, <1>5, <1>6, <1>7, <1>8

\* and so does a provisioning.
LEMMA ProvTypes ==
    ASSUME ClawTyped, NEW p \in Provs
    PROVE  /\ Create(p) \/ Wait(p) \/ ProvFinds(p) \/ Error(p) =>
                 provs' \in [Provs -> ProvRecord] /\ host' \in HostRecord
           /\ ProvSaves(p) => provs' \in [Provs -> ProvRecord] /\ UpdateSaved
<1> USE ClawParts
<1>0. {"named find", "named save", "wait", "run find", "run save", "error find",
       "error save"} \subseteq ProvPC
    BY DEF ProvPC
<1>1. Failed(provs[p].my) \in ProvRecord
    BY CallsMade
<1>2. ASSUME Create(p)
      PROVE  provs' \in [Provs -> ProvRecord] /\ host' \in HostRecord
    <2>1. [provs[p].my EXCEPT !.named = TRUE] \in Session
        BY SessionsMade
    <2>2. At("named find", [provs[p].my EXCEPT !.named = TRUE]) \in ProvRecord
        BY <1>0, <2>1, CallsMade
    <2>3. /\ Filled(TRUE) \in HostRecord /\ Filled(FALSE) \in HostRecord
          /\ [host EXCEPT !.left = host.box] \in HostRecord
        BY HostsMade
    <2> QED
        BY <1>1, <1>2, <2>2, <2>3, ClawMoves DEF Create
<1>3. ASSUME Wait(p)
      PROVE  provs' \in [Provs -> ProvRecord] /\ host' \in HostRecord
    <2>1. [provs[p].my EXCEPT !.status = "running"] \in Session
        BY SessionsMade DEF ClawStatus
    <2>2. At("run find", [provs[p].my EXCEPT !.status = "running"]) \in ProvRecord
        BY <1>0, <2>1, CallsMade
    <2> QED
        BY <1>1, <1>3, <2>2, ClawMoves DEF Wait
<1>4. ASSUME ProvFinds(p)
      PROVE  provs' \in [Provs -> ProvRecord] /\ host' \in HostRecord
    <2>1. \A pc \in ProvPC : [pc |-> pc, my |-> provs[p].my, found |-> claw] \in ProvRecord
        BY DEF ProvRecord
    <2>2. CASE ProvIs(p, Closed)
        BY <1>4, <2>2, CallsMade, ClawMoves DEF ProvFinds
    <2>3. CASE ProvIs(p, Failed(provs[p].my))
        BY <1>1, <1>4, <2>3, ClawMoves DEF ProvFinds
    <2>4. CASE \E pc \in {"named save", "run save", "error save"} :
                    ProvIs(p, [pc |-> pc, my |-> provs[p].my, found |-> claw])
        BY <1>0, <1>4, <2>1, <2>4, ClawMoves DEF ProvFinds
    <2> QED
        BY <1>4, <2>2, <2>3, <2>4 DEF ProvFinds
<1>5. ASSUME Error(p)
      PROVE  provs' \in [Provs -> ProvRecord] /\ host' \in HostRecord
    <2>1. [provs[p].my EXCEPT !.named = FALSE] \in Session
        BY SessionsMade
    <2>2. At("error find", [provs[p].my EXCEPT !.named = FALSE]) \in ProvRecord
        BY <1>0, <2>1, CallsMade
    <2>3. provs[p].my.named \in BOOLEAN
        BY SessionsMade
    <2>4. Clear(provs[p].my) \in HostRecord
        BY <2>3, HostsMade DEF Clear
    <2> QED
        BY <1>5, <2>2, <2>4, ClawMoves DEF Error
<1>6. ASSUME ProvSaves(p)
      PROVE  provs' \in [Provs -> ProvRecord] /\ UpdateSaved
    <2>1. At("wait", provs[p].my) \in ProvRecord
        BY <1>0, CallsMade
    <2> QED
        BY <1>6, <2>1, CallsMade, ClawMoves DEF ProvSaves, UpdateSaved
<1> QED
    BY <1>2, <1>3, <1>4, <1>5, <1>6

\* An append to the transcript; what a chat does after its first one.
AppendedTo(c) ==
    \E found \in Document, kind \in {"user", "tool", "assistant"} :
        Save(found, Appended(found, <<c, kind>>))

LEMMA ChatBegins ==
    ASSUME ClawTyped, NEW c \in Chats, Begins(c)
    PROVE  /\ client' = client /\ crowded' \in BOOLEAN /\ (crowded => crowded')
           /\ \/ chats[c].pc \in {"user find", "user save"} /\ state' = c
              \/ chats[c].pc \notin {"user find", "user save"} /\ state' = state
<1>1. CASE chats[c].pc \in {"user find", "user save"}
    <2>1. state' = c /\ client' = client /\ crowded' = (crowded \/ state # NoOne)
        BY <1>1, Zenon DEF Begins
    <2>2. crowded' \in BOOLEAN /\ (crowded => crowded')
        BY <2>1, Zenon
    <2> QED
        BY <1>1, <2>1, <2>2
<1>2. CASE chats[c].pc \notin {"user find", "user save"}
    <2>1. UNCHANGED bus
        BY <1>2, Zenon DEF Begins
    <2>2. state' = state /\ client' = client /\ crowded' = crowded
        BY <2>1 DEF bus
    <2> QED
        BY <1>2, <2>2 DEF ClawTyped
<1> QED
    BY <1>1, <1>2

LEMMA ChatTypes ==
    ASSUME ClawTyped, NEW c \in Chats
    PROVE  /\ Validate(c) \/ Chunk(c) \/ ToolResult(c) \/ ChatFinds(c) \/ EndStream(c)
                 \/ Finish(c) => chats' \in [Chats -> ChatRecord]
           /\ ChatSaves(c) => chats' \in [Chats -> ChatRecord] /\ AppendedTo(c)
<1> USE ClawParts
<1>0. /\ {"user find", "tool find", "reply find", "stream", "finish", "closed"} \subseteq ChatPC
      /\ {"user save", "tool save", "reply save"} \subseteq ChatPC
      /\ AfterAppend(chats[c].pc) \in ChatPC /\ Ended(c) \in ChatPC
    BY DEF ChatPC, AfterAppend, Ended
<1>1. ASSUME Validate(c) \/ ToolResult(c) \/ EndStream(c) \/ Finish(c)
      PROVE  chats' \in [Chats -> ChatRecord]
    BY <1>0, <1>1, ClawMoves DEF Validate, ToolResult, EndStream, Finish
<1>2. ASSUME Chunk(c)
      PROVE  chats' \in [Chats -> ChatRecord]
    <2>1. chats[c].chunks + 1 \in 0..MaxChunks
        BY <1>2, ClawConstants DEF Chunk
    <2>2. [chats[c] EXCEPT !.chunks = chats[c].chunks + 1] \in ChatRecord
        BY <2>1 DEF ClawTyped, ChatRecord
    <2> QED
        BY <1>2, <2>2 DEF Chunk, ClawTyped
<1>3. ASSUME ChatFinds(c)
      PROVE  chats' \in [Chats -> ChatRecord]
    <2>1. \A pc \in ChatPC :
              [pc |-> pc, chunks |-> chats[c].chunks, found |-> claw] \in ChatRecord
        BY DEF ChatRecord
    <2>2. CASE ChatIs(c, AfterAppend(chats[c].pc))
        BY <1>0, <2>2, ClawMoves
    <2>3. CASE \E pc \in {"user save", "tool save", "reply save"} :
                  chats' = [chats EXCEPT ![c] = [pc |-> pc, chunks |-> chats[c].chunks,
                                                 found |-> claw]]
        BY <1>0, <2>1, <2>3 DEF ClawTyped
    <2> QED
        BY <1>3, <2>2, <2>3 DEF ChatFinds
<1>4. ASSUME ChatSaves(c)
      PROVE  chats' \in [Chats -> ChatRecord] /\ AppendedTo(c)
    <2>1. EntryKind(chats[c].pc) \in {"user", "tool", "assistant"}
        BY <1>4 DEF ChatSaves, EntryKind
    <2> QED
        BY <1>0, <1>4, <2>1, ClawMoves DEF ChatSaves, AppendedTo
<1> QED
    BY <1>1, <1>2, <1>3, <1>4

LEMMA BusTypes ==
    ASSUME ClawTyped
    PROVE  /\ Join \/ CatchUp \/ Leave => client' \in ClientRecord
           /\ \A c \in Chats : Chunk(c) => client' \in ClientRecord
           /\ \A c \in Chats : ChatFinds(c) \/ ChatSaves(c) \/ Finish(c) =>
                 /\ state' \in Chats \cup {NoOne} /\ client' = client
                 /\ crowded' \in BOOLEAN
<1>1. PendingText \in SUBSET Text
    BY ClawParts, ClawConstants DEF PendingText, Text, ClawTyped
<1>2. ASSUME Join \/ CatchUp \/ Leave
      PROVE  client' \in ClientRecord
    BY <1>1, <1>2 DEF Join, CatchUp, Leave, ClientRecord, ClawTyped
<1>3. ASSUME NEW c \in Chats, Chunk(c)
      PROVE  client' \in ClientRecord
    <2>1. <<c, chats[c].chunks + 1>> \in Text
        BY <1>3, ClawParts, ClawConstants DEF Chunk, Text
    <2> QED
        BY <1>3, <2>1 DEF Chunk, ClientRecord, ClawTyped
<1>4. ASSUME NEW c \in Chats, ChatFinds(c) \/ ChatSaves(c) \/ Finish(c)
      PROVE  /\ state' \in Chats \cup {NoOne} /\ client' = client
             /\ crowded' \in BOOLEAN
    <2>1. CASE Begins(c)
        <3>1. client' = client /\ (state' = c \/ state' = state)
            BY <2>1, ChatBegins
        <3>2. crowded' \in BOOLEAN
            BY <2>1, ChatBegins, Zenon
        <3> QED
            BY <3>1, <3>2 DEF ClawTyped
    <2>2. CASE UNCHANGED bus
        BY <2>2 DEF bus, ClawTyped
    <2>3. CASE state' = NoOne /\ UNCHANGED <<client, crowded>>
        BY <2>3 DEF ClawTyped
    <2> QED
        BY <1>4, <2>1, <2>2, <2>3 DEF ChatFinds, ChatSaves, Finish
<1> QED
    BY <1>2, <1>3, <1>4

LEMMA UpdateTypes ==
    ASSUME ClawTyped
    PROVE  /\ UpdateSaved => claw' \in Document /\ stale' \in BOOLEAN
           /\ \A c \in Chats : AppendedTo(c) => claw' \in Document /\ stale' \in BOOLEAN
<1>1. ASSUME UpdateSaved
      PROVE  claw' \in Document /\ stale' \in BOOLEAN
    BY <1>1, ClawMoves, SessionsMade DEF UpdateSaved
<1>2. ASSUME NEW c \in Chats, AppendedTo(c)
      PROVE  claw' \in Document /\ stale' \in BOOLEAN
    <2>1. \A kind \in {"user", "tool", "assistant"} : <<c, kind>> \in Entry
        BY DEF Entry
    <2> QED
        BY <1>2, <2>1, ClawMoves, SessionsMade DEF AppendedTo
<1> QED
    BY <1>1, <1>2

\* What each kind of step leaves alone.
LEMMA ClawFrames ==
    /\ BoxDies => UNCHANGED <<clawDoc, calls, provs, chats, bus>>
    /\ Join \/ CatchUp \/ Leave =>
          UNCHANGED <<clawDoc, host, calls, provs, chats, state, crowded>>
    /\ \A c \in Calls :
          /\ Read(c) \/ Health(c) \/ Act(c) \/ CallFinds(c) =>
                UNCHANGED <<clawDoc, provs, chats, bus>>
          /\ Stopped(c) => UNCHANGED <<host, provs, chats, bus>>
          /\ Restarted(c) => UNCHANGED <<host, chats, bus>>
          /\ Deleted(c) => UNCHANGED <<host, provs, chats, bus>>
    /\ \A p \in Provs :
          /\ Create(p) \/ Wait(p) \/ ProvFinds(p) \/ Error(p) =>
                UNCHANGED <<clawDoc, calls, chats, bus>>
          /\ ProvSaves(p) => UNCHANGED <<host, calls, chats, bus>>
    /\ \A c \in Chats :
          /\ Validate(c) \/ Chunk(c) \/ ToolResult(c) \/ ChatFinds(c) \/ EndStream(c)
                \/ Finish(c) => UNCHANGED <<clawDoc, host, calls, provs>>
          /\ Validate(c) \/ ToolResult(c) \/ EndStream(c) => UNCHANGED bus
          /\ Chunk(c) => UNCHANGED <<state, crowded>>
          /\ ChatSaves(c) => UNCHANGED <<host, calls, provs>>
BY Zenon DEF BoxDies, Join, CatchUp, Leave, Read, Health, Act, CallFinds, Stopped,
    Restarted, Deleted, Create, Wait, ProvFinds, Error, ProvSaves, Validate, Chunk,
    ToolResult, ChatFinds, EndStream, Finish, ChatSaves

LEMMA ClawTypeStep == ClawTyped /\ [ClawNext]_clawVars => ClawTyped'
<1> SUFFICES ASSUME ClawTyped, [ClawNext]_clawVars PROVE ClawTyped'
    OBVIOUS
<1> USE DEF ClawTyped, clawDoc, bus
<1>1. CASE UNCHANGED clawVars
    BY <1>1 DEF clawVars
<1>2. CASE BoxDies
    BY <1>2, ClawFrames, HostsMade DEF BoxDies
<1>3. CASE Join \/ CatchUp \/ Leave
    BY <1>3, ClawFrames, BusTypes
<1>4. ASSUME NEW c \in Calls, Read(c) \/ CallStep(c)
      PROVE  ClawTyped'
    <2>1. CASE Read(c) \/ Health(c) \/ Act(c) \/ CallFinds(c)
        BY <2>1, ClawFrames, ClawCallTypes
    <2>2. CASE Stopped(c) \/ Restarted(c) \/ Deleted(c)
        BY <2>2, ClawFrames, ClawCallTypes, UpdateTypes
    <2> QED
        BY <1>4, <2>1, <2>2 DEF CallStep
<1>5. ASSUME NEW p \in Provs, ProvStep(p)
      PROVE  ClawTyped'
    <2>1. CASE Create(p) \/ Wait(p) \/ ProvFinds(p) \/ Error(p)
        BY <2>1, ClawFrames, ProvTypes, HostsMade
    <2>2. CASE ProvSaves(p)
        BY <2>2, ClawFrames, ProvTypes, UpdateTypes
    <2> QED
        BY <1>5, <2>1, <2>2 DEF ProvStep
<1>6. ASSUME NEW c \in Chats, Validate(c) \/ Chunk(c) \/ ToolResult(c) \/ ChatStep(c)
      PROVE  ClawTyped'
    <2>1. CASE Validate(c) \/ Chunk(c) \/ ToolResult(c) \/ EndStream(c)
        BY <2>1, ClawFrames, ChatTypes, BusTypes
    <2>2. CASE ChatFinds(c) \/ Finish(c)
        BY <2>2, ClawFrames, ChatTypes, BusTypes
    <2>3. CASE ChatSaves(c)
        BY <2>3, ClawFrames, ChatTypes, BusTypes, UpdateTypes
    <2> QED
        BY <1>6, <2>1, <2>2, <2>3 DEF ChatStep
<1> QED
    BY <1>1, <1>2, <1>3, <1>4, <1>5, <1>6 DEF ClawNext

LEMMA AlwaysClawTyped == ClawSpec => []ClawTyped
BY ClawTypeInit, ClawTypeStep, PTL DEF ClawSpec

\* Every session, call, provisioning, chat and client stays of its type.
THEOREM ClawTypesKept == ClawSpec => []ClawTypeOK
BY AlwaysClawTyped, ClawTypes, PTL

-----------------------------------------------------------------------------
(* The claw session: its memory.                                           *)

\* No delete has begun to act.
Undeleted == \A d \in Deletes : calls[d].pc \in {"idle", "health", "stop find", "stop save", "act"}

LEMMA UndeletedBefore ==
    ASSUME ClawTyped, NEW c \in Calls, Read(c) \/ CallStep(c), Undeleted'
    PROVE  Undeleted /\ (Act(c) => c \notin Deletes)
<1> USE ClawParts
<1> DEFINE Early == {"idle", "health", "stop find", "stop save", "act"}
<1>1. \A d \in Deletes : d \in Calls
    BY DEF Calls
<1>2. CASE Read(c)
    <2>1. calls[c].pc = "idle" /\ ~Act(c)
        BY <1>2 DEF Read, Act
    <2>2. \A d \in Calls : d # c => calls'[d] = calls[d]
        BY <1>2 DEF Read, CallIs, ClawTyped
    <2> QED
        BY <1>1, <2>1, <2>2 DEF Undeleted
<1>3. CASE Health(c)
    <2>1. calls[c].pc = "health" /\ ~Act(c)
        BY <1>3 DEF Health, Act
    <2>2. \A d \in Calls : d # c => calls'[d] = calls[d]
        BY <1>3 DEF Health, CallIs, ClawTyped
    <2> QED
        BY <1>1, <2>1, <2>2 DEF Undeleted
<1>4. CASE Act(c)
    <2>1. calls[c].pc = "act" /\ calls'[c].pc = "find"
        BY <1>4 DEF Act, CallIs, At, ClawTyped
    <2>2. \A d \in Calls : d # c => calls'[d] = calls[d]
        BY <1>4 DEF Act, CallIs, ClawTyped
    <2> QED
        BY <1>1, <2>1, <2>2 DEF Undeleted
<1>5. CASE CallFinds(c)
    <2>1. ~Act(c) /\ (calls[c].pc = "find" => calls'[c].pc \notin Early)
                  /\ (calls[c].pc # "find" => calls[c].pc \in Early)
        BY <1>5 DEF CallFinds, Act, CallIs, Closed, At, ClawTyped
    <2>2. \A d \in Calls : d # c => calls'[d] = calls[d]
        BY <1>5 DEF CallFinds, CallIs, ClawTyped
    <2> QED
        BY <1>1, <2>1, <2>2 DEF Undeleted
<1>6. CASE Stopped(c)
    <2>1. calls[c].pc = "stop save" /\ ~Act(c)
        BY <1>6 DEF Stopped, Act
    <2>2. \A d \in Calls : d # c => calls'[d] = calls[d]
        BY <1>6 DEF Stopped, CallIs, ClawTyped
    <2> QED
        BY <1>1, <2>1, <2>2 DEF Undeleted
<1>7. CASE Restarted(c) \/ Deleted(c)
    <2>1. ~Act(c) /\ calls'[c].pc = "closed"
        BY <1>7 DEF Restarted, Deleted, Act, CallIs, Closed, At, ClawTyped
    <2>2. \A d \in Calls : d # c => calls'[d] = calls[d]
        BY <1>7 DEF Restarted, Deleted, CallIs, ClawTyped
    <2> QED
        BY <1>1, <2>1, <2>2 DEF Undeleted
<1> QED
    BY <1>2, <1>3, <1>4, <1>5, <1>6, <1>7 DEF CallStep

\* What happens to the volume in a step that no delete takes.
LEMMA VolumeStep == ClawTyped /\ VolumeKept /\ [ClawNext]_clawVars => VolumeKept'
<1> SUFFICES ASSUME ClawTyped, VolumeKept, [ClawNext]_clawVars, Undeleted'
             PROVE  host'.volumes <= 1 /\ (host'.volumes = 1 => host'.volume)
    BY DEF VolumeKept, Undeleted
<1>a. Undeleted => host.volumes \in Nat /\ host.volumes <= 1 /\ (host.volumes = 1 => host.volume)
    BY DEF VolumeKept, Undeleted, ClawTyped, HostRecord
<1>1. ASSUME Undeleted, host'.volumes = host.volumes, host'.volume = host.volume
      PROVE  host'.volumes <= 1 /\ (host'.volumes = 1 => host'.volume)
    BY <1>a, <1>1
<1>2. ASSUME UNCHANGED calls
      PROVE  Undeleted
    BY <1>2 DEF Undeleted
<1>3. CASE UNCHANGED clawVars
    BY <1>1, <1>2, <1>3 DEF clawVars
<1>4. CASE BoxDies
    BY <1>1, <1>2, <1>4, ClawFrames, HostsMade, ClawParts DEF BoxDies
<1>5. CASE Join \/ CatchUp \/ Leave
    BY <1>1, <1>2, <1>5, ClawFrames
<1>6. ASSUME NEW c \in Calls, Read(c) \/ CallStep(c)
      PROVE  host'.volumes <= 1 /\ (host'.volumes = 1 => host'.volume)
    <2>1. Undeleted /\ (Act(c) => c \notin Deletes)
        BY <1>6, UndeletedBefore
    <2>2. CASE UNCHANGED host
        BY <1>1, <2>1, <2>2
    <2>3. CASE \E named \in BOOLEAN : host' = Emptied(named)
        BY <1>1, <2>1, <2>3, HostsMade, ClawParts
    <2>4. claw.session.named \in BOOLEAN /\ calls[c].my.named \in BOOLEAN
        BY ClawParts, SessionsMade
    <2>5. CASE Read(c)
        BY <2>2, <2>3, <2>4, <2>5 DEF Read
    <2>6. CASE Act(c)
        BY <2>1, <2>3, <2>4, <2>6 DEF Act
    <2> QED
        BY <1>6, <2>2, <2>5, <2>6, ClawFrames DEF CallStep, Health, CallFinds
<1>7. ASSUME NEW p \in Provs, ProvStep(p)
      PROVE  host'.volumes <= 1 /\ (host'.volumes = 1 => host'.volume)
    <2>1. Undeleted
        BY <1>2, <1>7, ClawFrames DEF ProvStep
    <2>2. CASE UNCHANGED host
        BY <1>1, <2>1, <2>2
    <2>3. CASE Create(p)
        <3>1. CASE host' = [host EXCEPT !.left = host.box]
            BY <1>1, <2>1, <3>1, HostsMade, ClawParts
        <3>2. CASE \E box \in BOOLEAN : host' = Filled(box)
            BY <1>a, <2>1, <3>2, HostsMade, ClawParts
        <3> QED
            BY <2>3, <3>1, <3>2 DEF Create
    <2>4. CASE Error(p)
        <3>1. provs[p].my.named \in BOOLEAN
            BY ClawParts, SessionsMade
        <3>2. host' = Emptied(provs[p].my.named)
            BY <2>4 DEF Error, Clear
        <3> QED
            BY <1>1, <2>1, <3>1, <3>2, HostsMade, ClawParts
    <2> QED
        BY <1>7, <2>2, <2>3, <2>4, ClawFrames DEF ProvStep, Wait, ProvFinds
<1>8. ASSUME NEW c \in Chats, Validate(c) \/ Chunk(c) \/ ToolResult(c) \/ ChatStep(c)
      PROVE  UNCHANGED <<host, calls>>
    BY <1>8, ClawFrames DEF ChatStep
<1> QED
    BY <1>1, <1>2, <1>3, <1>4, <1>5, <1>6, <1>7, <1>8 DEF ClawNext

LEMMA VolumeInit == ClawInit => VolumeKept
<1> SUFFICES ASSUME ClawInit PROVE VolumeKept
    OBVIOUS
<1>1. host.volumes = 0
    BY DEF ClawInit
<1>2. host.volumes <= 1 /\ host.volumes # 1
    BY <1>1
<1> QED
    BY <1>2, Zenon DEF VolumeKept

\* Whatever restarts, failures and expiries there are, the session keeps its one
\* volume until a delete acts.
THEOREM VolumeSurvives == ClawSpec => []VolumeKept
BY VolumeInit, VolumeStep, AlwaysClawTyped, PTL DEF ClawSpec

-----------------------------------------------------------------------------
(* A client that joins.                                                    *)

\* A chat has said nothing before its request is stored.
NothingSaidYet ==
    \A c \in Chats : chats[c].pc \in {"idle", "user find", "user save"} => chats[c].chunks = 0

\* What a step of a chat does to what it has said.
LEMMA ChatSays ==
    ASSUME ClawTyped, NEW c \in Chats,
           Validate(c) \/ ToolResult(c) \/ ChatStep(c)
    PROVE  /\ \A d \in Chats : chats'[d].chunks = chats[d].chunks
           /\ \A d \in Chats : d # c => chats'[d] = chats[d]
           /\ chats'[c].pc \in {"idle", "user find", "user save"} =>
                 chats[c].pc \in {"idle", "user find", "user save"}
<1> USE ClawParts
<1>0. /\ {"user find", "tool find", "reply find", "stream", "finish", "closed"} \subseteq ChatPC
      /\ AfterAppend(chats[c].pc) \in {"stream", "finish"}
      /\ Ended(c) \in {"reply find", "finish"}
    BY DEF ChatPC, AfterAppend, Ended
<1>1. CASE Validate(c)
    BY <1>0, <1>1, ClawMoves DEF Validate
<1>a. ASSUME NEW pc \in ChatPC \ {"idle", "user find", "user save"}, ChatIs(c, pc)
      PROVE  /\ \A d \in Chats : chats'[d].chunks = chats[d].chunks
             /\ \A d \in Chats : d # c => chats'[d] = chats[d]
             /\ chats'[c].pc \notin {"idle", "user find", "user save"}
    <2>1. /\ chats'[c].pc = pc /\ chats'[c].chunks = chats[c].chunks
          /\ \A d \in Chats : d # c => chats'[d] = chats[d]
        BY <1>a, ClawMoves
    <2>2. \A d \in Chats : chats'[d].chunks = chats[d].chunks
        BY <2>1
    <2> QED
        BY <2>1, <2>2
<1>2. CASE ToolResult(c) \/ EndStream(c) \/ Finish(c) \/ ChatSaves(c)
    <2>1. PICK pc \in ChatPC \ {"idle", "user find", "user save"} : ChatIs(c, pc)
        BY <1>0, <1>2 DEF ToolResult, EndStream, Finish, ChatSaves
    <2> QED
        BY <1>a, <2>1
<1>3. CASE ChatFinds(c)
    <2>1. CASE ChatIs(c, AfterAppend(chats[c].pc))
        BY <1>0, <1>a, <2>1
    <2>2. CASE ~ChatIs(c, AfterAppend(chats[c].pc))
        <3>1. PICK pc \in ChatPC :
                 /\ chats' = [chats EXCEPT ![c] = [pc |-> pc, chunks |-> chats[c].chunks,
                                                   found |-> claw]]
                 /\ pc = "user save" => chats[c].pc = "user find"
                 /\ pc \in {"user save", "tool save", "reply save"}
            BY <1>3, <2>2 DEF ChatFinds, ChatPC
        <3> QED
            BY <3>1 DEF ClawTyped
    <2> QED
        BY <2>1, <2>2
<1> QED
    BY <1>1, <1>2, <1>3 DEF ChatStep

LEMMA ChunkSays ==
    ASSUME ClawTyped, NEW c \in Chats, Chunk(c)
    PROVE  /\ chats'[c].chunks = chats[c].chunks + 1
           /\ chats'[c].pc = chats[c].pc /\ chats[c].pc = "stream"
           /\ \A d \in Chats : d # c => chats'[d] = chats[d]
BY ClawParts DEF Chunk, ClawTyped, ChatRecord

LEMMA NothingSaidStep ==
    ClawTyped /\ NothingSaidYet /\ [ClawNext]_clawVars => NothingSaidYet'
<1> SUFFICES ASSUME ClawTyped, NothingSaidYet, [ClawNext]_clawVars
             PROVE  NothingSaidYet'
    OBVIOUS
<1>1. ASSUME UNCHANGED chats
      PROVE  NothingSaidYet'
    BY <1>1 DEF NothingSaidYet
<1>2. ASSUME NEW c \in Chats, Validate(c) \/ ToolResult(c) \/ ChatStep(c)
      PROVE  NothingSaidYet'
    BY <1>2, ChatSays DEF NothingSaidYet
<1>3. ASSUME NEW c \in Chats, Chunk(c)
      PROVE  NothingSaidYet'
    BY <1>3, ChunkSays DEF NothingSaidYet
<1>4. CASE UNCHANGED clawVars
    BY <1>1, <1>4 DEF clawVars
<1> QED
    BY <1>1, <1>2, <1>3, <1>4, ClawFrames DEF ClawNext, CallStep, ProvStep

LEMMA JoinStep ==
    ClawTyped /\ NothingSaidYet /\ JoinSeesAll /\ [ClawNext]_clawVars => JoinSeesAll'
<1> SUFFICES ASSUME ClawTyped, NothingSaidYet, JoinSeesAll, [ClawNext]_clawVars,
                    client'.pc = "there", state' # NoOne, ~crowded'
             PROVE  {state'} \X (1..chats'[state'].chunks) \subseteq client'.got
    BY DEF JoinSeesAll
<1> USE ClawParts
<1> DEFINE Seen == {state'} \X (1..chats'[state'].chunks) \subseteq client'.got
<1>0. state \in Chats \cup {NoOne}
    BY DEF ClawTyped
<1>1. ASSUME UNCHANGED bus, state # NoOne => chats'[state].chunks = chats[state].chunks
      PROVE  Seen
    BY <1>1 DEF JoinSeesAll, bus
<1>2. ASSUME UNCHANGED <<chats, bus>>
      PROVE  Seen
    BY <1>1, <1>2
<1>3. CASE UNCHANGED clawVars
    BY <1>2, <1>3 DEF clawVars
<1>4. CASE Join \/ Leave
    <2>1. client'.pc # "there"
        BY <1>4 DEF Join, Leave
    <2> QED
        BY <2>1
<1>5. CASE CatchUp
    <2>1. PendingText = {state} \X (1..chats[state].chunks) /\ UNCHANGED <<chats, state>>
        BY <1>5 DEF CatchUp, PendingText
    <2>2. PendingText \subseteq client'.got
        BY <1>5 DEF CatchUp
    <2> QED
        BY <2>1, <2>2
<1>6. ASSUME NEW c \in Chats, Chunk(c)
      PROVE  Seen
    <2>1. state' = state /\ client.pc = "there" /\ ~crowded
          /\ client'.got = client.got \cup {<<c, chats[c].chunks + 1>>}
        BY <1>6 DEF Chunk, ClawTyped, ClientRecord
    <2>2. {state} \X (1..chats[state].chunks) \subseteq client.got
        BY <2>1 DEF JoinSeesAll
    <2>3. CASE state = c
        BY <1>6, <2>1, <2>2, <2>3, ChunkSays
    <2>4. CASE state # c
        BY <1>0, <1>6, <2>1, <2>2, <2>4, ChunkSays
    <2> QED
        BY <2>3, <2>4
<1>7. ASSUME NEW c \in Chats, Validate(c) \/ ToolResult(c) \/ ChatStep(c)
      PROVE  Seen
    <2>1. \A d \in Chats : chats'[d].chunks = chats[d].chunks
        BY <1>7, ChatSays
    <2>2. CASE UNCHANGED bus
        BY <1>0, <1>1, <2>1, <2>2
    <2>3. CASE Begins(c)
        <3>1. CASE chats[c].pc \in {"user find", "user save"} /\ state' = c
            <4>1. chats'[c].chunks = 0
                BY <2>1, <3>1 DEF NothingSaidYet
            <4>2. 1..0 = {}
                OBVIOUS
            <4>3. chats'[state'].chunks = 0
                BY <3>1, <4>1
            <4>4. {state'} \X (1..chats'[state'].chunks) = {}
                BY <4>2, <4>3
            <4> QED
                BY <4>4
        <3>2. CASE state' = state
            <4>1. client' = client /\ (crowded => crowded')
                BY <2>3, ChatBegins
            <4>2. state \in Chats
                BY <1>0, <3>2
            <4> QED
                BY <2>1, <3>2, <4>1, <4>2 DEF JoinSeesAll
        <3> QED
            BY <2>3, <3>1, <3>2, ChatBegins
    <2>4. CASE Finish(c)
        BY <2>4 DEF Finish
    <2> QED
        BY <1>7, <2>2, <2>3, <2>4, ClawFrames DEF ChatStep, ChatFinds, ChatSaves
<1>8. ASSUME NEW c \in Calls, Read(c) \/ CallStep(c)
      PROVE  UNCHANGED <<chats, bus>>
    BY <1>8, ClawFrames DEF CallStep
<1>9. ASSUME NEW p \in Provs, ProvStep(p)
      PROVE  UNCHANGED <<chats, bus>>
    BY <1>9, ClawFrames DEF ProvStep
<1>10. CASE BoxDies
    BY <1>2, <1>10, ClawFrames
<1> QED
    BY <1>2, <1>3, <1>4, <1>5, <1>6, <1>7, <1>8, <1>9, <1>10 DEF ClawNext

LEMMA JoinInit == ClawInit => NothingSaidYet /\ JoinSeesAll
<1> SUFFICES ASSUME ClawInit PROVE NothingSaidYet /\ JoinSeesAll
    OBVIOUS
<1>1. \A c \in Chats : chats[c].chunks = 0
    BY DEF ClawInit
<1>2. client.pc = "away"
    BY DEF ClawInit
<1> QED
    BY <1>1, <1>2 DEF NothingSaidYet, JoinSeesAll

\* A client that joins the WebSocket while a reply streams has all of its text.
THEOREM JoinersSeeAll == ClawSpec => []JoinSeesAll
<1>1. NothingSaidYet /\ JoinSeesAll /\ ClawTyped /\ [ClawNext]_clawVars
          => (NothingSaidYet /\ JoinSeesAll)'
    BY NothingSaidStep, JoinStep
<1> QED
    BY <1>1, JoinInit, AlwaysClawTyped, PTL DEF ClawSpec

-----------------------------------------------------------------------------
(* What a chat has stored.                                                 *)

\* As long as no save was stale and the session is there, the transcript has what
\* each chat stored before it went on.
ChatsStored ==
    claw.exists /\ ~stale =>
        \A c \in Chats :
            /\ chats[c].pc \notin {"idle", "user find", "user save"} =>
                  <<c, "user">> \in claw.messages
            /\ chats[c].pc \in {"finish", "closed"} /\ chats[c].chunks > 0 =>
                  <<c, "assistant">> \in claw.messages

\* An update leaves the transcript as it found it, an append adds its entry.
LEMMA TranscriptsMade ==
    /\ \A my \in Session, found \in Document :
          /\ Merged(found, my).exists = found.exists
          /\ Merged(found, my).messages = found.messages
    /\ \A found \in Document : \A entry \in Entry :
          /\ Appended(found, entry) \in Document
          /\ Appended(found, entry).exists = found.exists
          /\ Appended(found, entry).messages = found.messages \cup {entry}
BY DEF Merged, Appended, Document

\* Only a stale save takes an entry out of a transcript, or brings a session back.
LEMMA TranscriptGrows ==
    ASSUME ClawTyped, [ClawNext]_clawVars, claw'.exists, ~stale'
    PROVE  claw.exists /\ ~stale /\ claw.messages \subseteq claw'.messages
<1> USE ClawParts
<1>1. ASSUME UNCHANGED clawDoc
      PROVE  claw.exists /\ ~stale /\ claw.messages \subseteq claw'.messages
    BY <1>1 DEF clawDoc
<1>2. ASSUME UpdateSaved
      PROVE  claw.exists /\ ~stale /\ claw.messages \subseteq claw'.messages
    <2>1. PICK found \in Document, my \in Session : Save(found, Merged(found, my))
        BY <1>2 DEF UpdateSaved
    <2>2. ~stale /\ found = claw /\ claw' = Merged(found, my)
        BY <2>1, ClawMoves, SessionsMade
    <2>3. claw'.exists = claw.exists /\ claw'.messages = claw.messages
        <3>1. /\ Merged(found, my).exists = found.exists
              /\ Merged(found, my).messages = found.messages
            BY TranscriptsMade
        <3> QED
            BY <2>2, <3>1
    <2> QED
        BY <2>2, <2>3
<1>3. ASSUME NEW c \in Chats, AppendedTo(c)
      PROVE  claw.exists /\ ~stale /\ claw.messages \subseteq claw'.messages
    <2>1. PICK found \in Document, kind \in {"user", "tool", "assistant"} :
              Save(found, Appended(found, <<c, kind>>))
        BY <1>3 DEF AppendedTo
    <2>2. <<c, kind>> \in Entry
        BY DEF Entry
    <2>3. ~stale /\ found = claw /\ claw' = Appended(found, <<c, kind>>)
        BY <2>1, <2>2, ClawMoves, SessionsMade
    <2>4. claw'.exists = claw.exists /\ claw'.messages = claw.messages \cup {<<c, kind>>}
        <3>1. /\ Appended(found, <<c, kind>>).exists = found.exists
              /\ Appended(found, <<c, kind>>).messages = found.messages \cup {<<c, kind>>}
            BY <2>2, TranscriptsMade
        <3> QED
            BY <2>3, <3>1
    <2> QED
        BY <2>3, <2>4
<1>4. ASSUME NEW c \in Calls, Deleted(c)
      PROVE  FALSE
    BY <1>4 DEF Deleted, Document
<1>5. ASSUME NEW c \in Calls, Read(c) \/ CallStep(c)
      PROVE  UNCHANGED clawDoc \/ UpdateSaved
    BY <1>4, <1>5, ClawFrames, ClawCallTypes DEF CallStep
<1>6. ASSUME NEW p \in Provs, ProvStep(p)
      PROVE  UNCHANGED clawDoc \/ UpdateSaved
    BY <1>6, ClawFrames, ProvTypes DEF ProvStep
<1>7. ASSUME NEW c \in Chats, Validate(c) \/ Chunk(c) \/ ToolResult(c) \/ ChatStep(c)
      PROVE  UNCHANGED clawDoc \/ AppendedTo(c)
    BY <1>7, ClawFrames, ChatTypes DEF ChatStep
<1>8. CASE UNCHANGED clawVars
    BY <1>1, <1>8 DEF clawVars
<1> QED
    BY <1>1, <1>2, <1>3, <1>5, <1>6, <1>7, <1>8, ClawFrames DEF ClawNext

LEMMA StoredStep == ClawTyped /\ ChatsStored /\ [ClawNext]_clawVars => ChatsStored'
<1> SUFFICES ASSUME ClawTyped, ChatsStored, [ClawNext]_clawVars, claw'.exists, ~stale',
                    NEW c \in Chats
             PROVE  /\ chats'[c].pc \notin {"idle", "user find", "user save"} =>
                          <<c, "user">> \in claw'.messages
                    /\ chats'[c].pc \in {"finish", "closed"} /\ chats'[c].chunks > 0 =>
                          <<c, "assistant">> \in claw'.messages
    BY DEF ChatsStored
<1> USE ClawParts
<1> DEFINE Goal == /\ chats'[c].pc \notin {"idle", "user find", "user save"} =>
                          <<c, "user">> \in claw'.messages
                   /\ chats'[c].pc \in {"finish", "closed"} /\ chats'[c].chunks > 0 =>
                          <<c, "assistant">> \in claw'.messages
<1>0. claw.exists /\ ~stale /\ claw.messages \subseteq claw'.messages
    BY TranscriptGrows
<1>1. ASSUME chats'[c] = chats[c]
      PROVE  Goal
    BY <1>0, <1>1 DEF ChatsStored
\* Where the chat goes on without storing anything.
<1>2. ASSUME NEW pc \in ChatPC, ChatIs(c, pc),
             \/ chats[c].pc = "idle" /\ pc = "user find"
             \/ chats[c].pc = "stream" /\ pc \in {"tool find", "reply find"}
             \/ chats[c].pc = "stream" /\ pc = "finish" /\ ~(chats[c].chunks > 0)
             \/ chats[c].pc = "finish" /\ pc = "closed"
      PROVE  Goal
    <2>1. chats'[c].pc = pc /\ chats'[c].chunks = chats[c].chunks
        BY <1>2, ClawMoves
    <2> QED
        BY <1>0, <1>2, <2>1 DEF ChatsStored
<1>3. {"user find", "tool find", "reply find", "stream", "finish", "closed"} \subseteq ChatPC
    BY DEF ChatPC
<1>4. ASSUME Validate(c) \/ ToolResult(c) \/ EndStream(c) \/ Finish(c)
      PROVE  Goal
    BY <1>2, <1>3, <1>4 DEF Validate, ToolResult, EndStream, Finish, Ended
<1>5. CASE Chunk(c)
    <2>1. chats'[c].pc = chats[c].pc /\ chats[c].pc = "stream"
        BY <1>5, ChunkSays
    <2> QED
        BY <1>0, <2>1 DEF ChatsStored
<1>6. CASE ChatFinds(c)
    <2>1. claw.exists /\ UNCHANGED claw
        BY <1>0, <1>6, ClawFrames DEF clawDoc
    <2>2. PICK pc \in ChatPC :
              /\ chats' = [chats EXCEPT ![c] = [pc |-> pc, chunks |-> chats[c].chunks,
                                                found |-> claw]]
              /\ \/ chats[c].pc = "user find" /\ pc = "user save"
                 \/ chats[c].pc = "tool find" /\ pc = "tool save"
                 \/ chats[c].pc = "reply find" /\ pc = "reply save"
        BY <1>6, <2>1 DEF ChatFinds, ChatPC
    <2>3. chats'[c].pc = pc
        BY <2>2 DEF ClawTyped
    <2> QED
        BY <1>0, <2>2, <2>3 DEF ChatsStored
<1>7. CASE ChatSaves(c)
    <2>1. /\ chats[c].pc \in {"user save", "tool save", "reply save"}
          /\ Save(chats[c].found, Appended(chats[c].found, <<c, EntryKind(chats[c].pc)>>))
          /\ ChatIs(c, AfterAppend(chats[c].pc))
        BY <1>7 DEF ChatSaves
    <2>2. /\ <<c, EntryKind(chats[c].pc)>> \in Entry
          /\ AfterAppend(chats[c].pc) \in ChatPC
        BY <2>1 DEF EntryKind, Entry, AfterAppend, ChatPC
    <2>3. <<c, EntryKind(chats[c].pc)>> \in claw'.messages
        <3> DEFINE entry == <<c, EntryKind(chats[c].pc)>>
        <3>1. /\ Appended(chats[c].found, entry) \in Document
              /\ Appended(chats[c].found, entry).messages
                    = chats[c].found.messages \cup {entry}
            BY <2>2, TranscriptsMade
        <3>2. claw' = Appended(chats[c].found, entry)
            BY <2>1 DEF Save
        <3> QED
            BY <3>1, <3>2
    <2>4. chats'[c].pc = AfterAppend(chats[c].pc) /\ chats'[c].chunks = chats[c].chunks
        BY <2>1, <2>2, ClawMoves
    <2>5. CASE chats[c].pc = "user save"
        <3>1. EntryKind(chats[c].pc) = "user" /\ AfterAppend(chats[c].pc) = "stream"
            BY <2>5 DEF EntryKind, AfterAppend
        <3> QED
            BY <2>3, <2>4, <3>1
    <2>6. CASE chats[c].pc = "tool save"
        <3>1. AfterAppend(chats[c].pc) = "stream"
            BY <2>6 DEF AfterAppend
        <3> QED
            BY <1>0, <2>4, <2>6, <3>1 DEF ChatsStored
    <2>7. CASE chats[c].pc = "reply save"
        <3>1. EntryKind(chats[c].pc) = "assistant" /\ AfterAppend(chats[c].pc) = "finish"
            BY <2>7 DEF EntryKind, AfterAppend
        <3>2. <<c, "user">> \in claw'.messages
            BY <1>0, <2>7 DEF ChatsStored
        <3> QED
            BY <2>3, <3>1, <3>2
    <2> QED
        BY <2>1, <2>5, <2>6, <2>7
<1>8. ASSUME NEW d \in Chats, d # c,
             Validate(d) \/ Chunk(d) \/ ToolResult(d) \/ ChatStep(d)
      PROVE  Goal
    <2>1. chats'[c] = chats[c]
        BY <1>8, ChatSays, ChunkSays
    <2> QED
        BY <1>1, <2>1
<1>9. ASSUME NEW d \in Chats, Validate(d) \/ Chunk(d) \/ ToolResult(d) \/ ChatStep(d)
      PROVE  Goal
    BY <1>4, <1>5, <1>6, <1>7, <1>8, <1>9 DEF ChatStep
<1>10. ASSUME UNCHANGED chats
       PROVE  Goal
    BY <1>1, <1>10
<1>11. ASSUME NEW d \in Calls, Read(d) \/ CallStep(d)
       PROVE  UNCHANGED chats
    BY <1>11, ClawFrames DEF CallStep
<1>12. ASSUME NEW p \in Provs, ProvStep(p)
       PROVE  UNCHANGED chats
    BY <1>12, ClawFrames DEF ProvStep
<1>13. CASE UNCHANGED clawVars
    BY <1>10, <1>13 DEF clawVars
<1> QED
    BY <1>9, <1>10, <1>11, <1>12, <1>13, ClawFrames DEF ClawNext

LEMMA StoredInit == ClawInit => ChatsStored
<1> SUFFICES ASSUME ClawInit PROVE ChatsStored
    OBVIOUS
<1>1. \A c \in Chats : chats[c].pc = "idle"
    BY DEF ClawInit
<1> QED
    BY <1>1 DEF ChatsStored

\* A client that is told that a reply is done finds it in the transcript.
THEOREM DoneIsStored == ClawSpec => []DoneMeansStored
<1>1. ChatsStored => DoneMeansStored
    BY DEF ChatsStored, DoneMeansStored
<1> QED
    BY <1>1, StoredInit, StoredStep, AlwaysClawTyped, PTL DEF ClawSpec

-----------------------------------------------------------------------------
(* No container without a name: what each step does to its process.        *)

LEMMA AtMade ==
    /\ \A pc, my : At(pc, my).pc = pc /\ At(pc, my).my = my /\ At(pc, my).found.exists
    /\ Closed.pc = "closed" /\ Closed.my.status = "creating" /\ Closed.found.exists
BY DEF At, Closed, NewSession, NewDocument

LEMMA Stopping ==
    \A my \in Session :
        /\ [my EXCEPT !.status = "stopped", !.named = FALSE].status = "stopped"
        /\ [my EXCEPT !.status = "stopped"].status = "stopped"
        /\ [my EXCEPT !.status = "stopped"].named = my.named
BY DEF Session

LEMMA CallMoves ==
    ASSUME ClawTyped, NEW c \in Calls
    PROVE  /\ \A next : CallIs(c, next) =>
                 calls'[c] = next /\ \A d \in Calls : d # c => calls'[d] = calls[d]
           /\ Read(c) \/ CallStep(c) =>
                 /\ \A d \in Calls : d # c => calls'[d] = calls[d]
                 /\ calls[c].pc # "closed"
<1>1. ASSUME NEW next, CallIs(c, next)
      PROVE  calls'[c] = next /\ \A d \in Calls : d # c => calls'[d] = calls[d]
    BY <1>1 DEF ClawTyped, CallIs
<1>2. ASSUME Read(c)
      PROVE  (\E next : CallIs(c, next)) /\ calls[c].pc # "closed"
    BY <1>2 DEF Read
<1>3. ASSUME CallStep(c)
      PROVE  (\E next : CallIs(c, next)) /\ calls[c].pc # "closed"
    BY <1>3 DEF CallStep, Health, Act, CallFinds, Stopped, Restarted, Deleted
<1> QED
    BY <1>1, <1>2, <1>3

\* A call that goes on to another place with another object.
CallGoes(c, pc) == calls'[c].pc = pc /\ calls'[c].found.exists
CallRests(c) == CallGoes(c, "closed") /\ calls'[c].my.status = "creating"

LEMMA CallGoesTo ==
    ASSUME ClawTyped, NEW c \in Calls, NEW pc, NEW my, CallIs(c, At(pc, my))
    PROVE  CallGoes(c, pc) /\ calls'[c].my = my
<1>1. calls'[c] = At(pc, my)
    BY CallMoves
<1> QED
    BY <1>1, AtMade DEF CallGoes

LEMMA CheckedMade ==
    ASSUME ClawTyped, NEW c \in Calls, NEW my, CallIs(c, Checked(c, my))
    PROVE  CallRests(c) \/ (CallGoes(c, "act") /\ calls'[c].my = my)
<1>1. CASE CallIs(c, Closed)
    BY <1>1, CallMoves, AtMade DEF CallRests, CallGoes
<1>2. CASE CallIs(c, At("act", my))
    BY <1>2, CallMoves, AtMade DEF CallGoes
<1> QED
    BY <1>1, <1>2 DEF Checked

LEMMA ReadDoes ==
    ASSUME ClawTyped, NEW c \in Calls, Read(c)
    PROVE  \/ CallRests(c) /\ UNCHANGED host
           \/ CallGoes(c, "act") /\ calls'[c].my = claw.session /\ UNCHANGED host
           \/ /\ CallGoes(c, "health") /\ calls'[c].my = claw.session /\ UNCHANGED host
              /\ claw.session.named
           \/ /\ CallGoes(c, "stop find") /\ calls'[c].my.status = "stopped"
              /\ claw.session.status = "running" /\ host' = Emptied(claw.session.named)
<1> USE ClawParts
<1>1. CASE CallIs(c, Closed) /\ UNCHANGED host
    BY <1>1, CallMoves, AtMade DEF CallRests, CallGoes
<1>2. CASE CallIs(c, Checked(c, claw.session)) /\ UNCHANGED host
    BY <1>2, CheckedMade
<1>3. CASE claw.session.named /\ CallIs(c, At("health", claw.session)) /\ UNCHANGED host
    <2>1. CallGoes(c, "health") /\ calls'[c].my = claw.session
        BY <1>3, CallGoesTo
    <2> QED
        BY <1>3, <2>1
<1>4. CASE /\ claw.session.status = "running" /\ host' = Emptied(claw.session.named)
           /\ CallIs(c, At("stop find", [claw.session EXCEPT !.status = "stopped",
                                                             !.named = FALSE]))
    <2> DEFINE my == [claw.session EXCEPT !.status = "stopped", !.named = FALSE]
    <2>1. my.status = "stopped"
        BY Stopping
    <2> HIDE DEF my
    <2>2. CallIs(c, At("stop find", my))
        BY <1>4 DEF my
    <2>3. CallGoes(c, "stop find") /\ calls'[c].my = my
        BY <2>2, CallGoesTo
    <2> QED
        BY <1>4, <2>1, <2>3
<1> QED
    BY <1>1, <1>2, <1>3, <1>4 DEF Read

LEMMA HealthDoes ==
    ASSUME ClawTyped, NEW c \in Calls, Health(c)
    PROVE  /\ calls[c].pc = "health" /\ UNCHANGED host
           /\ \/ CallRests(c)
              \/ CallGoes(c, "act") /\ calls'[c].my = calls[c].my
              \/ /\ CallGoes(c, "stop find") /\ calls'[c].my.status = "stopped"
                 /\ calls'[c].my.named = calls[c].my.named
<1> USE ClawParts
<1> DEFINE my == [calls[c].my EXCEPT !.status = "stopped"]
<1>1. my.status = "stopped" /\ my.named = calls[c].my.named
    BY Stopping
<1>2. CallIs(c, Checked(c, calls[c].my)) \/ CallIs(c, At("stop find", my))
    BY DEF Health
<1> HIDE DEF my
<1>3. CASE CallIs(c, Checked(c, calls[c].my))
    BY <1>3, CheckedMade DEF Health
<1>4. CASE CallIs(c, At("stop find", my))
    <2>1. CallGoes(c, "stop find") /\ calls'[c].my = my
        BY <1>4, CallGoesTo
    <2>2. calls[c].pc = "health" /\ UNCHANGED host
        BY DEF Health
    <2> QED
        BY <1>1, <2>1, <2>2
<1> QED
    BY <1>2, <1>3, <1>4

LEMMA ActDoes ==
    ASSUME ClawTyped, NEW c \in Calls, Act(c)
    PROVE  /\ calls[c].pc = "act" /\ CallGoes(c, "find")
           /\ \/ /\ calls'[c].my.status = "creating" /\ calls'[c].my.named = FALSE
                 /\ host' = Emptied(calls[c].my.named)
              \/ calls'[c].my = calls[c].my /\ host' = Wiped(calls[c].my.named)
<1> DEFINE my == [model |-> c, status |-> "creating", named |-> FALSE]
<1>1. my.status = "creating" /\ my.named = FALSE
    OBVIOUS
<1>2. \/ CallIs(c, At("find", my)) /\ host' = Emptied(calls[c].my.named)
      \/ CallIs(c, At("find", calls[c].my)) /\ host' = Wiped(calls[c].my.named)
    BY DEF Act
<1>3. calls[c].pc = "act"
    BY DEF Act
<1> HIDE DEF my
<1>4. CASE CallIs(c, At("find", my)) /\ host' = Emptied(calls[c].my.named)
    <2>1. calls'[c] = At("find", my)
        BY <1>4, CallMoves
    <2> QED
        BY <1>1, <1>3, <1>4, <2>1, AtMade DEF CallGoes
<1>5. CASE CallIs(c, At("find", calls[c].my)) /\ host' = Wiped(calls[c].my.named)
    <2>1. calls'[c] = At("find", calls[c].my)
        BY <1>5, CallMoves
    <2> QED
        BY <1>3, <1>5, <2>1, AtMade DEF CallGoes
<1> QED
    BY <1>2, <1>4, <1>5

LEMMA CallFindsDoes ==
    ASSUME ClawTyped, NEW c \in Calls, CallFinds(c)
    PROVE  /\ UNCHANGED host
           /\ \/ CallRests(c)
              \/ /\ calls'[c].my = calls[c].my
                 /\ \/ calls[c].pc = "stop find" /\ CallGoes(c, "stop save")
                    \/ calls[c].pc = "find" /\ CallGoes(c, "save")
<1>0. UNCHANGED host
    BY DEF CallFinds
<1>1. CASE CallIs(c, Closed)
    BY <1>0, <1>1, CallMoves, AtMade DEF CallRests, CallGoes
<1>2. CASE ~CallIs(c, Closed)
    <2>1. PICK pc : /\ claw.exists
                    /\ CallIs(c, [pc |-> pc, my |-> calls[c].my, found |-> claw])
                    /\ \/ calls[c].pc = "stop find" /\ pc = "stop save"
                       \/ calls[c].pc = "find" /\ pc = "save"
        BY <1>2 DEF CallFinds
    <2>2. calls'[c] = [pc |-> pc, my |-> calls[c].my, found |-> claw]
        BY <2>1, CallMoves
    <2>3. calls'[c].pc = pc /\ calls'[c].my = calls[c].my /\ calls'[c].found = claw
        BY <2>2
    <2> QED
        BY <1>0, <2>1, <2>3 DEF CallGoes
<1> QED
    BY <1>1, <1>2

LEMMA StoppedDoes ==
    ASSUME ClawTyped, NEW c \in Calls, Stopped(c)
    PROVE  /\ calls[c].pc = "stop save"
           /\ Save(calls[c].found, Merged(calls[c].found, calls[c].my))
           /\ CallRests(c) \/ (CallGoes(c, "act") /\ calls'[c].my = calls[c].my)
BY CheckedMade DEF Stopped

LEMMA EndsDoes ==
    ASSUME ClawTyped, NEW c \in Calls, Restarted(c) \/ Deleted(c)
    PROVE  CallRests(c) /\ calls[c].pc = "save"
<1>1. CallIs(c, Closed) /\ calls[c].pc = "save"
    BY DEF Restarted, Deleted
<1> QED
    BY <1>1, CallMoves, AtMade DEF CallRests, CallGoes

\* The same of a provisioning.
ProvGoes(p, pc) == provs'[p].pc = pc /\ provs'[p].found.exists
ProvFails(p) ==
    /\ ProvGoes(p, "error")
    /\ provs'[p].my.status = "error" /\ provs'[p].my.named = provs[p].my.named

LEMMA ProvMoves ==
    ASSUME ClawTyped, NEW p \in Provs
    PROVE  /\ \A next : ProvIs(p, next) =>
                 provs'[p] = next /\ \A q \in Provs : q # p => provs'[q] = provs[q]
           /\ ProvIs(p, Failed(provs[p].my)) => ProvFails(p)
           /\ ProvStep(p) =>
                 /\ \A q \in Provs : q # p => provs'[q] = provs[q]
                 /\ provs[p].pc # "none"
<1>1. ASSUME NEW next, ProvIs(p, next)
      PROVE  provs'[p] = next /\ \A q \in Provs : q # p => provs'[q] = provs[q]
    BY <1>1 DEF ClawTyped, ProvIs
<1>2. ASSUME ProvStep(p)
      PROVE  (\E next : ProvIs(p, next)) /\ provs[p].pc # "none"
    BY <1>2 DEF ProvStep, Create, Wait, ProvFinds, ProvSaves, Error
<1>3. ASSUME ProvIs(p, Failed(provs[p].my))
      PROVE  ProvFails(p)
    <2> DEFINE my == [provs[p].my EXCEPT !.status = "error"]
    <2>1. my.status = "error" /\ my.named = provs[p].my.named
        BY ClawParts DEF Session
    <2>2. provs'[p] = At("error", my)
        BY <1>1, <1>3 DEF Failed
    <2> HIDE DEF my
    <2> QED
        BY <2>1, <2>2, AtMade DEF ProvFails, ProvGoes
<1> QED
    BY <1>1, <1>2, <1>3

LEMMA ProvGoesTo ==
    ASSUME ClawTyped, NEW p \in Provs, NEW pc, NEW my, ProvIs(p, At(pc, my))
    PROVE  ProvGoes(p, pc) /\ provs'[p].my = my
<1>1. provs'[p] = At(pc, my)
    BY ProvMoves
<1> QED
    BY <1>1, AtMade DEF ProvGoes

LEMMA CreateDoes ==
    ASSUME ClawTyped, NEW p \in Provs, Create(p)
    PROVE  \/ /\ host' = Filled(TRUE)
              /\ ProvGoes(p, "named find") /\ provs'[p].my.named = TRUE
              /\ provs'[p].my.status = provs[p].my.status
           \/ host' \in {[host EXCEPT !.left = host.box], Filled(FALSE)} /\ ProvFails(p)
<1> DEFINE my == [provs[p].my EXCEPT !.named = TRUE]
<1>1. my.named = TRUE /\ my.status = provs[p].my.status
    BY ClawParts DEF Session
<1>2. \/ host' = Filled(TRUE) /\ ProvIs(p, At("named find", my))
      \/ /\ host' \in {[host EXCEPT !.left = host.box], Filled(FALSE)}
         /\ ProvIs(p, Failed(provs[p].my))
    BY DEF Create
<1> HIDE DEF my
<1>3. CASE host' = Filled(TRUE) /\ ProvIs(p, At("named find", my))
    <2>1. ProvGoes(p, "named find") /\ provs'[p].my = my
        BY <1>3, ProvGoesTo
    <2> QED
        BY <1>1, <1>3, <2>1
<1> QED
    BY <1>2, <1>3, ProvMoves

LEMMA WaitDoes ==
    ASSUME ClawTyped, NEW p \in Provs, Wait(p)
    PROVE  /\ provs[p].pc = "wait" /\ UNCHANGED host
           /\ \/ /\ Slow(p) /\ ProvGoes(p, "run find")
                 /\ provs'[p].my.named = provs[p].my.named
              \/ ProvFails(p)
<1> DEFINE my == [provs[p].my EXCEPT !.status = "running"]
<1>1. my.named = provs[p].my.named
    BY ClawParts DEF Session
<1>2. /\ provs[p].pc = "wait" /\ UNCHANGED host
      /\ \/ Slow(p) /\ ProvIs(p, At("run find", my))
         \/ ProvIs(p, Failed(provs[p].my))
    BY DEF Wait
<1> HIDE DEF my
<1>3. CASE Slow(p) /\ ProvIs(p, At("run find", my))
    <2>1. ProvGoes(p, "run find") /\ provs'[p].my = my
        BY <1>3, ProvGoesTo
    <2> QED
        BY <1>1, <1>2, <1>3, <2>1
<1> QED
    BY <1>2, <1>3, ProvMoves

LEMMA ProvFindsDoes ==
    ASSUME ClawTyped, NEW p \in Provs, ProvFinds(p)
    PROVE  /\ UNCHANGED host
           /\ \/ /\ provs'[p].my = provs[p].my
                 /\ \/ provs[p].pc = "named find" /\ ProvGoes(p, "named save")
                    \/ provs[p].pc = "run find" /\ ProvGoes(p, "run save")
                    \/ provs[p].pc = "error find" /\ ProvGoes(p, "error save")
              \/ /\ provs[p].pc = "error find" /\ ProvGoes(p, "closed")
                 /\ provs'[p].my.status = "creating"
              \/ provs[p].pc \in {"named find", "run find"} /\ ProvFails(p)
<1>0. UNCHANGED host
    BY DEF ProvFinds
<1>1. CASE claw.exists
    <2>1. PICK pc : /\ ProvIs(p, [pc |-> pc, my |-> provs[p].my, found |-> claw])
                    /\ \/ provs[p].pc = "named find" /\ pc = "named save"
                       \/ provs[p].pc = "run find" /\ pc = "run save"
                       \/ provs[p].pc = "error find" /\ pc = "error save"
        BY <1>1 DEF ProvFinds
    <2>2. provs'[p] = [pc |-> pc, my |-> provs[p].my, found |-> claw]
        BY <2>1, ProvMoves
    <2>3. provs'[p].pc = pc /\ provs'[p].my = provs[p].my /\ provs'[p].found = claw
        BY <2>2
    <2> QED
        BY <1>0, <1>1, <2>1, <2>3 DEF ProvGoes
<1>2. CASE ~claw.exists /\ provs[p].pc = "error find"
    <2>1. ProvIs(p, Closed)
        BY <1>2 DEF ProvFinds
    <2> QED
        BY <1>0, <1>2, <2>1, ProvMoves, AtMade DEF ProvGoes
<1>3. CASE ~claw.exists /\ provs[p].pc # "error find"
    BY <1>0, <1>3, ProvMoves DEF ProvFinds
<1> QED
    BY <1>1, <1>2, <1>3

LEMMA ProvSavesDoes ==
    ASSUME ClawTyped, NEW p \in Provs, ProvSaves(p)
    PROVE  /\ Save(provs[p].found, Merged(provs[p].found, provs[p].my))
           /\ \/ /\ provs[p].pc = "named save" /\ ProvGoes(p, "wait")
                 /\ provs'[p].my = provs[p].my
              \/ /\ provs[p].pc \in {"run save", "error save"} /\ ProvGoes(p, "closed")
                 /\ provs'[p].my.status = "creating"
<1>0. /\ provs[p].pc \in {"named save", "run save", "error save"}
      /\ Save(provs[p].found, Merged(provs[p].found, provs[p].my))
    BY DEF ProvSaves
<1>1. CASE provs[p].pc = "named save"
    <2>1. ProvIs(p, At("wait", provs[p].my))
        BY <1>1 DEF ProvSaves
    <2>2. ProvGoes(p, "wait") /\ provs'[p].my = provs[p].my
        BY <2>1, ProvGoesTo
    <2> QED
        BY <1>0, <1>1, <2>2
<1>2. CASE provs[p].pc # "named save"
    <2>1. ProvIs(p, Closed)
        BY <1>2 DEF ProvSaves
    <2>2. ProvGoes(p, "closed") /\ provs'[p].my.status = "creating"
        BY <2>1, ProvMoves, AtMade DEF ProvGoes
    <2> QED
        BY <1>0, <1>2, <2>2
<1> QED
    BY <1>1, <1>2

LEMMA ErrorDoes ==
    ASSUME ClawTyped, NEW p \in Provs, Error(p)
    PROVE  /\ provs[p].pc = "error" /\ host' = Emptied(provs[p].my.named)
           /\ ProvGoes(p, "error find")
           /\ provs'[p].my.status = provs[p].my.status
<1> DEFINE my == [provs[p].my EXCEPT !.named = FALSE]
<1>1. my.status = provs[p].my.status
    BY ClawParts DEF Session
<1>2. /\ provs[p].pc = "error" /\ host' = Emptied(provs[p].my.named)
      /\ ProvIs(p, At("error find", my))
    BY DEF Error, Clear
<1> HIDE DEF my
<1>3. ProvGoes(p, "error find") /\ provs'[p].my = my
    BY <1>2, ProvGoesTo
<1> QED
    BY <1>1, <1>2, <1>3

-----------------------------------------------------------------------------
(* No container without a name: the invariant.                             *)

\* The update or delete of a call or provisioning is of a session that is there.
FoundThere ==
    /\ \A c \in Calls : calls[c].found.exists
    /\ \A p \in Provs : provs[p].found.exists

\* A session runs, in the document or in an object that will be saved, only with a
\* container it names; a provisioning knows its container from the creation on, and
\* one that failed does not say that it runs.
NamedIfRunning(session) == session.status = "running" => session.named
Names ==
    /\ NamedIfRunning(claw.session)
    /\ \A c \in Calls : /\ NamedIfRunning(calls[c].my)
                        /\ calls[c].pc = "health" => calls[c].my.named
    /\ \A p \in Provs :
          /\ NamedIfRunning(provs[p].my)
          /\ provs[p].pc \in {"named find", "named save", "wait", "run find", "run save"} =>
                provs[p].my.named
          /\ provs[p].pc \in {"error", "error find", "error save"} =>
                provs[p].my.status = "error"
    /\ \A c \in Chats : NamedIfRunning(chats[c].found.session)

\* The provisioning of a restart begins when its call ends.
NotSpawned == \A c \in Restarts : calls[c].pc # "closed" => provs[c].pc = "none"

\* A provisioning that will name the container, or remove it; a call, and a
\* provisioning, that is about to take the name out of the document.
Holds(p) ==
    \/ provs[p].pc \in {"named find", "named save", "wait"}
    \/ provs[p].pc = "error" /\ provs[p].my.named
CallUnnames(c) ==
    \/ calls[c].pc \in {"stop find", "stop save"} /\ ~calls[c].my.named
    \/ c \in Deletes /\ calls[c].pc \in {"find", "save"} /\ calls[c].my.named
ProvUnnames(p) ==
    \/ provs[p].pc \in {"error find", "error save"}
    \/ provs[p].pc = "error" /\ ~provs[p].my.named

\* A provisioning that will make a container of its own, or save the name of one.
WillName(p) == provs[p].pc \in {"create", "run find", "run save"}

Accounted ==
    /\ \A c \in Calls : ~CallUnnames(c)
    /\ \A p \in Provs : ~ProvUnnames(p)
    /\ (\E p \in Provs : WillName(p)) \/ (claw.exists /\ claw.session.named)

Attached == host.box /\ ~stale /\ ~host.left => (\E p \in Provs : Holds(p)) \/ Accounted

StrayInv == FoundThere /\ Names /\ NotSpawned /\ Attached

LEMMA MergedMade ==
    \A found \in Document, my \in Session :
        /\ Merged(found, my).session = my /\ Merged(found, my).exists = found.exists
        /\ Merged(found, my) \in Document
BY DEF Merged, Document

LEMMA AppendedMade ==
    \A found : \A entry :
        found \in Document =>
            /\ Appended(found, entry).session = found.session
            /\ Appended(found, entry).exists = found.exists
BY DEF Appended, Document

LEMMA ChatFound ==
    ASSUME ClawTyped, NEW c \in Chats,
           Validate(c) \/ Chunk(c) \/ ToolResult(c) \/ ChatStep(c)
    PROVE  chats'[c].found \in {chats[c].found, claw, NewDocument}
<1>1. ASSUME NEW pc, ChatIs(c, pc)
      PROVE  chats'[c].found = NewDocument
    BY <1>1 DEF ClawTyped, ChatIs
<1>2. CASE Chunk(c)
    BY <1>2 DEF Chunk, ClawTyped, ChatRecord
<1>3. CASE Validate(c) \/ ToolResult(c) \/ ChatSaves(c) \/ EndStream(c) \/ Finish(c)
    BY <1>1, <1>3 DEF Validate, ToolResult, ChatSaves, EndStream, Finish
<1>4. CASE ChatFinds(c)
    <2>1. CASE claw.exists
        <3>1. PICK pc : chats' = [chats EXCEPT
                            ![c] = [pc |-> pc, chunks |-> chats[c].chunks, found |-> claw]]
            BY <1>4, <2>1 DEF ChatFinds
        <3> QED
            BY <3>1 DEF ClawTyped
    <2>2. CASE ~claw.exists
        BY <1>1, <1>4, <2>2 DEF ChatFinds
    <2> QED
        BY <2>1, <2>2
<1> QED
    BY <1>2, <1>3, <1>4 DEF ChatStep

LEMMA StrayInit == ClawInit => StrayInv
<1> SUFFICES ASSUME ClawInit PROVE StrayInv
    OBVIOUS
<1>1. host.box = FALSE
    BY DEF ClawInit
<1>2. \A c \in Calls : calls[c] = At("idle", NewSession)
    BY DEF ClawInit
<1>3. \A p \in Provs : \/ p = Created /\ provs[p] = At("create", NewSession)
                       \/ p # Created /\ provs[p] = At("none", NewSession)
    BY DEF ClawInit
<1>4. NewSession.status = "creating" /\ NewDocument.session.status = "creating"
    BY DEF NewDocument, NewSession
<1>5. FoundThere
    BY <1>2, <1>3, AtMade DEF FoundThere
<1>6. Names
    <2>1. claw.session.status = "creating"
        BY <1>4 DEF ClawInit
    <2>2. \A c \in Calls : calls[c].my.status = "creating" /\ calls[c].pc = "idle"
        BY <1>2, <1>4, AtMade
    <2>3. \A p \in Provs : /\ provs[p].my.status = "creating"
                           /\ provs[p].pc \in {"create", "none"}
        BY <1>3, <1>4, AtMade
    <2>4. \A c \in Chats : chats[c].found.session.status = "creating"
        BY <1>4 DEF ClawInit
    <2> QED
        BY <2>1, <2>2, <2>3, <2>4 DEF Names, NamedIfRunning
<1>7. NotSpawned
    BY <1>3, AtMade, ClawConstants DEF NotSpawned, Provs
<1>8. Attached
    BY <1>1 DEF Attached
<1> QED
    BY <1>5, <1>6, <1>7, <1>8 DEF StrayInv

LEMMA FoundThereStep == ClawTyped /\ FoundThere /\ [ClawNext]_clawVars => FoundThere'
<1> SUFFICES ASSUME ClawTyped, FoundThere, [ClawNext]_clawVars PROVE FoundThere'
    OBVIOUS
<1>1. ASSUME UNCHANGED <<calls, provs>>
      PROVE  FoundThere'
    BY <1>1 DEF FoundThere
<1>2. ASSUME NEW c \in Calls, Read(c) \/ CallStep(c)
      PROVE  FoundThere'
    <2>1. calls'[c].found.exists
        BY <1>2, ReadDoes, HealthDoes, ActDoes, CallFindsDoes, StoppedDoes, EndsDoes
           DEF CallStep, CallGoes, CallRests
    <2>2. \A p \in Provs : provs'[p].found.exists
        <3>1. CASE Restarted(c)
            <4>1. c \in Provs /\ ProvIs(c, At("create", calls[c].my))
                BY <3>1 DEF Restarted, ProvIs, Provs
            <4> QED
                BY <4>1, ProvMoves, AtMade DEF FoundThere
        <3>2. CASE ~Restarted(c)
            BY <1>2, <3>2, ClawFrames DEF CallStep, FoundThere
        <3> QED
            BY <3>1, <3>2
    <2> QED
        BY <1>2, <2>1, <2>2, CallMoves DEF FoundThere
<1>3. ASSUME NEW p \in Provs, ProvStep(p)
      PROVE  FoundThere'
    <2>1. provs'[p].found.exists
        BY <1>3, CreateDoes, WaitDoes, ProvFindsDoes, ProvSavesDoes, ErrorDoes
           DEF ProvStep, ProvGoes, ProvFails
    <2>2. UNCHANGED calls
        BY <1>3, ClawFrames DEF ProvStep
    <2> QED
        BY <1>3, <2>1, <2>2, ProvMoves DEF FoundThere
<1>4. ASSUME NEW c \in Chats, Validate(c) \/ Chunk(c) \/ ToolResult(c) \/ ChatStep(c)
      PROVE  UNCHANGED <<calls, provs>>
    BY <1>4, ClawFrames DEF ChatStep
<1>5. CASE UNCHANGED clawVars
    BY <1>1, <1>5 DEF clawVars
<1> QED
    BY <1>1, <1>2, <1>3, <1>4, <1>5, ClawFrames DEF ClawNext

\* A provisioning of a restart goes on only when the call has ended.
LEMMA NotSpawnedStep == ClawTyped /\ NotSpawned /\ [ClawNext]_clawVars => NotSpawned'
<1> SUFFICES ASSUME ClawTyped, NotSpawned, [ClawNext]_clawVars, NEW r \in Restarts,
                    calls'[r].pc # "closed"
             PROVE  provs'[r].pc = "none"
    BY DEF NotSpawned
<1>0. r \in Calls /\ r \in Provs
    BY DEF Calls, Provs
<1>1. ASSUME UNCHANGED calls
      PROVE  provs[r].pc = "none"
    BY <1>1 DEF NotSpawned
<1>2. ASSUME NEW c \in Calls, Read(c) \/ CallStep(c)
      PROVE  provs'[r].pc = "none"
    <2>1. provs[r].pc = "none"
        BY <1>0, <1>2, CallMoves DEF NotSpawned
    <2>2. CASE Restarted(c)
        <3>1. calls'[c].pc = "closed"
            BY <2>2, EndsDoes DEF CallRests, CallGoes
        <3>2. c \in Provs /\ ProvIs(c, At("create", calls[c].my))
            BY <2>2 DEF Restarted, ProvIs, Provs
        <3> QED
            BY <1>0, <2>1, <3>1, <3>2, ProvMoves
    <2>3. CASE ~Restarted(c)
        BY <1>2, <2>1, <2>3, ClawFrames DEF CallStep
    <2> QED
        BY <2>2, <2>3
<1>3. ASSUME NEW p \in Provs, ProvStep(p)
      PROVE  provs'[r].pc = "none"
    <2>1. UNCHANGED calls
        BY <1>3, ClawFrames DEF ProvStep
    <2> QED
        BY <1>0, <1>1, <1>3, <2>1, ProvMoves
<1>4. ASSUME NEW c \in Chats, Validate(c) \/ Chunk(c) \/ ToolResult(c) \/ ChatStep(c)
      PROVE  UNCHANGED <<calls, provs>>
    BY <1>4, ClawFrames DEF ChatStep
<1>5. CASE UNCHANGED clawVars
    BY <1>1, <1>5 DEF clawVars
<1> QED
    BY <1>1, <1>2, <1>3, <1>4, <1>5, ClawFrames DEF ClawNext

LEMMA NamesStep == ClawTyped /\ Names /\ [ClawNext]_clawVars => Names'
<1> SUFFICES ASSUME ClawTyped, Names, [ClawNext]_clawVars PROVE Names'
    OBVIOUS
<1> DEFINE ClawNames == NamedIfRunning(claw.session)
           CallNames(c) == /\ NamedIfRunning(calls[c].my)
                           /\ calls[c].pc = "health" => calls[c].my.named
           ProvNames(p) ==
               /\ NamedIfRunning(provs[p].my)
               /\ provs[p].pc \in {"named find", "named save", "wait", "run find", "run save"}
                     => provs[p].my.named
               /\ provs[p].pc \in {"error", "error find", "error save"} =>
                     provs[p].my.status = "error"
           ChatNames(c) == NamedIfRunning(chats[c].found.session)
<1>a. /\ ClawNames
      /\ \A c \in Calls : CallNames(c)
      /\ \A p \in Provs : ProvNames(p)
      /\ \A c \in Chats : ChatNames(c)
    BY DEF Names
<1>b. ASSUME ClawNames', \A c \in Calls : CallNames(c)', \A p \in Provs : ProvNames(p)',
             \A c \in Chats : ChatNames(c)'
      PROVE  Names'
    BY <1>b DEF Names
<1>1. \A c \in Calls : Read(c) \/ CallStep(c) => CallNames(c)'
    <2> SUFFICES ASSUME NEW c \in Calls, Read(c) \/ CallStep(c)
                 PROVE  CallNames(c)'
        OBVIOUS
    <2>1. CASE CallRests(c)
        BY <2>1 DEF CallRests, CallGoes, NamedIfRunning
    <2>2. CASE Read(c)
        BY <1>a, <2>1, <2>2, ReadDoes DEF CallGoes, NamedIfRunning
    <2>3. CASE Health(c)
        BY <1>a, <2>1, <2>3, HealthDoes DEF CallGoes, NamedIfRunning
    <2>4. CASE Act(c)
        BY <1>a, <2>1, <2>4, ActDoes DEF CallGoes, NamedIfRunning
    <2>5. CASE CallFinds(c)
        BY <1>a, <2>1, <2>5, CallFindsDoes DEF CallGoes, NamedIfRunning
    <2>6. CASE Stopped(c)
        BY <1>a, <2>1, <2>6, StoppedDoes DEF CallGoes, NamedIfRunning
    <2>7. CASE Restarted(c) \/ Deleted(c)
        BY <2>1, <2>7, EndsDoes
    <2> QED
        BY <2>2, <2>3, <2>4, <2>5, <2>6, <2>7 DEF CallStep
<1>2. \A p \in Provs : ProvStep(p) => ProvNames(p)'
    <2> SUFFICES ASSUME NEW p \in Provs, ProvStep(p)
                 PROVE  ProvNames(p)'
        OBVIOUS
    <2>1. CASE ProvFails(p)
        BY <2>1 DEF ProvFails, ProvGoes, NamedIfRunning
    <2>2. CASE Create(p)
        BY <1>a, <2>1, <2>2, CreateDoes DEF ProvGoes, NamedIfRunning
    <2>3. CASE Wait(p)
        BY <1>a, <2>1, <2>3, WaitDoes DEF ProvGoes, NamedIfRunning
    <2>4. CASE ProvFinds(p)
        BY <1>a, <2>1, <2>4, ProvFindsDoes DEF ProvGoes, NamedIfRunning
    <2>5. CASE ProvSaves(p)
        BY <1>a, <2>5, ProvSavesDoes DEF ProvGoes, NamedIfRunning
    <2>6. CASE Error(p)
        BY <1>a, <2>6, ErrorDoes DEF ProvGoes, NamedIfRunning
    <2> QED
        BY <2>2, <2>3, <2>4, <2>5, <2>6 DEF ProvStep
<1>3. ASSUME NEW found \in Document, NEW my \in Session, Save(found, Merged(found, my)),
             NamedIfRunning(my)
      PROVE  ClawNames'
    <2>1. claw'.session = my
        BY <1>3, MergedMade DEF Save
    <2> QED
        BY <1>3, <2>1 DEF NamedIfRunning
<1>4. ASSUME UNCHANGED claw
      PROVE  ClawNames'
    BY <1>4, <1>a
<1>5. ASSUME NEW c \in Calls, Read(c) \/ CallStep(c)
      PROVE  Names'
    <2>1. \A d \in Calls : CallNames(d)'
        BY <1>1, <1>5, <1>a, CallMoves
    <2>2. \A d \in Chats : ChatNames(d)'
        BY <1>5, <1>a, ClawFrames DEF CallStep
    <2>3. \A p \in Provs : ProvNames(p)'
        <3>1. CASE Restarted(c)
            <4>1. c \in Provs /\ ProvIs(c, At("create", calls[c].my))
                BY <3>1 DEF Restarted, ProvIs, Provs
            <4>2. ProvGoes(c, "create") /\ provs'[c].my = calls[c].my
                BY <4>1, ProvGoesTo
            <4>3. ProvNames(c)'
                BY <1>a, <4>2 DEF ProvGoes, NamedIfRunning
            <4> QED
                BY <1>a, <4>1, <4>3, ProvMoves, ZenonT(60)
        <3>2. CASE ~Restarted(c)
            <4>1. UNCHANGED provs
                BY <1>5, <3>2, ClawFrames DEF CallStep
            <4> QED
                BY <1>a, <4>1
        <3> QED
            BY <3>1, <3>2
    <2>4. ClawNames'
        <3>1. CASE Stopped(c) \/ Restarted(c)
            BY <1>3, <1>a, <3>1, ClawParts DEF Stopped, Restarted
        <3>2. CASE Deleted(c)
            <4>1. claw'.session = claw.session
                BY <3>2, ClawParts DEF Deleted, Document
            <4> QED
                BY <1>a, <4>1 DEF NamedIfRunning
        <3> QED
            BY <1>4, <1>5, <3>1, <3>2, ClawFrames DEF CallStep, clawDoc
    <2> QED
        BY <1>b, <2>1, <2>2, <2>3, <2>4
<1>6. ASSUME NEW p \in Provs, ProvStep(p)
      PROVE  Names'
    <2>1. \A c \in Calls : CallNames(c)'
        BY <1>6, <1>a, ClawFrames DEF ProvStep
    <2>2. \A c \in Chats : ChatNames(c)'
        BY <1>6, <1>a, ClawFrames DEF ProvStep
    <2>3. \A q \in Provs : ProvNames(q)'
        BY <1>2, <1>6, <1>a, ProvMoves, ZenonT(60)
    <2>4. ClawNames'
        <3>1. CASE ProvSaves(p)
            BY <1>3, <1>a, <3>1, ClawParts DEF ProvSaves
        <3> QED
            BY <1>4, <1>6, <3>1, ClawFrames DEF ProvStep, clawDoc
    <2> QED
        BY <1>b, <2>1, <2>2, <2>3, <2>4
<1>7. ASSUME NEW c \in Chats, Validate(c) \/ Chunk(c) \/ ToolResult(c) \/ ChatStep(c)
      PROVE  Names'
    <2>1. \A d \in Calls : CallNames(d)'
        BY <1>7, <1>a, ClawFrames DEF ChatStep
    <2>2. \A p \in Provs : ProvNames(p)'
        BY <1>7, <1>a, ClawFrames DEF ChatStep
    <2>3. \A d \in Chats : ChatNames(d)'
        <3>1. chats'[c].found \in {chats[c].found, claw, NewDocument}
            BY <1>7, ChatFound
        <3>2. NewDocument.session.status = "creating"
            BY DEF NewDocument, NewSession
        <3>3. /\ claw.session.status = "running" => claw.session.named
              /\ chats[c].found.session.status = "running" => chats[c].found.session.named
            BY <1>a DEF NamedIfRunning
        <3>4. ChatNames(c)'
            BY <3>1, <3>2, <3>3 DEF NamedIfRunning
        <3>5. \A d \in Chats : d # c => chats'[d] = chats[d]
            BY <1>7, ChatSays, ChunkSays
        <3> QED
            BY <1>a, <3>4, <3>5
    <2>4. ClawNames'
        <3>1. CASE ChatSaves(c)
            <4>1. claw'.session = chats[c].found.session
                BY <3>1, ClawParts, AppendedMade DEF ChatSaves, Save
            <4>2. chats[c].found.session.status = "running" => chats[c].found.session.named
                BY <1>a DEF NamedIfRunning
            <4> QED
                BY <4>1, <4>2 DEF NamedIfRunning
        <3> QED
            BY <1>4, <1>7, <3>1, ClawFrames DEF ChatStep, clawDoc
    <2> QED
        BY <1>b, <2>1, <2>2, <2>3, <2>4
<1>8. ASSUME UNCHANGED <<claw, calls, provs, chats>>
      PROVE  Names'
    BY <1>8 DEF Names
<1>9. CASE UNCHANGED clawVars
    BY <1>8, <1>9 DEF clawVars, clawDoc
<1>10. CASE BoxDies \/ Join \/ CatchUp \/ Leave
    BY <1>8, <1>10, ClawFrames DEF clawDoc
<1> QED
    BY <1>5, <1>6, <1>7, <1>9, <1>10 DEF ClawNext

\* A call that does not destroy the container does not set out to take its name,
LEMMA CallUnnamesNot ==
    ASSUME ClawTyped, Names, NEW c \in Calls, Read(c) \/ CallStep(c),
           host'.box, ~host'.left
    PROVE  /\ host.box /\ ~host.left
           /\ CallUnnames(c)' => CallUnnames(c)
<1> USE ClawParts
<1>1. ASSUME NEW named \in BOOLEAN, host' = Emptied(named) \/ host' = Wiped(named)
      PROVE  host.box /\ ~host.left /\ ~named
    BY <1>1, HostsMade
<1>2. claw.session.named \in BOOLEAN /\ calls[c].my.named \in BOOLEAN
    BY SessionsMade
<1>3. CASE CallRests(c) /\ UNCHANGED host
    BY <1>3 DEF CallUnnames, CallRests, CallGoes
<1>4. CASE Read(c)
    <2>1. CASE CallGoes(c, "act") \/ CallGoes(c, "health")
        <3>1. ~CallUnnames(c)'
            BY <2>1 DEF CallUnnames, CallGoes
        <3>2. UNCHANGED host
            BY <1>4, <2>1, ReadDoes DEF CallGoes, CallRests
        <3> QED
            BY <3>1, <3>2
    <2>2. CASE claw.session.status = "running" /\ host' = Emptied(claw.session.named)
        <3>1. claw.session.named
            BY <2>2 DEF Names, NamedIfRunning
        <3> QED
            BY <1>1, <1>2, <2>2, <3>1
    <2> QED
        BY <1>3, <1>4, <2>1, <2>2, ReadDoes
<1>5. CASE Health(c)
    <2>1. calls[c].my.named
        BY <1>5, HealthDoes DEF Names
    <2>2. UNCHANGED host
        BY <1>5, HealthDoes
    <2>3. ~CallUnnames(c)'
        BY <1>5, <2>1, HealthDoes DEF CallUnnames, CallGoes, CallRests
    <2> QED
        BY <2>2, <2>3
<1>6. CASE Act(c)
    <2>1. host.box /\ ~host.left /\ ~calls[c].my.named
        BY <1>1, <1>2, <1>6, ActDoes
    <2>2. calls'[c].pc = "find" /\ ~calls'[c].my.named
        BY <1>6, <2>1, ActDoes DEF CallGoes
    <2> QED
        BY <2>1, <2>2 DEF CallUnnames
<1>7. CASE CallFinds(c)
    <2>1. UNCHANGED host
        BY <1>7, CallFindsDoes
    <2>2. CallUnnames(c)' => CallUnnames(c)
        BY <1>7, CallFindsDoes DEF CallUnnames, CallGoes, CallRests
    <2> QED
        BY <2>1, <2>2
<1>8. CASE Stopped(c)
    <2>1. ~CallUnnames(c)'
        BY <1>8, StoppedDoes DEF CallUnnames, CallGoes, CallRests
    <2> QED
        BY <1>8, <2>1, ClawFrames
<1>9. CASE Restarted(c) \/ Deleted(c)
    BY <1>3, <1>9, EndsDoes, ClawFrames
<1> QED
    BY <1>4, <1>5, <1>6, <1>7, <1>8, <1>9 DEF CallStep

LEMMA AttachedByCall ==
    ASSUME ClawTyped, StrayInv, NEW c \in Calls, Read(c) \/ CallStep(c),
           host'.box, ~stale', ~host'.left
    PROVE  (\E p \in Provs : Holds(p)') \/ Accounted'
<1> USE ClawParts
<1>1. host.box /\ ~host.left /\ (CallUnnames(c)' => CallUnnames(c))
    BY CallUnnamesNot DEF StrayInv
<1>2. \A d \in Calls : CallUnnames(d)' => CallUnnames(d)
    <2>1. \A d \in Calls : d # c => calls'[d] = calls[d]
        BY CallMoves
    <2> QED
        BY <1>1, <2>1 DEF CallUnnames
<1>3. ~stale
    <2>1. CASE Stopped(c) \/ Restarted(c)
        BY <2>1, ClawMoves, MergedMade DEF Stopped, Restarted
    <2>2. CASE Deleted(c)
        <3>1. stale' = (stale \/ calls[c].my # claw.session)
            BY <2>2 DEF Deleted
        <3> QED
            BY <3>1, Zenon
    <2>3. CASE UNCHANGED clawDoc
        BY <2>3 DEF clawDoc
    <2> QED
        BY <2>1, <2>2, <2>3, ClawFrames DEF CallStep
<1>4. Restarted(c) => /\ c \in Provs /\ provs[c].pc = "none" /\ provs'[c].pc = "create"
                      /\ \A q \in Provs : q # c => provs'[q] = provs[q]
    <2> SUFFICES ASSUME Restarted(c)
                 PROVE  /\ c \in Provs /\ provs[c].pc = "none" /\ provs'[c].pc = "create"
                        /\ \A q \in Provs : q # c => provs'[q] = provs[q]
        OBVIOUS
    <2>1. c \in Provs /\ ProvIs(c, At("create", calls[c].my))
        BY DEF Restarted, ProvIs, Provs
    <2>2. provs[c].pc = "none"
        BY DEF Restarted, StrayInv, NotSpawned
    <2> QED
        BY <2>1, <2>2, ProvGoesTo, ProvMoves DEF ProvGoes
<1>5. ~Restarted(c) => UNCHANGED provs
    BY ClawFrames DEF CallStep
<1>6. CASE \E p \in Provs : Holds(p)
    <2>1. PICK p \in Provs : Holds(p)
        BY <1>6
    <2>2. provs'[p] = provs[p]
        BY <1>4, <1>5, <2>1 DEF Holds
    <2> QED
        BY <2>1, <2>2 DEF Holds
<1>7. CASE Accounted
    <2>1. \A d \in Calls : ~CallUnnames(d)'
        BY <1>2, <1>7 DEF Accounted
    <2>2. \A p \in Provs : ~ProvUnnames(p)'
        BY <1>4, <1>5, <1>7 DEF Accounted, ProvUnnames
    <2>3. CASE \E p \in Provs : WillName(p)'
        BY <2>1, <2>2, <2>3 DEF Accounted
    <2>4. CASE Restarted(c)
        BY <1>4, <2>3, <2>4 DEF WillName
    <2>5. CASE ~Restarted(c) /\ \E p \in Provs : WillName(p)
        BY <1>5, <2>3, <2>5 DEF WillName
    <2>6. CASE ~Restarted(c) /\ claw.exists /\ claw.session.named
        <3>1. CASE UNCHANGED claw
            BY <2>1, <2>2, <2>6, <3>1 DEF Accounted
        <3>2. CASE Stopped(c)
            <4>1. calls[c].my.named
                BY <1>7, <3>2 DEF Accounted, CallUnnames, Stopped
            <4>2. claw' = Merged(calls[c].found, calls[c].my)
                BY <3>2 DEF Stopped, Save
            <4>3. calls[c].found.exists
                BY DEF StrayInv, FoundThere
            <4>4. claw'.exists = calls[c].found.exists /\ claw'.session = calls[c].my
                BY <4>2, MergedMade
            <4>5. claw'.exists /\ claw'.session.named
                BY <4>1, <4>3, <4>4
            <4> QED
                BY <2>1, <2>2, <4>5 DEF Accounted
        <3>3. CASE Deleted(c)
            <4>1. stale' = (stale \/ calls[c].my # claw.session)
                BY <3>3 DEF Deleted
            <4>2. calls[c].my = claw.session
                BY <4>1, Zenon
            <4>3. CallUnnames(c)
                BY <2>6, <3>3, <4>2 DEF CallUnnames, Deleted
            <4> QED
                BY <1>7, <4>3 DEF Accounted
        <3> QED
            BY <2>6, <3>1, <3>2, <3>3, ClawFrames DEF CallStep, clawDoc
    <2> QED
        BY <1>7, <2>4, <2>5, <2>6 DEF Accounted
<1> QED
    BY <1>1, <1>3, <1>6, <1>7 DEF StrayInv, Attached

\* and neither does a provisioning.
LEMMA AttachedByProv ==
    ASSUME ClawTyped, StrayInv, NEW p \in Provs, ProvStep(p),
           host'.box, ~stale', ~host'.left
    PROVE  (\E q \in Provs : Holds(q)') \/ Accounted'
<1> USE ClawParts
<1>0. /\ UNCHANGED calls
      /\ \A q \in Provs : q # p => provs'[q] = provs[q]
    BY ProvMoves, ClawFrames DEF ProvStep
<1>1. CASE Holds(p)'
    BY <1>1
<1>2. \A c \in Calls : CallUnnames(c)' => CallUnnames(c)
    BY <1>0 DEF CallUnnames
<1>3. ASSUME NEW q \in Provs, q # p, Holds(q)
      PROVE  Holds(q)'
    BY <1>0, <1>3 DEF Holds
<1>4. provs[p].my.named \in BOOLEAN
    BY SessionsMade
<1>5. CASE Create(p)
    <2>1. CASE ProvGoes(p, "named find")
        BY <1>1, <2>1 DEF Holds, ProvGoes
    <2>2. CASE host' = [host EXCEPT !.left = host.box]
        BY <2>2, HostsMade
    <2>3. CASE host' = Filled(FALSE)
        BY <2>3, HostsMade
    <2> QED
        BY <1>5, <2>1, <2>2, <2>3, CreateDoes
<1>6. CASE Wait(p)
    <2>1. CASE ProvFails(p)
        <3>1. provs[p].my.named
            BY <1>6, WaitDoes DEF StrayInv, Names
        <3> QED
            BY <1>1, <2>1, <3>1 DEF Holds, ProvFails, ProvGoes
    <2>2. CASE Slow(p) /\ ProvGoes(p, "run find")
        <3>1. \A c \in Calls : ~CallUnnames(c)
            BY <2>2 DEF Slow, Writing, CallUnnames
        <3>2. \A q \in Provs : ~ProvUnnames(q)'
            BY <1>0, <2>2 DEF Slow, Writing, ProvUnnames, ProvGoes
        <3>3. WillName(p)'
            BY <2>2 DEF WillName, ProvGoes
        <3> QED
            BY <1>2, <3>1, <3>2, <3>3 DEF Accounted
    <2> QED
        BY <1>6, <2>1, <2>2, WaitDoes
<1>7. CASE Error(p)
    <2>1. host.box /\ ~host.left /\ ~provs[p].my.named /\ provs[p].pc = "error"
        BY <1>4, <1>7, ErrorDoes, HostsMade
    <2>2. ~stale
        BY <1>7, ClawFrames DEF clawDoc
    <2>3. ProvUnnames(p) /\ ~Holds(p)
        BY <2>1 DEF ProvUnnames, Holds
    <2>4. PICK q \in Provs : Holds(q)
        BY <2>1, <2>2, <2>3 DEF StrayInv, Attached, Accounted
    <2> QED
        BY <1>3, <2>3, <2>4
<1>8. CASE ProvFinds(p)
    <2>1. CASE ProvFails(p) /\ provs[p].pc \in {"named find", "run find"}
        <3>1. provs[p].my.named
            BY <2>1 DEF StrayInv, Names
        <3> QED
            BY <1>1, <2>1, <3>1 DEF Holds, ProvFails, ProvGoes
    <2>2. CASE ProvGoes(p, "named save")
        BY <1>1, <2>2 DEF Holds, ProvGoes
    <2>3. UNCHANGED <<host, clawDoc>>
        BY <1>8, ClawFrames, ProvFindsDoes
    <2>4. CASE /\ provs[p].pc \in {"error find", "run find"}
               /\ provs'[p].pc \in {"run save", "error save", "closed"}
               /\ provs[p].pc = "run find" => provs'[p].pc = "run save"
        <3>1. ~Holds(p)
            BY <2>4 DEF Holds
        <3>2. CASE \E q \in Provs : Holds(q)
            BY <1>3, <3>1, <3>2
        <3>3. CASE Accounted
            <4>1. provs[p].pc = "run find" /\ WillName(p)'
                BY <2>4, <3>3 DEF Accounted, ProvUnnames, WillName
            <4>2. ~ProvUnnames(p)'
                BY <4>1 DEF WillName, ProvUnnames
            <4>3. \A q \in Provs : ~ProvUnnames(q)'
                BY <1>0, <3>3, <4>2 DEF Accounted, ProvUnnames
            <4> QED
                BY <1>2, <3>3, <4>1, <4>3 DEF Accounted
        <3> QED
            BY <2>3, <3>2, <3>3 DEF StrayInv, Attached, clawDoc
    <2> QED
        BY <1>8, <2>1, <2>2, <2>4, ProvFindsDoes DEF ProvGoes
<1>9. CASE ProvSaves(p)
    <2>1. ~stale
        BY <1>9, ClawMoves, MergedMade DEF ProvSaves
    <2>2. UNCHANGED host
        BY <1>9, ClawFrames
    <2>3. CASE ProvGoes(p, "wait")
        BY <1>1, <2>3 DEF Holds, ProvGoes
    <2>4. CASE provs[p].pc \in {"run save", "error save"} /\ ProvGoes(p, "closed")
        <3>1. ~Holds(p)
            BY <2>4 DEF Holds
        <3>2. CASE \E q \in Provs : Holds(q)
            BY <1>3, <3>1, <3>2
        <3>3. CASE Accounted
            <4>1. provs[p].pc = "run save"
                BY <2>4, <3>3 DEF Accounted, ProvUnnames
            <4>2. provs[p].my.named /\ provs[p].found.exists
                BY <4>1 DEF StrayInv, Names, FoundThere
            <4>3. claw' = Merged(provs[p].found, provs[p].my)
                BY <1>9 DEF ProvSaves, Save
            <4>4. claw'.exists = provs[p].found.exists /\ claw'.session = provs[p].my
                BY <4>3, MergedMade
            <4>5. claw'.exists /\ claw'.session.named
                BY <4>2, <4>4
            <4>6. \A q \in Provs : ~ProvUnnames(q)'
                BY <1>0, <2>4, <3>3 DEF Accounted, ProvUnnames, ProvGoes
            <4> QED
                BY <1>2, <3>3, <4>5, <4>6 DEF Accounted
        <3> QED
            BY <2>1, <2>2, <3>2, <3>3 DEF StrayInv, Attached
    <2> QED
        BY <1>9, <2>3, <2>4, ProvSavesDoes
<1> QED
    BY <1>5, <1>6, <1>7, <1>8, <1>9 DEF ProvStep

\* A chat keeps the session of the document.
LEMMA ChatKeepsSession ==
    ASSUME ClawTyped, NEW c \in Chats,
           Validate(c) \/ Chunk(c) \/ ToolResult(c) \/ ChatStep(c), ~stale'
    PROVE  ~stale /\ claw'.exists = claw.exists /\ claw'.session = claw.session
<1>1. CASE UNCHANGED clawDoc
    BY <1>1 DEF clawDoc
<1>2. CASE AppendedTo(c)
    <2>1. PICK found \in Document, kind \in {"user", "tool", "assistant"} :
              Save(found, Appended(found, <<c, kind>>))
        BY <1>2 DEF AppendedTo
    <2>2. Appended(found, <<c, kind>>) \in Document
        BY TranscriptsMade DEF Entry
    <2>3. ~stale /\ found = claw /\ claw' = Appended(found, <<c, kind>>)
        BY <2>1, <2>2, ClawMoves
    <2> QED
        BY <2>3, AppendedMade
<1> QED
    BY <1>1, <1>2, ClawFrames, ChatTypes DEF ChatStep

LEMMA AttachedByChat ==
    ASSUME ClawTyped, StrayInv, NEW c \in Chats,
           Validate(c) \/ Chunk(c) \/ ToolResult(c) \/ ChatStep(c),
           host'.box, ~stale', ~host'.left
    PROVE  (\E p \in Provs : Holds(p)') \/ Accounted'
<1> USE ClawParts
<1>1. UNCHANGED <<host, calls, provs>>
    BY ClawFrames DEF ChatStep
<1>2. ~stale /\ claw'.exists = claw.exists /\ claw'.session = claw.session
    BY ChatKeepsSession
<1>3. CASE \E p \in Provs : Holds(p)
    BY <1>1, <1>3 DEF Holds
<1>4. CASE Accounted
    <2>1. Accounted'
        BY <1>1, <1>2, <1>4 DEF Accounted, CallUnnames, ProvUnnames, WillName
    <2> QED
        BY <2>1
<1> QED
    BY <1>1, <1>2, <1>3, <1>4 DEF StrayInv, Attached

LEMMA AttachedStep == ClawTyped /\ StrayInv /\ [ClawNext]_clawVars => Attached'
<1> SUFFICES ASSUME ClawTyped, StrayInv, [ClawNext]_clawVars, host'.box, ~stale', ~host'.left
             PROVE  (\E p \in Provs : Holds(p)') \/ Accounted'
    BY DEF Attached
<1>1. ASSUME UNCHANGED <<claw, stale, host, calls, provs>>
      PROVE  (\E p \in Provs : Holds(p)') \/ Accounted'
    BY <1>1 DEF StrayInv, Attached, Holds, Accounted, CallUnnames, ProvUnnames, WillName
<1>2. CASE UNCHANGED clawVars
    BY <1>1, <1>2 DEF clawVars, clawDoc
<1>3. CASE Join \/ CatchUp \/ Leave
    BY <1>1, <1>3, ClawFrames DEF clawDoc
<1>4. CASE BoxDies
    BY <1>4, HostsMade DEF BoxDies, ClawTyped
<1> QED
    BY <1>2, <1>3, <1>4, AttachedByCall, AttachedByProv, AttachedByChat DEF ClawNext

\* When every call and provisioning is done, a container that runs is one the
\* session names.
THEOREM NoneStray == ClawSpec => []NoStrayContainer
<1>1. ClawTyped /\ StrayInv /\ [ClawNext]_clawVars => StrayInv'
    BY FoundThereStep, NamesStep, NotSpawnedStep, AttachedStep DEF StrayInv
<1>2. StrayInv => NoStrayContainer
    <2> SUFFICES ASSUME Attached, Quiet, host.box, ~host.left, ~stale
                 PROVE  claw.exists /\ claw.session.named
        BY DEF StrayInv, NoStrayContainer
    <2>1. \A p \in Provs : ~Holds(p) /\ ~WillName(p)
        BY DEF Quiet, Holds, WillName
    <2> QED
        BY <2>1 DEF Attached, Accounted
<1> QED
    BY <1>1, <1>2, StrayInit, AlwaysClawTyped, PTL DEF ClawSpec

\* The transcript of a session only grows: whatever calls, chats and provisionings do,
\* no step takes an entry out of it, but a save that overwrites what it has not seen.
THEOREM TranscriptKept ==
    ClawSpec =>
       [][claw'.exists /\ ~stale' => claw.messages \subseteq claw'.messages]_clawVars
<1>1. ClawTyped /\ [ClawNext]_clawVars =>
         (claw'.exists /\ ~stale' => claw.messages \subseteq claw'.messages)
    BY TranscriptGrows
<1> QED
    BY <1>1, AlwaysClawTyped, PTL DEF ClawSpec

-----------------------------------------------------------------------------
(* Every provisioning settles: the argument. The document says CREATING    *)
(* only with a provisioning under way for the model it names; each step of *)
(* that one leaves it fewer, none gives it more, and its last one writes   *)
(* RUNNING or ERROR, or finds that the session is gone.                    *)

UnderWay(p) == provs[p].pc \notin {"none", "closed"}

Attended == ~Settled => UnderWay(claw.session.model)

\* What the objects say that calls and provisionings will save.
ProvSays(p) ==
    /\ UnderWay(p) => provs[p].my.model = p
    /\ provs[p].pc \in {"run find", "run save"} => provs[p].my.status = "running"
CallSays(c) ==
    /\ calls[c].pc \in {"stop find", "stop save"} => calls[c].my.status = "stopped"
    /\ c \in Restarts /\ calls[c].pc \in {"find", "save"} => calls[c].my.model = c
Says == (\A p \in Provs : ProvSays(p)) /\ \A c \in Calls : CallSays(c)

SettleInv == StrayInv /\ Says /\ Attended

\* The steps that are left to a provisioning.
ToGo(p) == IF provs[p].pc = "create" THEN 9
           ELSE IF provs[p].pc = "named find" THEN 8
           ELSE IF provs[p].pc = "named save" THEN 7
           ELSE IF provs[p].pc = "wait" THEN 6
           ELSE IF provs[p].pc = "run find" THEN 5
           ELSE IF provs[p].pc = "run save" THEN 4
           ELSE IF provs[p].pc = "error" THEN 3
           ELSE IF provs[p].pc = "error find" THEN 2
           ELSE IF provs[p].pc = "error save" THEN 1
           ELSE 0

\* A provisioning keeps the model it was spawned for, says that it runs when its
\* container is ready, and closes with a save or without a session.
LEMMA ProvKeeps ==
    ASSUME ClawTyped, NEW p \in Provs, ProvStep(p)
    PROVE  /\ \/ provs'[p].my.model = provs[p].my.model
              \/ provs'[p].pc = "closed"
           /\ Wait(p) => provs'[p].pc = "error" \/ provs'[p].my.status = "running"
           /\ ProvFinds(p) /\ claw.exists => provs'[p].pc # "closed"
<1> DEFINE Keeps == /\ \/ provs'[p].my.model = provs[p].my.model
                       \/ provs'[p].pc = "closed"
                    /\ Wait(p) => provs'[p].pc = "error" \/ provs'[p].my.status = "running"
                    /\ ProvFinds(p) /\ claw.exists => provs'[p].pc # "closed"
<1>0. provs[p].my \in Session
    BY ClawParts
<1>1. \A status : [provs[p].my EXCEPT !.status = status].model = provs[p].my.model
    BY <1>0 DEF Session
<1>2. \A named : [provs[p].my EXCEPT !.named = named].model = provs[p].my.model
    BY <1>0 DEF Session
<1>3. [provs[p].my EXCEPT !.status = "running"].status = "running"
    BY <1>0 DEF Session
<1>4. ASSUME NEW pc, NEW my, ProvIs(p, At(pc, my))
      PROVE  provs'[p].pc = pc /\ provs'[p].my = my
    BY <1>4, ProvMoves, AtMade
<1>5. ASSUME ProvIs(p, Failed(provs[p].my))
      PROVE  provs'[p].pc = "error" /\ provs'[p].my.model = provs[p].my.model
    BY <1>1, <1>4, <1>5 DEF Failed
<1>6. CASE Create(p)
    <2>1. \/ ProvIs(p, At("named find", [provs[p].my EXCEPT !.named = TRUE]))
          \/ ProvIs(p, Failed(provs[p].my))
        BY <1>6 DEF Create
    <2>2. ~Wait(p) /\ ~ProvFinds(p)
        BY <1>6 DEF Create, Wait, ProvFinds
    <2> QED
        BY <1>2, <1>4, <1>5, <2>1, <2>2
<1>7. CASE Wait(p)
    <2>1. \/ ProvIs(p, At("run find", [provs[p].my EXCEPT !.status = "running"]))
          \/ ProvIs(p, Failed(provs[p].my))
        BY <1>7 DEF Wait
    <2>2. ~ProvFinds(p)
        BY <1>7 DEF Wait, ProvFinds
    <2> QED
        BY <1>1, <1>3, <1>4, <1>5, <2>1, <2>2
<1>8. CASE ProvFinds(p)
    <2>1. ~Wait(p)
        BY <1>8 DEF Wait, ProvFinds
    <2>2. CASE claw.exists
        <3>1. PICK pc : /\ ProvIs(p, [pc |-> pc, my |-> provs[p].my, found |-> claw])
                        /\ pc \in {"named save", "run save", "error save"}
            BY <1>8, <2>2 DEF ProvFinds
        <3>2. provs'[p] = [pc |-> pc, my |-> provs[p].my, found |-> claw]
            BY <3>1, ProvMoves
        <3>3. provs'[p].pc = pc /\ provs'[p].my = provs[p].my
            BY <3>2
        <3> QED
            BY <2>1, <3>1, <3>3
    <2>3. CASE ~claw.exists
        <3>1. ProvIs(p, Closed) \/ ProvIs(p, Failed(provs[p].my))
            BY <1>8, <2>3 DEF ProvFinds
        <3> QED
            BY <1>5, <2>1, <2>3, <3>1, ProvMoves, AtMade
    <2> QED
        BY <2>2, <2>3
<1>9. CASE ProvSaves(p)
    <2>1. ~Wait(p) /\ ~ProvFinds(p)
        BY <1>9 DEF Wait, ProvFinds, ProvSaves
    <2> QED
        BY <1>9, <2>1, ProvSavesDoes DEF ProvGoes
<1>10. CASE Error(p)
    <2>1. ProvIs(p, At("error find", [provs[p].my EXCEPT !.named = FALSE]))
        BY <1>10 DEF Error
    <2>2. ~Wait(p) /\ ~ProvFinds(p)
        BY <1>10 DEF Wait, ProvFinds, Error
    <2> QED
        BY <1>2, <1>4, <2>1, <2>2
<1> QED
    BY <1>6, <1>7, <1>8, <1>9, <1>10 DEF ProvStep

\* The step of a provisioning brings it closer to its end.
LEMMA ProvNears ==
    ASSUME ClawTyped, NEW p \in Provs, ProvStep(p)
    PROVE  ToGo(p)' < ToGo(p) /\ provs'[p].pc # "none" /\ UnderWay(p)
<1> DEFINE Nears == \/ ToGo(p) = 9 /\ ToGo(p)' = 8
                    \/ ToGo(p) = 9 /\ ToGo(p)' = 3
                    \/ ToGo(p) = 8 /\ ToGo(p)' = 7
                    \/ ToGo(p) = 8 /\ ToGo(p)' = 3
                    \/ ToGo(p) = 7 /\ ToGo(p)' = 6
                    \/ ToGo(p) = 6 /\ ToGo(p)' = 5
                    \/ ToGo(p) = 6 /\ ToGo(p)' = 3
                    \/ ToGo(p) = 5 /\ ToGo(p)' = 4
                    \/ ToGo(p) = 5 /\ ToGo(p)' = 3
                    \/ ToGo(p) = 4 /\ ToGo(p)' = 0
                    \/ ToGo(p) = 3 /\ ToGo(p)' = 2
                    \/ ToGo(p) = 2 /\ ToGo(p)' = 1
                    \/ ToGo(p) = 2 /\ ToGo(p)' = 0
                    \/ ToGo(p) = 1 /\ ToGo(p)' = 0
           Goes == Nears /\ provs'[p].pc # "none" /\ UnderWay(p)
<1>0. Nears => ToGo(p)' < ToGo(p)
    OBVIOUS
<1>1. ASSUME Create(p) PROVE Goes
    <2>1. provs[p].pc = "create"
        BY <1>1 DEF Create
    <2>2. provs'[p].pc \in {"named find", "error"}
        BY <1>1, CreateDoes DEF ProvGoes, ProvFails
    <2> QED
        BY <2>1, <2>2 DEF ToGo, UnderWay
<1>2. ASSUME Wait(p) PROVE Goes
    <2>1. provs[p].pc = "wait" /\ provs'[p].pc \in {"run find", "error"}
        BY <1>2, WaitDoes DEF ProvGoes, ProvFails
    <2> QED
        BY <2>1 DEF ToGo, UnderWay
<1>3. ASSUME ProvFinds(p) PROVE Goes
    <2>1. \/ provs[p].pc = "named find" /\ provs'[p].pc \in {"named save", "error"}
          \/ provs[p].pc = "run find" /\ provs'[p].pc \in {"run save", "error"}
          \/ provs[p].pc = "error find" /\ provs'[p].pc \in {"error save", "closed"}
        BY <1>3, ProvFindsDoes DEF ProvGoes, ProvFails
    <2> QED
        BY <2>1 DEF ToGo, UnderWay
<1>4. ASSUME ProvSaves(p) PROVE Goes
    <2>1. \/ provs[p].pc = "named save" /\ provs'[p].pc = "wait"
          \/ provs[p].pc \in {"run save", "error save"} /\ provs'[p].pc = "closed"
        BY <1>4, ProvSavesDoes DEF ProvGoes
    <2> QED
        BY <2>1 DEF ToGo, UnderWay
<1>5. ASSUME Error(p) PROVE Goes
    <2>1. provs[p].pc = "error" /\ provs'[p].pc = "error find"
        BY <1>5, ErrorDoes DEF ProvGoes
    <2> QED
        BY <2>1 DEF ToGo, UnderWay
<1> QED
    BY <1>0, <1>1, <1>2, <1>3, <1>4, <1>5 DEF ProvStep

LEMMA ProvSaysStep ==
    ASSUME ClawTyped, Names, NEW p \in Provs, ProvSays(p), ProvStep(p)
    PROVE  ProvSays(p)'
<1>1. UnderWay(p)' => provs'[p].my.model = p
    BY ProvKeeps, ProvNears DEF ProvSays, UnderWay
<1>2. ASSUME provs'[p].pc \in {"run find", "run save"}
      PROVE  provs'[p].my.status = "running"
    <2>1. ~Create(p) /\ ~ProvSaves(p) /\ ~Error(p)
        BY <1>2, CreateDoes, ProvSavesDoes, ErrorDoes DEF ProvGoes, ProvFails
    <2>2. CASE Wait(p)
        BY <1>2, <2>2, ProvKeeps
    <2>3. CASE ProvFinds(p)
        BY <1>2, <2>3, ProvFindsDoes DEF ProvGoes, ProvFails, ProvSays
    <2> QED
        BY <2>1, <2>2, <2>3 DEF ProvStep
<1> QED
    BY <1>1, <1>2 DEF ProvSays

\* What the first save of a restart will say.
LEMMA RestartSays ==
    ASSUME ClawTyped, NEW c \in Restarts, Act(c)
    PROVE  calls'[c].my.model = c
<1> DEFINE my == [model |-> c, status |-> "creating", named |-> FALSE]
<1>1. c \in Calls
    BY DEF Calls
<1>2. my.model = c
    OBVIOUS
<1>3. CallIs(c, At("find", my))
    BY ClawConstants DEF Act
<1> HIDE DEF my
<1> QED
    BY <1>1, <1>2, <1>3, CallMoves, AtMade

LEMMA CallSaysStep ==
    ASSUME ClawTyped, NEW c \in Calls, CallSays(c), Read(c) \/ CallStep(c)
    PROVE  CallSays(c)'
<1>1. CASE Read(c)
    BY <1>1, ReadDoes DEF CallRests, CallGoes, CallSays
<1>2. CASE Health(c)
    BY <1>2, HealthDoes DEF CallRests, CallGoes, CallSays
<1>3. CASE Act(c)
    <2>1. calls'[c].pc = "find"
        BY <1>3, ActDoes DEF CallGoes
    <2> QED
        BY <1>3, <2>1, RestartSays DEF CallSays
<1>4. CASE CallFinds(c)
    BY <1>4, CallFindsDoes DEF CallRests, CallGoes, CallSays
<1>5. CASE Stopped(c)
    BY <1>5, StoppedDoes DEF CallRests, CallGoes, CallSays
<1>6. CASE Restarted(c) \/ Deleted(c)
    BY <1>6, EndsDoes DEF CallRests, CallGoes, CallSays
<1> QED
    BY <1>1, <1>2, <1>3, <1>4, <1>5, <1>6 DEF CallStep

\* A restart spawns the provisioning of its own model.
LEMMA RestartSpawns ==
    ASSUME ClawTyped, NEW c \in Calls, CallSays(c), Restarted(c)
    PROVE  /\ c \in Provs /\ ProvSays(c)' /\ UnderWay(c)'
           /\ \A q \in Provs : q # c => provs'[q] = provs[q]
<1>1. c \in Provs /\ ProvIs(c, At("create", calls[c].my)) /\ calls[c].my.model = c
    BY DEF Restarted, ProvIs, Provs, CallSays
<1>2. /\ provs'[c].pc = "create" /\ provs'[c].my = calls[c].my
      /\ \A q \in Provs : q # c => provs'[q] = provs[q]
    BY <1>1, ProvMoves, AtMade
<1> QED
    BY <1>1, <1>2 DEF ProvSays, UnderWay

LEMMA SaysStep == ClawTyped /\ Names /\ Says /\ [ClawNext]_clawVars => Says'
<1> SUFFICES ASSUME ClawTyped, Names, Says, [ClawNext]_clawVars PROVE Says'
    OBVIOUS
<1>1. ASSUME UNCHANGED <<calls, provs>>
      PROVE  Says'
    BY <1>1 DEF Says, ProvSays, CallSays, UnderWay
<1>2. ASSUME NEW c \in Calls, Read(c) \/ CallStep(c)
      PROVE  Says'
    <2>1. \A d \in Calls : CallSays(d)'
        BY <1>2, CallSaysStep, CallMoves, ZenonT(60) DEF Says, CallSays
    <2>2. CASE Restarted(c)
        BY <2>1, <2>2, RestartSpawns, ZenonT(60) DEF Says, ProvSays, UnderWay
    <2>3. CASE ~Restarted(c)
        <3>1. UNCHANGED provs
            BY <1>2, <2>3, ClawFrames DEF CallStep
        <3> QED
            BY <2>1, <3>1 DEF Says, ProvSays, UnderWay
    <2> QED
        BY <2>2, <2>3
<1>3. ASSUME NEW p \in Provs, ProvStep(p)
      PROVE  Says'
    <2>1. UNCHANGED calls
        BY <1>3, ClawFrames DEF ProvStep
    <2>2. \A q \in Provs : ProvSays(q)'
        BY <1>3, ProvSaysStep, ProvMoves DEF Says, ProvSays, UnderWay
    <2> QED
        BY <2>1, <2>2 DEF Says, CallSays
<1>4. ASSUME NEW c \in Chats, Validate(c) \/ Chunk(c) \/ ToolResult(c) \/ ChatStep(c)
      PROVE  UNCHANGED <<calls, provs>>
    BY <1>4, ClawFrames DEF ChatStep
<1>5. CASE UNCHANGED clawVars
    BY <1>1, <1>5 DEF clawVars
<1> QED
    BY <1>1, <1>2, <1>3, <1>4, <1>5, ClawFrames DEF ClawNext

\* What an update saves is the session it was given.
LEMMA SessionSaved ==
    ASSUME ClawTyped, ~stale',
           NEW found \in Document, NEW my \in Session, Save(found, Merged(found, my))
    PROVE  claw'.session = my
BY ClawMoves, MergedMade

\* The document never says CREATING with nobody to change that.
LEMMA AttendedStep == ClawTyped /\ SettleInv /\ [ClawNext]_clawVars => Attended'
<1> SUFFICES ASSUME ClawTyped, SettleInv, [ClawNext]_clawVars,
                    claw'.exists, claw'.session.status = "creating", ~stale'
             PROVE  provs'[claw'.session.model].pc \notin {"none", "closed"}
    BY DEF Attended, Settled, UnderWay
<1> DEFINE m == claw.session.model
           Goal == provs'[claw'.session.model].pc \notin {"none", "closed"}
<1>0. claw.exists /\ ~stale /\ m \in Provs
    BY TranscriptGrows, ClawParts DEF Session
<1>1. ASSUME claw'.session = claw.session
      PROVE  UnderWay(m)
    BY <1>0, <1>1 DEF SettleInv, Attended, Settled
<1>2. ASSUME claw'.session = claw.session, UNCHANGED provs
      PROVE  Goal
    BY <1>1, <1>2 DEF UnderWay
<1>3. ASSUME NEW c \in Calls, Read(c) \/ CallStep(c)
      PROVE  Goal
    <2>1. CASE Read(c) \/ Health(c) \/ Act(c) \/ CallFinds(c)
        BY <1>2, <2>1, ClawFrames DEF clawDoc
    <2>2. CASE Stopped(c)
        <3>1. calls[c].my.status = "stopped"
            BY <2>2, StoppedDoes DEF SettleInv, Says, CallSays
        <3>2. claw'.session = calls[c].my
            BY <2>2, StoppedDoes, SessionSaved, ClawParts
        <3> QED
            BY <3>1, <3>2
    <2>3. CASE Restarted(c)
        <3>1. Save(calls[c].found, Merged(calls[c].found, calls[c].my)) /\ c \in Restarts
              /\ calls[c].pc = "save"
            BY <2>3 DEF Restarted
        <3>2. claw'.session = calls[c].my
            BY <3>1, SessionSaved, ClawParts
        <3>3. calls[c].my.model = c
            BY <3>1 DEF SettleInv, Says, CallSays
        <3> QED
            BY <2>3, <3>2, <3>3, RestartSpawns DEF SettleInv, Says, UnderWay
    <2>4. CASE Deleted(c)
        BY <2>4 DEF Deleted, ClawTyped, Document
    <2> QED
        BY <1>3, <2>1, <2>2, <2>3, <2>4 DEF CallStep
<1>4. ASSUME NEW p \in Provs, ProvStep(p)
      PROVE  Goal
    <2>0. UnderWay(p) /\ provs[p].my.model = p /\ provs'[p].pc # "none"
        BY <1>4, ProvNears DEF SettleInv, Says, ProvSays
    <2>1. ASSUME claw'.session = claw.session, provs'[p].pc # "closed"
          PROVE  Goal
        <3>1. CASE m = p
            BY <2>0, <2>1, <3>1
        <3>2. CASE m # p
            BY <1>0, <1>1, <1>4, <2>1, <3>2, ProvMoves DEF UnderWay
        <3> QED
            BY <3>1, <3>2
    <2>2. CASE Create(p) \/ Wait(p) \/ Error(p)
        <3>1. claw' = claw
            BY <2>2, ClawFrames DEF clawDoc
        <3>2. provs'[p].pc # "closed"
            BY <2>2, CreateDoes, WaitDoes, ErrorDoes DEF ProvGoes, ProvFails
        <3> QED
            BY <2>1, <3>1, <3>2
    <2>3. CASE ProvFinds(p)
        <3>1. claw' = claw
            BY <2>3, ClawFrames DEF clawDoc
        <3>2. provs'[p].pc # "closed"
            BY <1>0, <1>4, <2>3, ProvKeeps
        <3> QED
            BY <2>1, <3>1, <3>2
    <2>4. CASE ProvSaves(p)
        <3>1. claw'.session = provs[p].my
            BY <2>4, ProvSavesDoes, SessionSaved, ClawParts
        <3>2. CASE provs[p].pc = "named save"
            BY <2>0, <2>4, <3>1, <3>2, ProvSavesDoes DEF ProvGoes
        <3>3. CASE provs[p].pc = "run save"
            BY <3>1, <3>3 DEF SettleInv, Says, ProvSays
        <3>4. CASE provs[p].pc = "error save"
            BY <3>1, <3>4 DEF SettleInv, StrayInv, Names
        <3> QED
            BY <2>4, <3>2, <3>3, <3>4, ProvSavesDoes
    <2> QED
        BY <1>4, <2>2, <2>3, <2>4 DEF ProvStep
<1>5. ASSUME NEW c \in Chats, Validate(c) \/ Chunk(c) \/ ToolResult(c) \/ ChatStep(c)
      PROVE  Goal
    <2>1. UNCHANGED provs
        BY <1>5, ClawFrames DEF ChatStep
    <2>2. claw'.session = claw.session
        BY <1>5, ChatKeepsSession
    <2> QED
        BY <1>2, <2>1, <2>2
<1>6. CASE UNCHANGED clawVars \/ BoxDies \/ Join \/ CatchUp \/ Leave
    <2>1. UNCHANGED <<clawDoc, provs>>
        BY <1>6, ClawFrames DEF clawVars
    <2> QED
        BY <1>2, <2>1 DEF clawDoc
<1> QED
    BY <1>3, <1>4, <1>5, <1>6 DEF ClawNext

LEMMA SettleInit == ClawInit => SettleInv
<1> SUFFICES ASSUME ClawInit PROVE Says /\ Attended
    BY StrayInit DEF SettleInv
<1>1. \A c \in Calls : calls[c] = At("idle", NewSession)
    BY DEF ClawInit
<1>2. \A p \in Provs : \/ p = Created /\ provs[p] = At("create", NewSession)
                       \/ p # Created /\ provs[p] = At("none", NewSession)
    BY DEF ClawInit
<1>3. NewSession.model = Created /\ claw.session = NewSession /\ Created \in Provs
    BY DEF ClawInit, NewSession, NewDocument, Provs
<1>4. Says
    <2>1. ASSUME NEW c \in Calls
          PROVE  CallSays(c)
        <3>1. calls[c].pc = "idle"
            BY <1>1, AtMade
        <3> QED
            BY <3>1 DEF CallSays
    <2>2. ASSUME NEW p \in Provs
          PROVE  ProvSays(p)
        <3>1. \/ provs[p].pc = "create" /\ provs[p].my.model = p
              \/ provs[p].pc = "none"
            BY <1>2, <1>3, AtMade
        <3> QED
            BY <3>1 DEF ProvSays, UnderWay
    <2> QED
        BY <2>1, <2>2 DEF Says
<1> QED
    BY <1>2, <1>3, <1>4, AtMade DEF Attended, UnderWay

LEMMA AlwaysSettleInv == ClawSpec => [](ClawTyped /\ SettleInv)
<1>1. ClawTyped /\ SettleInv /\ [ClawNext]_clawVars => SettleInv'
    BY FoundThereStep, NamesStep, NotSpawnedStep, AttachedStep, SaysStep, AttendedStep
       DEF SettleInv, StrayInv
<1> QED
    BY <1>1, SettleInit, AlwaysClawTyped, PTL DEF ClawSpec

\* What a step does to a provisioning that is under way.
LEMMA ProvFalls ==
    ASSUME NEW p \in Provs
    PROVE  ClawTyped /\ SettleInv /\ UnderWay(p) /\ [ClawNext]_clawVars =>
              /\ provs'[p].pc # "none"
              /\ provs'[p] = provs[p] \/ ToGo(p)' < ToGo(p)
              /\ ProvStep(p) => ToGo(p)' < ToGo(p)
<1> SUFFICES ASSUME ClawTyped, SettleInv, UnderWay(p), [ClawNext]_clawVars
             PROVE  /\ provs'[p].pc # "none"
                    /\ provs'[p] = provs[p] \/ ToGo(p)' < ToGo(p)
                    /\ ProvStep(p) => ToGo(p)' < ToGo(p)
    OBVIOUS
<1>1. ASSUME ProvStep(p)
      PROVE  ToGo(p)' < ToGo(p) /\ provs'[p].pc # "none"
    BY <1>1, ProvNears
<1>2. ASSUME ~ProvStep(p)
      PROVE  provs'[p] = provs[p]
    <2>1. ASSUME UNCHANGED provs
          PROVE  provs'[p] = provs[p]
        BY <2>1
    <2>2. ASSUME NEW q \in Provs, ProvStep(q)
          PROVE  provs'[p] = provs[p]
        BY <1>2, <2>2, ProvMoves
    <2>3. ASSUME NEW c \in Calls, Read(c) \/ CallStep(c)
          PROVE  provs'[p] = provs[p]
        <3>1. CASE Restarted(c)
            <4>1. c \in Restarts /\ calls[c].pc = "save"
                BY <3>1 DEF Restarted
            <4>2. provs[c].pc = "none"
                BY <4>1 DEF SettleInv, StrayInv, NotSpawned
            <4>3. c # p
                BY <4>2 DEF UnderWay
            <4> QED
                BY <2>3, <3>1, <4>3, RestartSpawns DEF SettleInv, Says
        <3>2. CASE ~Restarted(c)
            BY <2>1, <2>3, <3>2, ClawFrames DEF CallStep
        <3> QED
            BY <3>1, <3>2
    <2>4. ASSUME NEW c \in Chats, Validate(c) \/ Chunk(c) \/ ToolResult(c) \/ ChatStep(c)
          PROVE  UNCHANGED provs
        BY <2>4, ClawFrames DEF ChatStep
    <2>5. CASE UNCHANGED clawVars \/ BoxDies \/ Join \/ CatchUp \/ Leave
        BY <2>1, <2>5, ClawFrames DEF clawVars
    <2> QED
        BY <2>1, <2>2, <2>3, <2>4, <2>5 DEF ClawNext
<1> QED
    BY <1>1, <1>2 DEF UnderWay

\* What FairClawSpec says of a provisioning, with the states in which it can step
\* written out instead of ENABLED.
GoesOnFairly(p) == []<>~UnderWay(p) \/ []<><<ProvStep(p)>>_clawVars

Within(p, n) == UnderWay(p) /\ ToGo(p) <= n

LEMMA ToGoMade ==
    ASSUME NEW p \in Provs
    PROVE  ToGo(p) \in 0 .. 9 /\ (ClawTyped /\ UnderWay(p) => ToGo(p) > 0)
<1>1. ToGo(p) \in {0, 1, 2, 3, 4, 5, 6, 7, 8, 9}
    BY Zenon DEF ToGo
<1>2. ASSUME ClawTyped, UnderWay(p)
      PROVE  ToGo(p) \in {1, 2, 3, 4, 5, 6, 7, 8, 9}
    <2>1. provs[p].pc \in ProvPC \ {"none", "closed"}
        BY <1>2, ClawParts DEF UnderWay
    <2> QED
        BY <2>1 DEF ToGo, ProvPC
<1> QED
    BY <1>1, <1>2

\* One step fewer: kept by every step, and reached by the provisioning's own, if
\* that is not its last.
LEMMA OneFewer ==
    ASSUME NEW p \in Provs, NEW n \in 0 .. 9, NEW m \in 0 .. 9, m = n - 1
    PROVE  ClawTyped /\ SettleInv /\ Within(p, n) /\ [ClawNext]_clawVars =>
              /\ Within(p, n)' \/ ~UnderWay(p)'
              /\ ProvStep(p) => Within(p, m)' \/ ~UnderWay(p)'
<1> SUFFICES ASSUME ClawTyped, SettleInv, Within(p, n), [ClawNext]_clawVars
             PROVE  /\ Within(p, n)' \/ ~UnderWay(p)'
                    /\ ProvStep(p) => Within(p, m)' \/ ~UnderWay(p)'
    OBVIOUS
<1>0. ToGo(p) \in 0 .. 9
    BY ToGoMade
<1>1. (ToGo(p) \in 0 .. 9)'
    BY ToGoMade, PTL
<1>2. ToGo(p) <= n /\ UnderWay(p)
    BY DEF Within
<1>3. /\ provs'[p] = provs[p] \/ ToGo(p)' < ToGo(p)
      /\ ProvStep(p) => ToGo(p)' < ToGo(p)
    BY <1>2, ProvFalls
<1>4. provs'[p] = provs[p] => ToGo(p)' = ToGo(p)
    BY Zenon DEF ToGo
<1>5. ToGo(p)' <= n /\ (ProvStep(p) => ToGo(p)' <= m)
    BY <1>0, <1>1, <1>2, <1>3, <1>4
<1> QED
    BY <1>5 DEF Within

\* A provisioning ends, and the session it is for does not stay in CREATING, unless
\* one on another model takes its place: whatever calls, chats and the other
\* provisionings do in between (provision_session). Of one session at most one
\* provisioning starts for each call of create_session and restart_session.
THEOREM ProvisioningEnds ==
    ASSUME NEW p \in Provs
    PROVE  ClawSpec /\ GoesOnFairly(p) =>
              /\ UnderWay(p) ~> ~UnderWay(p)
              /\ (~Settled /\ claw.session.model = p) ~> (Settled \/ claw.session.model # p)
<1> DEFINE Inv == ClawTyped /\ SettleInv
           Next == [ClawNext]_clawVars
           Done == ~UnderWay(p)
<1>1. Inv /\ Next =>
         /\ Within(p, 9) => Within(p, 9)' \/ Done'
         /\ Within(p, 8) => Within(p, 8)' \/ Done'
         /\ Within(p, 7) => Within(p, 7)' \/ Done'
         /\ Within(p, 6) => Within(p, 6)' \/ Done'
         /\ Within(p, 5) => Within(p, 5)' \/ Done'
         /\ Within(p, 4) => Within(p, 4)' \/ Done'
         /\ Within(p, 3) => Within(p, 3)' \/ Done'
         /\ Within(p, 2) => Within(p, 2)' \/ Done'
         /\ Within(p, 1) => Within(p, 1)' \/ Done'
    BY OneFewer
<1>2. Inv /\ Next /\ ProvStep(p) =>
         /\ Within(p, 9) => Within(p, 8)' \/ Done'
         /\ Within(p, 8) => Within(p, 7)' \/ Done'
         /\ Within(p, 7) => Within(p, 6)' \/ Done'
         /\ Within(p, 6) => Within(p, 5)' \/ Done'
         /\ Within(p, 5) => Within(p, 4)' \/ Done'
         /\ Within(p, 4) => Within(p, 3)' \/ Done'
         /\ Within(p, 3) => Within(p, 2)' \/ Done'
         /\ Within(p, 2) => Within(p, 1)' \/ Done'
         /\ Within(p, 1) => Within(p, 0)' \/ Done'
    BY OneFewer
<1>3. /\ Within(p, 9) => UnderWay(p)
      /\ Within(p, 8) => UnderWay(p)
      /\ Within(p, 7) => UnderWay(p)
      /\ Within(p, 6) => UnderWay(p)
      /\ Within(p, 5) => UnderWay(p)
      /\ Within(p, 4) => UnderWay(p)
      /\ Within(p, 3) => UnderWay(p)
      /\ Within(p, 2) => UnderWay(p)
      /\ Within(p, 1) => UnderWay(p)
    BY DEF Within
<1>4. Inv => ~Within(p, 0)
    BY ToGoMade DEF Within
<1>5. /\ UnderWay(p) => Within(p, 9)
      /\ Inv /\ ~Settled /\ claw.session.model = p => UnderWay(p)
    BY ToGoMade DEF Within, SettleInv, Attended
<1>6. Inv /\ Done => Settled \/ claw.session.model # p
    BY DEF SettleInv, Attended
<1> QED
    BY <1>1, <1>2, <1>3, <1>4, <1>5, <1>6, AlwaysSettleInv, PTL DEF ClawSpec, GoesOnFairly

\* Weak fairness says the same, once it is known that the states written out are
\* those in which a provisioning can step.
Readiness == \A p \in Provs : UnderWay(p) <=> ENABLED <<ProvStep(p)>>_clawVars

LEMMA FairProvisionings ==
    FairClawSpec => ClawSpec /\ \A p \in Provs : ProvFairness(p)
BY PTL DEF FairClawSpec

\* The same of FairClawSpec.
COROLLARY ProvisioningEndsFairly ==
    ASSUME NEW p \in Provs
    PROVE  FairClawSpec /\ []Readiness =>
              /\ UnderWay(p) ~> ~UnderWay(p)
              /\ (~Settled /\ claw.session.model = p) ~> (Settled \/ claw.session.model # p)
<1>1. ProvFairness(p) /\ []Readiness => GoesOnFairly(p)
    <2>1. Readiness => (UnderWay(p) <=> ENABLED <<ProvStep(p)>>_clawVars)
        BY DEF Readiness
    <2> QED
        BY <2>1, PTL DEF ProvFairness, GoesOnFairly
<1>2. FairClawSpec => ClawSpec /\ ProvFairness(p)
    BY FairProvisionings
<1> QED
    BY <1>1, <1>2, ProvisioningEnds, PTL
=============================================================================
