----------------------------- MODULE GossipPeer -----------------------------
(* The sending side of Gossip towards one remote peer: the outbound stream   *)
(* (stream_out_, is_connecting_), the batch of RPCs that waits for it, and   *)
(* the writer coroutine of checkWrite.  Connections to the peer come and go  *)
(* underneath, the first of them maybe before Gossip::start.  A Peer object  *)
(* lives from the first connection it is told of, or the first inbound       *)
(* stream, to PeerDisconnected; coroutines that still hold a dropped object  *)
(* only touch that object, so they are left out.                             *)
EXTENDS Integers, Sequences

CONSTANTS
    Conns,        \* connections to the peer, in any order and number at a time
    NoConn,
    MaxMessages,  \* bound on the messages published
    Flaky         \* streams can fail on a connection that lives

VARIABLES
    started,        \* Gossip::start was called
    conn,           \* none, open, dead (not reported yet) or closed
    early,          \* connections made before start
    present,        \* the peer has an entry in Gossip::peers_
    peer_topics,    \* the peer announced the topic
    topic,          \* absent, publish_only or subscribed
    stream_out_,    \* the connection the outbound stream runs on, or NoConn
    is_connecting_, \* the connection newStream is under way on, or NoConn
    batch_,         \* the optional Rpc, as a sequence of at most one
    writer,         \* the writer coroutine: idle, yield or write
    unsent,         \* the RPCs of splitBatch that are still to be written
    published,      \* number of messages published so far
    written,        \* messages written to the peer
    told            \* a SUBSCRIBE was queued for this Peer object

connVars == <<started, conn, early, present>>
topicVars == <<peer_topics, topic, published>>
vars == <<started, conn, early, present, peer_topics, topic, stream_out_, is_connecting_, batch_,
          writer, unsent, published, written, told>>

-----------------------------------------------------------------------------
Rpcs == [subscribe : BOOLEAN, publish : Seq(1..MaxMessages)]

emptyRpc == [subscribe |-> FALSE, publish |-> <<>>]

(* The control message, represented by 0, goes before the published ones.    *)
splitBatch(rpc) == (IF rpc.subscribe THEN <<0>> ELSE <<>>) \o rpc.publish

writing_ == writer # "idle"

Init ==
    /\ started = FALSE /\ early = {}
    /\ conn = [c \in Conns |-> "none"]
    /\ present = FALSE
    /\ peer_topics = FALSE
    /\ topic = "absent"
    /\ stream_out_ = NoConn
    /\ is_connecting_ = NoConn
    /\ batch_ = <<>>
    /\ writer = "idle"
    /\ unsent = <<>>
    /\ published = 0
    /\ written = <<>>
    /\ told = FALSE

(* checkWrite for a batch there is, with the outbound stream as it will be   *)
checkWrite(stream) ==
    writer' = IF ~writing_ /\ stream # NoConn THEN "yield" ELSE writer

(* getBatch: the Rpc to add to, and the writer it starts                     *)
getBatch == IF batch_ = <<>> THEN emptyRpc ELSE batch_[1]

Queue(stream, rpc) == batch_' = <<rpc>> /\ checkWrite(stream)

WithSubscribe(rpc) == [rpc EXCEPT !.subscribe = TRUE]

-----------------------------------------------------------------------------
(* Connections.                                                              *)

Faulty_OpenAnyway(c) ==
    /\ started /\ conn[c] = "none"
    /\ conn' = [conn EXCEPT ![c] = "open"]
    /\ present' = TRUE
    /\ is_connecting_' = IF is_connecting_ = NoConn THEN c ELSE is_connecting_
    /\ UNCHANGED <<started, early, topicVars, stream_out_, batch_, writer, unsent, written, told>>

(* on_peer_connected: open an outbound stream unless there is one.           *)
on_peer_connected(c) ==
    /\ started /\ conn[c] = "none"
    /\ conn' = [conn EXCEPT ![c] = "open"]
    /\ present' = TRUE
    /\ is_connecting_' = IF stream_out_ = NoConn /\ is_connecting_ = NoConn
                         THEN c ELSE is_connecting_
    /\ UNCHANGED <<started, early, topicVars, stream_out_, batch_, writer, unsent, written, told>>

outVars == <<topicVars, stream_out_, is_connecting_, batch_, writer, unsent, written, told>>

(* A connection is made before anyone listens to its event.                  *)
ConnectedEarly(c) ==
    /\ ~started /\ conn[c] = "none"
    /\ conn' = [conn EXCEPT ![c] = "open"]
    /\ early' = early \cup {c}
    /\ UNCHANGED <<started, present, outVars>>

(* start: the protocol is served and the events are listened to.             *)
start == ~started /\ started' = TRUE /\ UNCHANGED <<conn, early, present, outVars>>

(* handle: an inbound stream brings the Peer object if there is none, and no *)
(* outbound stream.  A connection that Host::disconnect closes delivers no   *)
(* stream any more.                                                          *)
handle(c) ==
    /\ started /\ conn[c] = "open"
    /\ present' = TRUE
    /\ UNCHANGED <<started, conn, early, outVars>>

(* The transport loses a connection; its streams fail from now on.           *)
ConnectionDies(c) ==
    /\ conn[c] = "open"
    /\ conn' = [conn EXCEPT ![c] = "dead"]
    /\ UNCHANGED <<started, early, present, topicVars, stream_out_, is_connecting_, batch_,
                   writer, unsent, written, told>>

(* ConnectionManager reports the end of a connection that is not the last.   *)
ConnectionClosed(c) ==
    /\ conn[c] = "dead"
    /\ \E d \in Conns \ {c} : conn[d] \in {"open", "dead"}
    /\ conn' = [conn EXCEPT ![c] = "closed"]
    /\ UNCHANGED <<started, early, present, topicVars, stream_out_, is_connecting_, batch_,
                   writer, unsent, written, told>>

(* on_peer_disconnected, with the end of the last connection                 *)
on_peer_disconnected(c) ==
    /\ conn[c] = "dead"
    /\ \A d \in Conns \ {c} : conn[d] \notin {"open", "dead"}
    /\ conn' = [conn EXCEPT ![c] = "closed"]
    /\ present' = FALSE
    /\ peer_topics' = FALSE
    /\ stream_out_' = NoConn
    /\ is_connecting_' = NoConn
    /\ batch_' = <<>>
    /\ writer' = "idle"
    /\ unsent' = <<>>
    /\ told' = FALSE
    /\ UNCHANGED <<started, early, topic, published, written>>

-----------------------------------------------------------------------------
(* The outbound stream.                                                      *)

(* newStream succeeded: subscribed topics are announced on the new stream,   *)
(* and if there is any topic the batch is looked at.                         *)
StreamOpened ==
    /\ is_connecting_ # NoConn
    /\ conn[is_connecting_] = "open"
    /\ is_connecting_' = NoConn
    /\ stream_out_' = is_connecting_
    /\ IF topic = "absent"
       THEN UNCHANGED <<batch_, writer>>
       ELSE Queue(stream_out_', IF topic = "subscribed" THEN WithSubscribe(getBatch) ELSE getBatch)
    /\ told' = (told \/ topic = "subscribed")
    /\ UNCHANGED <<connVars, topicVars, unsent, written>>

(* newStream failed.                                                         *)
StreamFailed ==
    /\ is_connecting_ # NoConn
    /\ Flaky \/ conn[is_connecting_] # "open"
    /\ is_connecting_' = NoConn
    /\ UNCHANGED <<connVars, topicVars, stream_out_, batch_, writer, unsent, written, told>>

-----------------------------------------------------------------------------
(* The writer coroutine.                                                     *)

(* Go around the loop of checkWrite: take the batch, or end.                 *)
TakeBatch ==
    /\ batch_' = <<>>
    /\ unsent' = IF batch_ = <<>> THEN <<>> ELSE splitBatch(batch_[1])
    /\ writer' = IF unsent' = <<>> THEN "idle" ELSE "write"

(* The writer resumes after coroYield.                                       *)
WriterResumes ==
    /\ writer = "yield"
    /\ TakeBatch
    /\ UNCHANGED <<connVars, topicVars, stream_out_, is_connecting_, written, told>>

Faulty_EndAfterBatch ==
    /\ writer = "write"
    /\ conn[stream_out_] = "open"
    /\ written' = IF Head(unsent) = 0 THEN written ELSE Append(written, Head(unsent))
    /\ unsent' = Tail(unsent)
    /\ writer' = IF Len(unsent) = 1 THEN "idle" ELSE "write"
    /\ UNCHANGED <<connVars, topicVars, stream_out_, is_connecting_, batch_, told>>

(* writeVarintMessage succeeded.                                             *)
WriteDone ==
    /\ writer = "write"
    /\ conn[stream_out_] = "open"
    /\ written' = IF Head(unsent) = 0 THEN written ELSE Append(written, Head(unsent))
    /\ IF Len(unsent) = 1
       THEN TakeBatch
       ELSE unsent' = Tail(unsent) /\ UNCHANGED <<batch_, writer>>
    /\ UNCHANGED <<connVars, topicVars, stream_out_, is_connecting_, told>>

(* writeVarintMessage failed: the stream and the rest of the batch are lost. *)
WriteFailed ==
    /\ writer = "write"
    /\ Flaky \/ conn[stream_out_] # "open"
    /\ stream_out_' = NoConn
    /\ unsent' = <<>>
    /\ writer' = "idle"
    /\ UNCHANGED <<connVars, topicVars, is_connecting_, batch_, written, told>>

-----------------------------------------------------------------------------
(* Topics.                                                                   *)

(* The peer announces the topic on its inbound stream.                       *)
PeerSubscribes ==
    /\ present /\ \E c \in Conns : conn[c] = "open"
    /\ ~peer_topics
    /\ peer_topics' = TRUE
    /\ UNCHANGED <<connVars, topic, stream_out_, is_connecting_, batch_, writer, unsent,
                   published, written, told>>

(* publish, flooding to the peers of the topic                               *)
publish ==
    /\ published < MaxMessages
    /\ published' = published + 1
    /\ topic' = IF topic = "absent" THEN "publish_only" ELSE topic
    /\ IF present /\ peer_topics
       THEN Queue(stream_out_, [getBatch EXCEPT !.publish = Append(@, published')])
       ELSE UNCHANGED <<batch_, writer>>
    /\ UNCHANGED <<connVars, peer_topics, stream_out_, is_connecting_, unsent, written, told>>

(* subscribe of a new topic                                                  *)
subscribeNew ==
    /\ topic = "absent"
    /\ topic' = "subscribed"
    /\ UNCHANGED <<connVars, peer_topics, stream_out_, is_connecting_, batch_, writer,
                   unsent, published, written, told>>

(* subscribe of a publish only topic                                         *)
subscribeUpgrade ==
    /\ topic = "publish_only"
    /\ topic' = "subscribed"
    /\ IF present /\ peer_topics
       THEN Queue(stream_out_, WithSubscribe(getBatch)) /\ told' = TRUE
       ELSE UNCHANGED <<batch_, writer, told>>
    /\ UNCHANGED <<connVars, peer_topics, stream_out_, is_connecting_, unsent, published,
                   written>>

(* heartbeat drops a publish only topic.                                     *)
heartbeatDrop ==
    /\ topic = "publish_only"
    /\ topic' = "absent"
    /\ UNCHANGED <<connVars, peer_topics, stream_out_, is_connecting_, batch_, writer,
                   unsent, published, written, told>>

Next ==
    \/ \E c \in Conns :
        \/ ConnectedEarly(c) \/ on_peer_connected(c) \/ handle(c) \/ ConnectionDies(c)
        \/ ConnectionClosed(c) \/ on_peer_disconnected(c)
    \/ start \/ StreamOpened \/ StreamFailed
    \/ WriterResumes \/ WriteDone \/ WriteFailed
    \/ PeerSubscribes \/ publish \/ subscribeNew \/ subscribeUpgrade \/ heartbeatDrop

(* A live connection lets negotiations and writes make progress, and the end *)
(* of a connection is reported.                                              *)
Fairness ==
    /\ WF_vars(StreamOpened \/ StreamFailed)
    /\ WF_vars(WriterResumes)
    /\ WF_vars(WriteDone \/ WriteFailed)
    /\ \A c \in Conns : WF_vars(ConnectionClosed(c) \/ on_peer_disconnected(c))

Spec == Init /\ [][Next]_vars /\ Fairness

-----------------------------------------------------------------------------
(* The members have the types the class declares.                            *)
TypeOK ==
    /\ started \in BOOLEAN /\ early \subseteq Conns
    /\ conn \in [Conns -> {"none", "open", "dead", "closed"}]
    /\ present \in BOOLEAN
    /\ peer_topics \in BOOLEAN
    /\ topic \in {"absent", "publish_only", "subscribed"}
    /\ stream_out_ \in Conns \cup {NoConn}
    /\ is_connecting_ \in Conns \cup {NoConn}
    /\ batch_ \in Seq(Rpcs) /\ Len(batch_) <= 1
    /\ writer \in {"idle", "yield", "write"}
    /\ unsent \in Seq(0..MaxMessages)
    /\ published \in 0..MaxMessages
    /\ written \in Seq(1..MaxMessages)
    /\ told \in BOOLEAN

(* The asserts of the writer: it only ever runs while there is an outbound   *)
(* stream, and has an RPC in hand whenever it waits for a write.             *)
WriterHasStream ==
    /\ writing_ => stream_out_ # NoConn
    /\ writer = "write" <=> unsent # <<>>

(* While newStream is under way there is no outbound stream and no writer:   *)
(* no second stream is opened, and none is replaced under a writer.          *)
OneStreamAtATime ==
    is_connecting_ # NoConn => stream_out_ = NoConn /\ ~writing_

(* Streams, batches and Peer objects exist only between the first connection *)
(* and the end of the last one, whether on_peer_connected or handle made the *)
(* object; and a connection made since start always has one.                 *)
NothingWithoutPeer ==
    LET live == {c \in Conns : conn[c] \in {"open", "dead"}} IN
    /\ present => live # {}
    /\ live \ early # {} => present
    /\ ~present => /\ stream_out_ = NoConn /\ is_connecting_ = NoConn
                   /\ batch_ = <<>> /\ ~peer_topics

(* Messages reach the peer in the order they were published, each at most    *)
(* once, over however many streams: a message lost with a stream is not sent *)
(* after a later one.                                                        *)
WrittenInOrder ==
    \A i, j \in 1..Len(written) : i < j => written[i] < written[j]

(* A Peer object is there only between the first connection and the end of   *)
(* the last one, and for every connection made since start, with at most one *)
(* stream being opened or written, by one writer, and messages reach the     *)
(* peer in the order they were published, each at most once, over however    *)
(* many streams.                                                             *)
PeerSound ==
    /\ TypeOK /\ NothingWithoutPeer
    /\ WriterHasStream /\ OneStreamAtATime /\ WrittenInOrder

(* A batch queued while the writer is at work is taken up, or the stream is  *)
(* lost: the writer does not end between the last look and the new batch.    *)
BatchTakenUp ==
    (batch_ # <<>> /\ writing_) ~> (batch_ = <<>> \/ stream_out_ = NoConn)

(* "Subscribe locally to a topic: create Topic, announce to peers": a peer   *)
(* the node can write to has been told of the subscription.                  *)
SubscriptionAnnounced == topic = "subscribed" /\ stream_out_ # NoConn => told
=============================================================================
