----------------------------- MODULE Connector -----------------------------
(***************************************************************************)
(* A client (crates/temnion-adapter/src/connector.rs) and the thread that  *)
(* serves its connection (crates/temnion-protocol/src/lib.rs), over two    *)
(* byte streams.  A packet is written as a head and a tail, which may      *)
(* arrive in different reads; any read of the client may time out.         *)
(***************************************************************************)
EXTENDS Integers, Sequences

CONSTANTS
    MaxCalls,       \* bound: requests
    MaxPushed       \* bound: live events of one subscription

VARIABLES
    client,         \* which call of the connector is running, or what it left
    request,          \* the request a running call waits for the answer of
    server,         \* where handle_connection is
    up, down,       \* bytes under way to the server, to the client
    upBuf, downBuf, \* TnpChannel::read_buf of either side
    pushed,         \* the live events sent in this subscription
    got,            \* the ones next_event returned
    result,         \* how the last call ended
    answer,         \* history: the packet that answered it, and its number
    calls,          \* history: requests made so far
    late            \* history: a call on this connection gave up waiting

connectorVars ==
    <<client, request, server, up, down, upBuf, downBuf, pushed, got, result, answer, calls, late>>

Packet(type, ok, n) == [type |-> type, ok |-> ok, n |-> n]
NoPacket == Packet("none", FALSE, 0)

ConnectorInit ==
    /\ client = "off" /\ server = "off"
    /\ request = NoPacket /\ answer = NoPacket
    /\ up = <<>> /\ down = <<>> /\ upBuf = <<>> /\ downBuf = <<>>
    /\ pushed = 0 /\ got = <<>> /\ result = "none" /\ calls = 0 /\ late = FALSE

(* TnpPacket::encode: framed packets on the wire.                          *)
EncodeAll(packets) ==
    [i \in 1..2 * Len(packets) |->
        [part |-> IF i % 2 = 1 THEN "head" ELSE "tail", of |-> packets[(i + 1) \div 2]]]
Encode(packet) == EncodeAll(<<packet>>)

(* TnpPacket::decode of a read buffer: a packet, IncompletePacket, or an   *)
(* error when it does not start with the magic.                            *)
Whole(buf) == Len(buf) >= 2 /\ buf[1].part = "head"
Garbled(buf) == buf # <<>> /\ buf[1].part = "tail"
Incomplete(buf) == ~Whole(buf) /\ ~Garbled(buf)

Waiting == client \in {"connecting", "asking", "polling", "leaving"}

-----------------------------------------------------------------------------
(* TnpChannel::recv reads what has arrived and keeps what is left over.    *)
ClientRead ==
    /\ Waiting /\ Incomplete(downBuf) /\ down # <<>>
    /\ \E n \in {1, Len(down)} :
          /\ downBuf' = downBuf \o SubSeq(down, 1, n)
          /\ down' = SubSeq(down, n + 1, Len(down))
    /\ UNCHANGED <<client, request, server, up, upBuf, pushed, got, result, answer, calls, late>>

ServerRead ==
    /\ server # "off" /\ Incomplete(upBuf) /\ up # <<>>
    /\ \E n \in {1, Len(up)} :
          /\ upBuf' = upBuf \o SubSeq(up, 1, n)
          /\ up' = SubSeq(up, n + 1, Len(up))
    /\ UNCHANGED <<client, request, server, down, downBuf, pushed, got, result, answer, calls, late>>

Request(type, ok, to) ==
    LET packet == Packet(type, ok, calls + 1) IN
    /\ calls < MaxCalls
    /\ calls' = calls + 1
    /\ request' = packet
    /\ client' = to
    /\ UNCHANGED <<pushed, answer>>

Send == up' = up \o Encode(request')

(* ActiveConnection::connect: a new socket, a new thread that serves it.   *)
Connect(version) ==
    /\ client = "off"
    /\ Request("HandshakeRequest", version, "connecting")
    /\ up' = Encode(request')
    /\ server' = "hello"
    /\ down' = <<>> /\ upBuf' = <<>> /\ downBuf' = <<>> /\ got' = <<>>
    /\ result' = "none" /\ late' = FALSE

(* ping, a describe or query of a plain client, and subscribe.             *)
Call(type, ok) ==
    /\ client = "ready"
    /\ Request(type, ok, "asking")
    /\ Send
    /\ got' = IF type = "SubscribeRequest" THEN <<>> ELSE got
    /\ UNCHANGED <<server, down, upBuf, downBuf, result, late>>

NextEvent ==
    /\ client = "subscribed"
    /\ client' = "polling"
    /\ UNCHANGED <<request, server, up, down, upBuf, downBuf, pushed, got, result, answer, calls, late>>

(* LiveSubscription::unsubscribe.  Once the stream has ended it only gives *)
(* the connection back.                                                    *)
Unsubscribe ==
    \/ /\ client = "subscribed"
       /\ Request("UnsubscribeRequest", TRUE, "leaving")
       /\ Send
       /\ UNCHANGED <<server, down, upBuf, downBuf, got, result, late>>
    \/ /\ client = "ended"
       /\ client' = "ready"
       /\ UNCHANGED <<request, server, up, down, upBuf, downBuf, pushed, got, result, answer, calls, late>>

(* The caller drops what it holds; a subscription says goodbye first.      *)
Drop ==
    /\ client \in {"ready", "subscribed", "ended"}
    /\ client' = "off"
    /\ up' = IF client = "subscribed" THEN up \o Encode(Packet("UnsubscribeRequest", TRUE, 0)) ELSE up
    /\ UNCHANGED <<request, server, down, upBuf, downBuf, pushed, got, result, answer, calls, late>>

-----------------------------------------------------------------------------
(* What a call leaves when recv fails, or answers the wrong packet.        *)
Left(how) ==
    CASE client = "connecting" -> "off"
      [] client = "asking" -> IF request.type = "SubscribeRequest" THEN "off" ELSE "ready"
      [] client = "polling" -> IF how = "closed" THEN "ended" ELSE "subscribed"
      [] client = "leaving" -> "ready"

(* unsubscribe answers Ok whatever ended its loop.                         *)
Fail(how) ==
    /\ client' = Left(how)
    /\ result' = IF client = "leaving" THEN "ok" ELSE how
    /\ late' = (late \/ (how = "timeout" /\ Left(how) = "ready"))
    /\ UNCHANGED <<request, server, up, down, upBuf, pushed, got, answer, calls>>

(* Mutant: a read that times out forgets the part of a packet it has.      *)
ClientTimeout_Forgets ==
    /\ Waiting /\ Incomplete(downBuf)
    /\ Fail("timeout")
    /\ downBuf' = <<>>

ClientTimeout ==
    /\ Waiting /\ Incomplete(downBuf)
    /\ Fail("timeout")
    /\ UNCHANGED downBuf

(* The peer is gone, or what it sent does not decode.                      *)
ClientBroken ==
    /\ Waiting
    /\ Garbled(downBuf) \/ (Incomplete(downBuf) /\ down = <<>> /\ server = "off")
    /\ Fail(IF Garbled(downBuf) THEN "violation" ELSE "closed")
    /\ UNCHANGED downBuf

(* The packet a call returns on, by the request it made.                   *)
Expected(p) ==
    CASE client = "connecting" -> p.type = "HandshakeResponse"
      [] client = "polling" -> p.type \in {"LiveEvent", "UnsubscribeResponse"}
      [] client = "leaving" -> p.type = "UnsubscribeResponse"
      [] client = "asking" ->
            CASE request.type = "Ping" -> p.type = "Pong"
              [] request.type = "DescribeRequest" -> TRUE
              [] request.type = "QueryRequest" -> p.type = "StreamEnd"
              [] request.type = "SubscribeRequest" -> p.type = "SubscribeResponse"

(* Packets read past: unsubscribe passes over all, a query over its rows.  *)
Skipped(p) ==
    \/ client = "leaving"
    \/ client = "asking" /\ request.type = "QueryRequest" /\ p.type \in {"QueryResponse", "StreamRecord"}

ClientPacket ==
    /\ Waiting /\ Whole(downBuf)
    /\ downBuf' = SubSeq(downBuf, 3, Len(downBuf))
    /\ LET p == downBuf[1].of IN
       \/ /\ Expected(p)
          /\ client' = IF client \in {"connecting", "asking"} /\ ~p.ok THEN "off"
                       ELSE CASE client = "polling" ->
                                    IF p.type = "LiveEvent" THEN "subscribed" ELSE "ended"
                              [] client = "asking" /\ request.type = "SubscribeRequest" -> "subscribed"
                              [] OTHER -> "ready"
          /\ got' = IF client = "polling" /\ p.type = "LiveEvent" THEN Append(got, p.n) ELSE got
          /\ result' = IF p.ok THEN "ok" ELSE "rejected"
          /\ answer' = IF client = "polling" THEN answer ELSE p
          /\ UNCHANGED <<request, server, up, down, upBuf, pushed, calls, late>>
       \/ /\ ~Expected(p) /\ Skipped(p)
          /\ UNCHANGED <<client, request, server, up, down, upBuf, pushed, got, result, answer, calls, late>>
       \/ /\ ~Expected(p) /\ ~Skipped(p)
          /\ Fail("violation")

-----------------------------------------------------------------------------
(* handle_connection: what it answers to a packet in its request loop, and *)
(* where it goes.  A query that does not parse ends the connection.        *)
Served(p) ==
    CASE p.type = "Ping" -> <<<<Packet("Pong", TRUE, p.n)>>, "loop">>
      [] p.type = "DescribeRequest" -> <<<<Packet("DescribeResponse", TRUE, p.n)>>, "loop">>
      [] p.type = "QueryRequest" ->
            IF ~p.ok THEN <<<<>>, "off">>
            ELSE <<<<Packet("QueryResponse", TRUE, p.n), Packet("StreamRecord", TRUE, p.n),
                     Packet("StreamEnd", TRUE, p.n)>>, "loop">>
      [] p.type = "SubscribeRequest" ->
            <<<<Packet("SubscribeResponse", p.ok, p.n)>>, IF p.ok THEN "stream" ELSE "loop">>
      [] p.type = "UnsubscribeRequest" -> <<<<Packet("UnsubscribeResponse", TRUE, p.n)>>, "loop">>
      [] OTHER -> <<<<Packet("ErrorResponse", TRUE, p.n)>>, "loop">>

Greeted(p) ==
    IF p.type # "HandshakeRequest" THEN <<<<Packet("ErrorResponse", TRUE, 0)>>, "off">>
    ELSE <<<<Packet("HandshakeResponse", p.ok, p.n)>>, IF p.ok THEN "loop" ELSE "off">>

(* The control packets of the live streaming loop; others are ignored.     *)
Streamed(p) ==
    CASE p.type \in {"UnsubscribeRequest", "Ping"} ->
            <<Served(p)[1], IF p.type = "Ping" THEN "stream" ELSE "loop">>
      [] OTHER -> <<<<>>, "stream">>

ServerPacket ==
    /\ server # "off" /\ Whole(upBuf)
    /\ upBuf' = SubSeq(upBuf, 3, Len(upBuf))
    /\ LET p == upBuf[1].of
           reply == CASE server = "hello" -> Greeted(p)
                      [] server = "loop" -> Served(p)
                      [] server = "stream" -> Streamed(p)
       IN  /\ down' = down \o EncodeAll(reply[1])
           /\ server' = reply[2]
           /\ pushed' = IF server = "loop" /\ reply[2] = "stream" THEN 0 ELSE pushed
    /\ UNCHANGED <<client, request, up, downBuf, got, result, answer, calls, late>>

(* A row of the snapshot or an event of the hub.                           *)
ServerPush ==
    /\ server = "stream" /\ pushed < MaxPushed
    /\ pushed' = pushed + 1
    /\ down' = down \o Encode(Packet("LiveEvent", TRUE, pushed + 1))
    /\ UNCHANGED <<client, request, server, up, upBuf, downBuf, got, result, answer, calls, late>>

(* The first recv gives up after 50 ms and the thread ends; later ones try *)
(* again.  A closed socket ends it anywhere.                               *)
ServerGivesUp ==
    /\ Incomplete(upBuf)
    /\ \/ server = "hello"
       \/ server # "off" /\ client = "off" /\ up = <<>>
    /\ server' = "off"
    /\ UNCHANGED <<client, request, up, down, upBuf, downBuf, pushed, got, result, answer, calls, late>>

ConnectorNext ==
    \/ \E ok \in BOOLEAN :
          \/ Connect(ok)
          \/ \E type \in {"QueryRequest", "SubscribeRequest"} : Call(type, ok)
    \/ \E type \in {"Ping", "DescribeRequest"} : Call(type, TRUE)
    \/ NextEvent \/ Unsubscribe \/ Drop
    \/ ClientRead \/ ClientPacket \/ ClientTimeout \/ ClientBroken
    \/ ServerRead \/ ServerPacket \/ ServerPush \/ ServerGivesUp

-----------------------------------------------------------------------------
(* However reads are split and whichever of them time out, next_event      *)
(* returns the events of its subscription in order and once.  And while no *)
(* call on the connection gave up waiting for its answer, every call is    *)
(* answered by the packet sent for it, none meets a packet it did not      *)
(* expect, and nothing is left in the streams between two of them.         *)
AnswersAlign ==
    /\ client \in {"subscribed", "polling"} =>
          got = [i \in DOMAIN got |-> i] /\ Len(got) <= pushed
    /\ ~late => result # "violation"
    /\ ~late /\ server # "off" /\ client \in {"ready", "subscribed"} => answer.n = calls
    /\ ~late /\ server # "off" /\ client = "ready" =>
          up = <<>> /\ down = <<>> /\ upBuf = <<>> /\ downBuf = <<>> /\ server = "loop"
=============================================================================
