-------------------------------- MODULE Spx --------------------------------
(***************************************************************************)
(* The SPX connection of src/net/ipx/af_spx.c: two sockets, a Client      *)
(* that calls spx_connect and a Server that calls spx_listen and          *)
(* spx_accept, then sendmsg/recvmsg/release on either side.  Each socket  *)
(* carries its spx_opt (state, sequence, rmt_seq, dest_connid, the two    *)
(* retry counters, the watchdog and retransmit timers and the retransmit  *)
(* and transmit queues), its sk->receive_queue and its rcv_queue.         *)
(*                                                                         *)
(* The IPX network below SPX is a bag of in-flight packets per socket:    *)
(* packets are delivered in any order and up to MaxLoss of them are lost. *)
(* Delivering a packet is the IPX layer appending it to sk->receive_queue *)
(* and calling sk->data_ready, which is spx_rcv; the packet spx_rcv       *)
(* processes is the head of that queue.  Bottom halves (spx_rcv and the   *)
(* two timer handlers) are atomic with respect to each other; process     *)
(* context is interrupted by them between spx_route_skb's test of the     *)
(* retransmit queue and its queueing on the transmit queue.  A timer      *)
(* fires only when no packet is in flight: the timeouts (one second and   *)
(* up) are longer than a round trip.                                      *)
(*                                                                         *)
(* Packets are records: type (the spx_transmit type that built it), seq,  *)
(* ack, dff (dconn = 0xFFFF) and msg, the number of the sendmsg call that *)
(* produced a DATA packet (a ghost field, 0 otherwise).  spx_rcv looks    *)
(* only at cctl and dtype, which are functions of the type, exactly as    *)
(* spx_transmit sets them.                                                 *)
(***************************************************************************)
EXTENDS Integers, Sequences, Bags

CONSTANTS
    Client, Server,   \* the two sockets
    SeqMod,           \* 2^16: the width of sequence and ackseq
    MaxData,          \* sendmsg calls per sending socket
    Senders,          \* the sockets whose user calls sendmsg
    MaxRetries,       \* RETRY_COUNT, pdata->max_retries
    MaxLoss,          \* packets the network may lose
    RcvBuf,           \* sk->receive_queue entries the socket accepts
    AllocFails        \* whether skb_clone(GFP_BUFFER) may return NULL

Peers == {Client, Server}
Peer(p) == IF p = Client THEN Server ELSE Client

VARIABLES
    st,        \* pdata->state
    seqn,      \* pdata->sequence
    rmt,       \* pdata->rmt_seq
    dff,       \* pdata->dest_connid = 0xFFFF
    retries,   \* pdata->retries (watchdog)
    rexmits,   \* pdata->retransmits
    wd,        \* pdata->watchdog is pending
    rt,        \* pdata->retransmit is pending
    rtq,       \* pdata->retransmit_queue
    txq,       \* pdata->transmit_queue
    rcvq,      \* length of pdata->rcv_queue
    rq,        \* sk->receive_queue
    net,       \* packets in flight to each socket
    pc,        \* where the socket's user is
    hold,      \* the DATA packet sendmsg is queueing
    nsent,     \* sendmsg calls that returned
    got,       \* msg of every packet queued on rcv_queue, in order
    lost,      \* packets lost so far
    aborted    \* the socket was closed by a unilateral abort

pdata == <<st, seqn, rmt, dff, retries, rexmits, wd, rt>>
queues == <<rtq, txq, rcvq, rq>>
ghost == <<nsent, got, lost, aborted>>
vars == <<pdata, queues, net, pc, hold, ghost>>

Types == {"CONREQ", "WDREQ", "ACK", "WDACK", "CONACK", "DATA",
          "DISCON", "DISACK"}
Seqs == 0..(SeqMod - 1)
Packets == [type : Types, seq : Seqs, ack : Seqs, dff : BOOLEAN,
            msg : 0..MaxData]
NoPacket == [type |-> "NONE"]

\* The connection-control byte and datastream type spx_transmit writes.
Cctl(t) ==
    CASE t \in {"CONREQ", "WDREQ"}        -> "SYS_ACK"
      [] t \in {"ACK", "WDACK", "CONACK"} -> "SYS"
      [] t = "DISCON"                     -> "ACK"
      [] t = "DATA"                       -> "ACK_EOM"
      [] t = "DISACK"                     -> "NONE"
Dtype(t) ==
    CASE t = "DISCON" -> "ECONN"
      [] t = "DISACK" -> "ECACK"
      [] OTHER        -> "ZERO"

Inc(x) == (x + 1) % SeqMod

\* The header spx_transmit builds for a packet of type t from socket p.
Packet(p, t) ==
    [type |-> t,
     seq  |-> IF t = "DISACK" THEN 0 ELSE seqn[p],
     ack  |-> IF t = "ACK" THEN Inc(rmt[p]) ELSE rmt[p],
     dff  |-> dff[p] \/ t \in {"CONREQ", "WDREQ"},
     msg  |-> IF t = "DATA" THEN nsent[p] + 1 ELSE 0]

\* What spx_transmit does to pdata: sequence++ for DATA, rmt_seq++ for
\* ACK and DISACK, dest_connid = 0xFFFF for CONREQ and WDREQ.
Stamp(p, t) ==
    /\ seqn' = [seqn EXCEPT ![p] = IF t = "DATA" THEN Inc(@) ELSE @]
    /\ rmt' = [rmt EXCEPT ![p] = IF t \in {"ACK", "DISACK"} THEN Inc(@) ELSE @]
    /\ dff' = [dff EXCEPT ![p] = @ \/ t \in {"CONREQ", "WDREQ"}]

\* ipxrtr_route_skb: the packet goes on the wire to the other socket.
Post(n, p, m) == [n EXCEPT ![Peer(p)] = @ (+) SetToBag({m})]

\* A control packet: spx_transmit of a type spx_route_skb just sends.
Transmit(p, t, n) ==
    /\ Stamp(p, t)
    /\ net' = Post(n, p, Packet(p, t))

\* spx_close_socket.
Close(p) ==
    /\ st' = [st EXCEPT ![p] = "CLOSED"]
    /\ rt' = [rt EXCEPT ![p] = FALSE]
    /\ wd' = [wd EXCEPT ![p] = FALSE]

Quiet == \A q \in Peers : net[q] = EmptyBag

Set(f, p, v) == [f EXCEPT ![p] = v]

-----------------------------------------------------------------------------
(* spx_create and spx_sock_init: a closed socket, sequence numbers 0, no  *)
(* timer pending, empty queues.  dest_connid is 0 from sk_alloc.          *)
Init ==
    /\ st = [p \in Peers |-> "CLOSED"]
    /\ seqn = [p \in Peers |-> 0]
    /\ rmt = [p \in Peers |-> 0]
    /\ dff = [p \in Peers |-> FALSE]
    /\ retries = [p \in Peers |-> 0]
    /\ rexmits = [p \in Peers |-> 0]
    /\ wd = [p \in Peers |-> FALSE]
    /\ rt = [p \in Peers |-> FALSE]
    /\ rtq = [p \in Peers |-> <<>>]
    /\ txq = [p \in Peers |-> <<>>]
    /\ rcvq = [p \in Peers |-> 0]
    /\ rq = [p \in Peers |-> <<>>]
    /\ net = [p \in Peers |-> EmptyBag]
    /\ pc = [p \in Peers |-> "init"]
    /\ hold = [p \in Peers |-> NoPacket]
    /\ nsent = [p \in Peers |-> 0]
    /\ got = [p \in Peers |-> <<>>]
    /\ lost = 0
    /\ aborted = [p \in Peers |-> FALSE]

\* The TQUEUE case of spx_route_skb (DATA falls into it when nothing is
\* outstanding): arm the retransmit timer, queue a clone on the retransmit
\* queue and send.  When skb_clone fails it returns -ENOBUFS with the timer
\* armed and the packet neither queued nor sent.
RouteQueue(p, m, base, n) ==
    /\ rt' = Set(rt, p, TRUE)
    /\ \/ /\ rtq' = Set(rtq, p, Append(base, m))
          /\ net' = Post(n, p, m)
       \/ /\ AllocFails
          /\ rtq' = Set(rtq, p, base)
          /\ net' = n

-----------------------------------------------------------------------------
(* Process context.                                                        *)

\* spx_connect: record the addresses, go to SPX_CONNECTING and send the
\* connection request (spx_transmit deletes the watchdog for CONREQ), then
\* sleep until sk->receive_queue holds a packet.
Connect ==
    /\ pc[Client] = "init"
    /\ st' = Set(st, Client, "CONNECTING")
    /\ Transmit(Client, "CONREQ", net)
    /\ wd' = Set(wd, Client, FALSE)
    /\ pc' = Set(pc, Client, "conn_wait")
    /\ UNCHANGED <<retries, rexmits, rt, queues, hold, ghost>>

\* spx_connect after the wait: dequeue the packet; -ETIMEDOUT if the
\* connection was closed meanwhile, else SS_CONNECTED.
ConnectDone ==
    /\ pc[Client] = "conn_wait"
    /\ rq[Client] # <<>>
    /\ rq' = Set(rq, Client, Tail(rq[Client]))
    /\ \/ /\ st[Client] = "CLOSED"
          /\ wd' = Set(wd, Client, FALSE)
          /\ pc' = Set(pc, Client, "closed")
       \/ /\ st[Client] # "CLOSED"
          /\ pc' = Set(pc, Client, "open")
          /\ UNCHANGED wd
    /\ UNCHANGED <<st, seqn, rmt, dff, retries, rexmits, rt, rtq, txq, rcvq,
                   net, hold, ghost>>

\* spx_listen: sk->state = TCP_LISTEN.
Listen ==
    /\ pc[Server] = "init"
    /\ pc' = Set(pc, Server, "listening")
    /\ UNCHANGED <<pdata, queues, net, hold, ghost>>

\* spx_accept: sleep until sk->receive_queue holds a packet, dequeue it and
\* answer it with the connection ACK; the socket is then established.
AcceptDone ==
    /\ pc[Server] = "listening"
    /\ rq[Server] # <<>>
    /\ rq' = Set(rq, Server, Tail(rq[Server]))
    /\ Transmit(Server, "CONACK", net)
    /\ wd' = Set(wd, Server, TRUE)
    /\ pc' = Set(pc, Server, "open")
    /\ UNCHANGED <<st, retries, rexmits, rt, rtq, txq, rcvq, hold, ghost>>

\* spx_sendmsg: build the DATA packet in spx_transmit (sequence++, watchdog
\* re-armed) and route it.  If a packet is outstanding, spx_route_skb is
\* about to queue this one on the transmit queue (SendQueue); otherwise
\* it takes the TQUEUE path.  sendmsg does not look at pdata->state.
SendMsg(p) ==
    /\ p \in Senders
    /\ pc[p] = "open"
    /\ nsent[p] < MaxData
    /\ Stamp(p, "DATA")
    /\ wd' = Set(wd, p, TRUE)
    /\ nsent' = Set(nsent, p, nsent[p] + 1)
    /\ \/ /\ rtq[p] # <<>>
          /\ hold' = Set(hold, p, Packet(p, "DATA"))
          /\ pc' = Set(pc, p, "send_q")
          /\ UNCHANGED <<rt, rtq, net>>
       \/ /\ rtq[p] = <<>>
          /\ RouteQueue(p, Packet(p, "DATA"), <<>>, net)
          /\ UNCHANGED <<pc, hold>>
    /\ UNCHANGED <<st, retries, rexmits, txq, rcvq, rq, got, lost, aborted>>

\* spx_route_skb, DATA case, after its test: skb_queue_tail on the transmit
\* queue, then sendmsg returns.
SendQueue(p) ==
    /\ pc[p] = "send_q"
    /\ txq' = Set(txq, p, Append(txq[p], hold[p]))
    /\ hold' = Set(hold, p, NoPacket)
    /\ pc' = Set(pc, p, "open")
    /\ UNCHANGED <<pdata, rtq, rcvq, rq, net, ghost>>

\* spx_recvmsg: sleep until the rcv_queue is not empty, then take one.
RecvMsg(p) ==
    /\ pc[p] = "open"
    /\ rcvq[p] > 0
    /\ rcvq' = Set(rcvq, p, rcvq[p] - 1)
    /\ UNCHANGED <<pdata, rtq, txq, rq, net, pc, hold, ghost>>

\* spx_release: send the informed disconnect and close the socket, unless
\* it is already SPX_CLOSED; then spx_destroy_socket frees every queue.
Release(p) ==
    /\ pc[p] \in {"open", "closed"}
    /\ \/ /\ st[p] # "CLOSED"
          /\ Transmit(p, "DISCON", net)
          /\ Close(p)
       \/ /\ st[p] = "CLOSED"
          /\ UNCHANGED <<st, seqn, rmt, dff, wd, rt, net>>
    /\ rtq' = Set(rtq, p, <<>>)
    /\ txq' = Set(txq, p, <<>>)
    /\ rcvq' = Set(rcvq, p, 0)
    /\ rq' = Set(rq, p, <<>>)
    /\ pc' = Set(pc, p, "released")
    /\ UNCHANGED <<retries, rexmits, hold, ghost>>

-----------------------------------------------------------------------------
(* spx_rcv, for the packet k at the head of sk->receive_queue; rest is    *)
(* the queue without it and n the network without the delivered packet.  *)

\* The early returns: a closed socket takes only packets of sequence 0,
\* and an ACK of data not yet sent is "insanity".
Filtered(p, k) ==
    \/ st[p] = "CLOSED" /\ k.seq # 0
    \/ k.ack > seqn[p]

\* The packet is freed; only the watchdog reset of spx_rcv remains.
Absorb(p, rest, n) ==
    /\ wd' = Set(wd, p, TRUE)
    /\ rq' = Set(rq, p, rest)
    /\ net' = n
    /\ UNCHANGED <<st, seqn, rmt, dff, rexmits, rt, rtq, txq, rcvq, got>>

\* cctl SYS|ACK, sequence 0, ackseq 0, dconn 0xFFFF: a connection request.
\* The socket becomes SPX_CONNECTED and the packet goes back on
\* sk->receive_queue for spx_accept (or spx_connect) to take.
RcvConReq(p, k, rest, n) ==
    /\ Cctl(k.type) = "SYS_ACK"
    /\ k.seq = 0 /\ k.ack = 0 /\ k.dff
    /\ st' = Set(st, p, "CONNECTED")
    /\ dff' = Set(dff, p, FALSE)
    /\ wd' = Set(wd, p, TRUE)
    /\ rq' = Set(rq, p, Append(rest, k))
    /\ net' = n
    /\ UNCHANGED <<seqn, rmt, rexmits, rt, rtq, txq, rcvq, got>>

\* Any other SYS|ACK packet is a watchdog request: answer it.
RcvWdReq(p, k, rest, n) ==
    /\ Cctl(k.type) = "SYS_ACK"
    /\ ~(k.seq = 0 /\ k.ack = 0 /\ k.dff)
    /\ Transmit(p, "WDACK", n)
    /\ wd' = Set(wd, p, TRUE)
    /\ rq' = Set(rq, p, rest)
    /\ UNCHANGED <<st, rexmits, rt, rtq, txq, rcvq, got>>

\* cctl SYS with dtype 0, both connection ids set, sequence and ackseq 0 on
\* a socket not yet connected: the connection ACK.  It is queued on
\* sk->receive_queue for spx_connect.
ConAckLike(p, k) ==
    /\ Cctl(k.type) = "SYS" /\ Dtype(k.type) = "ZERO" /\ ~k.dff
    /\ k.seq = 0 /\ k.ack = 0
    /\ st[p] # "CONNECTED"

RcvConAck(p, k, rest, n) ==
    /\ ConAckLike(p, k)
    /\ st' = Set(st, p, "CONNECTED")
    /\ wd' = Set(wd, p, TRUE)
    /\ rq' = Set(rq, p, Append(rest, k))
    /\ net' = n
    /\ UNCHANGED <<seqn, rmt, dff, rexmits, rt, rtq, txq, rcvq, got>>

\* The head of the retransmit queue is the packet ackseq acknowledges,
\* computed in int as the code does, with the 65535 -> 0 wrap.
AckMatches(h, k) ==
    \/ h.seq = k.ack - 1
    \/ h.seq = SeqMod - 1 /\ k.ack = 0

\* Mutant of RcvAck: the acknowledged head is not dequeued.
RcvAckKeepHead(p, k, rest, n) ==
    /\ Cctl(k.type) = "SYS" /\ ~ConAckLike(p, k)
    /\ rtq[p] # <<>> /\ AckMatches(Head(rtq[p]), k)
    /\ rexmits' = Set(rexmits, p, 0)
    /\ rt' = Set(rt, p, FALSE)
    /\ net' = n
    /\ wd' = Set(wd, p, TRUE)
    /\ rq' = Set(rq, p, rest)
    /\ UNCHANGED <<st, seqn, rmt, dff, rtq, txq, rcvq, got>>

\* Any other cctl SYS packet is an ACK: if it acknowledges the head of the
\* retransmit queue, stop the retransmit timer, reset the retry count,
\* free the head and, when nothing else is outstanding, send the first
\* packet of the transmit queue by the TQUEUE path.
RcvAck(p, k, rest, n) ==
    /\ Cctl(k.type) = "SYS" /\ ~ConAckLike(p, k)
    /\ rtq[p] # <<>>
    /\ AckMatches(Head(rtq[p]), k)
    /\ rexmits' = Set(rexmits, p, 0)
    /\ \/ /\ Tail(rtq[p]) = <<>> /\ txq[p] # <<>>
          /\ txq' = Set(txq, p, Tail(txq[p]))
          /\ RouteQueue(p, Head(txq[p]), <<>>, n)
       \/ /\ ~(Tail(rtq[p]) = <<>> /\ txq[p] # <<>>)
          /\ rt' = Set(rt, p, FALSE)
          /\ rtq' = Set(rtq, p, Tail(rtq[p]))
          /\ net' = n
          /\ UNCHANGED txq
    /\ wd' = Set(wd, p, TRUE)
    /\ rq' = Set(rq, p, rest)
    /\ UNCHANGED <<st, seqn, rmt, dff, rcvq, got>>

\* An ACK with nothing outstanding or out of sequence is freed (the
\* dequeued head is put back).
RcvAckOther(p, k, rest, n) ==
    /\ Cctl(k.type) = "SYS" /\ ~ConAckLike(p, k)
    /\ \/ rtq[p] = <<>>
       \/ rtq[p] # <<>> /\ ~AckMatches(Head(rtq[p]), k)
    /\ Absorb(p, rest, n)

\* cctl ACK with dtype ECONN: the informed disconnect.  Answer it and close.
RcvDiscon(p, k, rest, n) ==
    /\ Cctl(k.type) = "ACK" /\ Dtype(k.type) = "ECONN"
    /\ Transmit(p, "DISACK", n)
    /\ Close(p)
    /\ rq' = Set(rq, p, rest)
    /\ UNCHANGED <<rexmits, rtq, txq, rcvq, got>>

\* Mutant: the sequence number of a data packet is not checked.
RcvDataAnySeq(p, k, rest, n) ==
    /\ Cctl(k.type) \in {"ACK_EOM", "NONE"}
    /\ rcvq' = Set(rcvq, p, rcvq[p] + 1)
    /\ got' = Set(got, p, Append(got[p], k.msg))
    /\ Transmit(p, "ACK", n)
    /\ wd' = Set(wd, p, TRUE)
    /\ rq' = Set(rq, p, rest)
    /\ UNCHANGED <<st, rexmits, rt, rtq, txq>>

\* Every other cctl: a packet of the expected sequence goes on the
\* rcv_queue, the reader is woken and the packet is acknowledged (rmt_seq++).
RcvData(p, k, rest, n) ==
    /\ Cctl(k.type) \in {"ACK_EOM", "NONE"}
    /\ k.seq = rmt[p]
    /\ rcvq' = Set(rcvq, p, rcvq[p] + 1)
    /\ got' = Set(got, p, Append(got[p], k.msg))
    /\ Transmit(p, "ACK", n)
    /\ wd' = Set(wd, p, TRUE)
    /\ rq' = Set(rq, p, rest)
    /\ UNCHANGED <<st, rexmits, rt, rtq, txq>>

\* ... and any other sequence is freed without an ACK.
RcvStale(p, k, rest, n) ==
    /\ Cctl(k.type) \in {"ACK_EOM", "NONE"}
    /\ k.seq # rmt[p]
    /\ Absorb(p, rest, n)

SpxRcv(p, k, rest, n) ==
    \/ /\ Filtered(p, k)
       /\ rq' = Set(rq, p, rest)
       /\ net' = n
       /\ UNCHANGED <<pdata, rtq, txq, rcvq, got>>
    \/ /\ ~Filtered(p, k)
       /\ retries' = Set(retries, p, 0)
       /\ \/ RcvConReq(p, k, rest, n)
          \/ RcvWdReq(p, k, rest, n)
          \/ RcvConAck(p, k, rest, n)
          \/ RcvAck(p, k, rest, n)
          \/ RcvAckOther(p, k, rest, n)
          \/ RcvDiscon(p, k, rest, n)
          \/ RcvData(p, k, rest, n)
          \/ RcvStale(p, k, rest, n)

\* The IPX layer queues a packet for the socket on sk->receive_queue and
\* calls sk->data_ready, spx_rcv, which dequeues the head of that queue.
Deliver(p) ==
    /\ pc[p] # "released"
    /\ Len(rq[p]) < RcvBuf
    /\ \E m \in BagToSet(net[p]) :
         LET q == Append(rq[p], m)
         IN  SpxRcv(p, Head(q), Tail(q), [net EXCEPT ![p] = @ (-) SetToBag({m})])
    /\ UNCHANGED <<pc, hold, nsent, lost, aborted>>

-----------------------------------------------------------------------------
(* Timers, run from the timer bottom half.                                *)

\* Mutant: spx_retransmit without the RETRY_COUNT limit.
RetransmitNoLimit(p) ==
    /\ pc[p] # "released"
    /\ rt[p] /\ Quiet
    /\ rtq[p] # <<>>
    /\ net' = Post(net, p, Head(rtq[p]))
    /\ rexmits' = Set(rexmits, p, rexmits[p] + 1)
    /\ UNCHANGED <<st, seqn, rmt, dff, retries, wd, rt, queues, pc, hold,
                   ghost>>

\* spx_retransmit: past RETRY_COUNT tries, abort the connection; otherwise
\* re-arm the timer and resend a copy of the head of the retransmit queue.
Retransmit(p) ==
    /\ pc[p] # "released"
    /\ rt[p] /\ Quiet
    /\ rtq[p] # <<>>
    /\ \/ /\ rexmits[p] > MaxRetries
          /\ Close(p)
          /\ aborted' = Set(aborted, p, TRUE)
          /\ UNCHANGED <<rexmits, net>>
       \/ /\ rexmits[p] <= MaxRetries
          /\ net' = Post(net, p, Head(rtq[p]))
          /\ rexmits' = Set(rexmits, p, rexmits[p] + 1)
          /\ UNCHANGED <<st, wd, rt, aborted>>
    /\ UNCHANGED <<seqn, rmt, dff, retries, queues, pc, hold, nsent, got, lost>>

\* spx_watchdog: past max_retries unanswered requests, abort; otherwise
\* send a watchdog request (which re-arms the watchdog).
Watchdog(p) ==
    /\ pc[p] # "released"
    /\ wd[p] /\ Quiet
    /\ \/ /\ retries[p] > MaxRetries
          /\ Close(p)
          /\ aborted' = Set(aborted, p, TRUE)
          /\ UNCHANGED <<seqn, rmt, dff, retries, net>>
       \/ /\ retries[p] <= MaxRetries
          /\ Transmit(p, "WDREQ", net)
          /\ retries' = Set(retries, p, retries[p] + 1)
          /\ UNCHANGED <<st, wd, rt, aborted>>
    /\ UNCHANGED <<rexmits, queues, pc, hold, nsent, got, lost>>

-----------------------------------------------------------------------------
(* The IPX network.                                                        *)

\* A packet in flight is lost.
Lose(p) ==
    /\ lost < MaxLoss
    /\ \E m \in BagToSet(net[p]) :
         net' = [net EXCEPT ![p] = @ (-) SetToBag({m})]
    /\ lost' = lost + 1
    /\ UNCHANGED <<pdata, queues, pc, hold, nsent, got, aborted>>

\* sock_queue_rcv_skb fails on a full receive queue, or no socket is bound
\* any more: the IPX layer frees the packet without calling spx_rcv.
Refuse(p) ==
    /\ Len(rq[p]) >= RcvBuf \/ pc[p] = "released"
    /\ \E m \in BagToSet(net[p]) :
         net' = [net EXCEPT ![p] = @ (-) SetToBag({m})]
    /\ UNCHANGED <<pdata, queues, pc, hold, ghost>>

-----------------------------------------------------------------------------
Next ==
    \/ Connect \/ ConnectDone \/ Listen \/ AcceptDone
    \/ \E p \in Peers :
         \/ SendMsg(p) \/ SendQueue(p) \/ RecvMsg(p) \/ Release(p)
         \/ Deliver(p) \/ Retransmit(p) \/ Watchdog(p)
         \/ Lose(p) \/ Refuse(p)

\* A woken sleeper runs, a sendmsg in progress finishes and the network
\* delivers or drops what is in flight.  A pending timer fires once it
\* expires; since it can fire only between round trips, it is enabled
\* only now and then, hence strong fairness.  The user's calls (connect,
\* sendmsg, recvmsg, release) need not happen.
Fairness ==
    /\ WF_vars(ConnectDone) /\ WF_vars(AcceptDone)
    /\ \A p \in Peers :
         /\ WF_vars(SendQueue(p))
         /\ WF_vars(Deliver(p)) /\ WF_vars(Refuse(p))
         /\ SF_vars(Retransmit(p)) /\ SF_vars(Watchdog(p))

Spec == Init /\ [][Next]_vars /\ Fairness

-----------------------------------------------------------------------------
TypeOK ==
    /\ st \in [Peers -> {"CLOSED", "CONNECTING", "CONNECTED"}]
    /\ seqn \in [Peers -> Seqs] /\ rmt \in [Peers -> Seqs]
    /\ dff \in [Peers -> BOOLEAN]
    /\ retries \in [Peers -> 0..(MaxRetries + 1)]
    /\ rexmits \in [Peers -> 0..(MaxRetries + 1)]
    /\ wd \in [Peers -> BOOLEAN] /\ rt \in [Peers -> BOOLEAN]
    /\ rtq \in [Peers -> Seq(Packets)] /\ txq \in [Peers -> Seq(Packets)]
    /\ rcvq \in [Peers -> Nat] /\ rq \in [Peers -> Seq(Packets)]
    /\ \A p \in Peers : BagToSet(net[p]) \subseteq Packets
    /\ pc \in [Peers -> {"init", "listening", "conn_wait", "open", "send_q",
                         "closed", "released"}]
    /\ hold \in [Peers -> Packets \cup {NoPacket}]
    /\ nsent \in [Peers -> 0..MaxData]
    /\ lost \in 0..MaxLoss

\* spx_rcv hands the reader only the packet whose sequence is rmt_seq, so
\* the data a socket queues on its rcv_queue are the peer's sendmsg calls
\* in order, each once, with nothing else among them.
InOrderDelivery ==
    \A p \in Peers : got[p] = [i \in 1..Len(got[p]) |-> i]

\* The retransmit timer is pending only while the retransmit queue holds a
\* packet: spx_retransmit peeks at the head without a check.  Not checked
\* by a passing run: with AllocFails, spx_route_skb arms the timer and
\* then fails skb_clone (af_spx.c:363-365), and TLC finds it violated.
RetransmitTimerHasPacket ==
    \A p \in Peers : pc[p] # "released" /\ rt[p] => rtq[p] # <<>>

\* Data outstanding on a live connection is eventually acknowledged and
\* freed, or the connection is closed: retransmissions and the watchdog
\* cannot keep a connection open forever with its data unacknowledged.
DataAcked ==
    \A p \in Senders :
       rtq[p] # <<>> ~> (rtq[p] = <<>> \/ st[p] = "CLOSED")

\* A packet waits on the transmit queue only behind an outstanding packet
\* whose ACK will send it: spx_route_skb queues DATA there because the
\* retransmit queue is not empty, and only the ACK path of spx_rcv takes
\* packets off it.
TxqBehindRtq ==
    \A p \in Peers : pc[p] # "released" /\ txq[p] # <<>> => rtq[p] # <<>>

\* spx_retransmit and spx_watchdog abort a connection only when packets
\* were lost: on a network that delivers everything every request is
\* answered.
AbortOnlyAfterLoss ==
    \A p \in Peers : aborted[p] => lost > 0

\* A DATA packet the receiver has queued for its reader is eventually
\* freed from the head of the sender's retransmit queue: the ACK spx_rcv
\* sends for it is taken by the sender's ACK path.
AckedLeavesRetransmitQueue ==
    \A p \in Senders, i \in 1..MaxData :
       LET headIs == rtq[p] # <<>> /\ Head(rtq[p]).msg = i
           taken  == \E j \in DOMAIN got[Peer(p)] : got[Peer(p)][j] = i
       IN  (headIs /\ taken) ~> ~headIs

\* spx_connect returns: its wait ends with the connection established or
\* with -ETIMEDOUT once the connection is closed.
ConnectReturns ==
    pc[Client] = "conn_wait" ~> pc[Client] # "conn_wait"

\* spx_destroy_socket frees the socket with no timer pending on it: the
\* watchdog and retransmit timers both point at the sock.
NoTimerAfterRelease ==
    \A p \in Peers : pc[p] = "released" => ~wd[p] /\ ~rt[p]

====
