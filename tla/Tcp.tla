-------------------------------- MODULE Tcp --------------------------------
(***************************************************************************)
(* The TCP connection table of drivers/net/net.c (tcp_connect, tcp_recv,   *)
(* tcp_close, tcp_handle) over a network that loses, duplicates, delays    *)
(* and reorders.  Everything runs in the caller: packets are handled only  *)
(* inside the polling loops of tcp_connect and tcp_recv, so `call` names   *)
(* the loop the kernel is in.  All connections go to one remote address,   *)
(* the case in which only the local port tells them apart; it is reached   *)
(* through the gateway, whose hardware address is always cached (see       *)
(* CacheFollowsHosts in Lookup), so a send inside tcp_handle never polls.  *)
(* The kernel's own sequence number is written on the wire and never read  *)
(* back by a decision, so it is left out, and with it tcp_send.            *)
(***************************************************************************)
EXTENDS Integers, Sequences, FiniteSets, SequencesExt

CONSTANTS
  MAX_TCP_CONNS,     \* slots of conns[]
  TCP_RX_BUF_SIZE,   \* cells of rx_buf
  SeqSpan,           \* sequence numbers wrap here (2^32 in the code)
  PortStep, PortRand,\* local_port = id * PortStep + (rand % PortRand): 100, 256
  SynTries,          \* SYNs sent before tcp_connect gives up
  PeerIss,           \* initial sequence numbers the peer may choose
  Stream,            \* cells the peer sends on each connection, then FIN
  MaxRead,           \* largest max_len of a tcp_recv
  MaxConnects,       \* calls of tcp_connect
  MaxStrays          \* segments out of order or too long that are taken

ASSUME TcpAssumption ==
  /\ {MAX_TCP_CONNS, TCP_RX_BUF_SIZE, SeqSpan, PortStep, PortRand, SynTries, MaxRead}
       \subseteq Nat \ {0}
  /\ PeerIss \subseteq 0..(SeqSpan - 1)
  /\ Stream \in Nat

VARIABLES
  conns,    \* the table; iss, got, strays and owned are history
  call,     \* the polling loop the kernel is in
  syns,     \* local ports from which a SYN was sent
  connects  \* tcp_connect calls so far

tcpVars == <<conns, call, syns, connects>>

Ids  == 0..(MAX_TCP_CONNS - 1)
Idle == <<"idle">>

Blank ==
  [state |-> "CLOSED", local_port |-> 0, ack |-> 0,
   rx_buf |-> [i \in 0..(TCP_RX_BUF_SIZE - 1) |-> <<>>],
   rx_head |-> 0, rx_tail |-> 0, rx_avail |-> 0, fin_received |-> FALSE,
   iss |-> 0, got |-> <<>>, strays |-> 0, owned |-> FALSE]

TcpInit ==
  /\ conns = [i \in Ids |-> Blank]
  /\ call = Idle
  /\ syns = {}
  /\ connects = 0

(***************************************************************************)
(* The peer and the network.  A peer answers any SYN it sees.  Every       *)
(* segment of the stream of an incarnation <<port, iss>> may be delivered  *)
(* at any time and any number of times; one never delivered is lost.       *)
(***************************************************************************)
Cell(port, iss, n) == <<port, iss, n>>

\* The incarnations <<port, iss>> with which the peer answers the SYNs.
Answers == syns \X PeerIss

\* Cells first..last of the stream, possibly none, and FIN on its end.
Pieces ==
  {p \in (1..(Stream + 1)) \X (0..Stream) \X BOOLEAN :
     /\ p[2] >= p[1] - 1
     /\ p[2] >= p[1] \/ p[3]
     /\ p[3] => p[2] = Stream}

SynAck(a) ==
  [port |-> a[1], syn |-> TRUE, seq |-> a[2], data |-> <<>>, fin |-> FALSE]

Piece(a, p) ==
  [port |-> a[1], syn |-> FALSE, seq |-> (a[2] + p[1]) % SeqSpan,
   data |-> [k \in 1..(p[2] - p[1] + 1) |-> Cell(a[1], a[2], p[1] + k - 1)],
   fin |-> p[3]]

Segments ==
  {SynAck(a) : a \in Answers} \cup {Piece(a, p) : a \in Answers, p \in Pieces}

(***************************************************************************)
(* tcp_handle.                                                             *)
(***************************************************************************)
Matching(port) == {i \in Ids : conns[i].state # "CLOSED" /\ conns[i].local_port = port}
First(S)       == CHOOSE i \in S : \A j \in S : i <= j

\* case TCP_STATE_SYN_SENT: any SYN|ACK is taken, whatever it acknowledges.
Establish(c, s) ==
  IF s.syn
  THEN [c EXCEPT !.ack = (s.seq + 1) % SeqSpan,
                 !.state = "ESTABLISHED", !.iss = s.seq]
  ELSE c

\* The data part: what does not fit is dropped, all of it is acknowledged.
Deposit(c, s) ==
  LET len  == Len(s.data)
      room == TCP_RX_BUF_SIZE - c.rx_avail
      n    == IF len < room THEN len ELSE room
      at(i) == (i - c.rx_tail) % TCP_RX_BUF_SIZE
  IN IF len = 0 THEN c
     ELSE [c EXCEPT
             !.rx_buf = [i \in DOMAIN c.rx_buf |->
                           IF at(i) < n THEN s.data[at(i) + 1] ELSE c.rx_buf[i]],
             !.rx_tail = (c.rx_tail + n) % TCP_RX_BUF_SIZE,
             !.rx_avail = c.rx_avail + n,
             !.ack = (s.seq + len) % SeqSpan]

\* Mutant: the FIN is not counted in the acknowledgement.
FinishNotCounted(c, s) ==
  IF s.fin
  THEN [c EXCEPT !.ack = (s.seq + Len(s.data)) % SeqSpan, !.fin_received = TRUE,
                 !.state = "CLOSE_WAIT"]
  ELSE c

Finish(c, s) ==
  IF s.fin
  THEN [c EXCEPT !.ack = (s.seq + Len(s.data) + 1) % SeqSpan,
                 !.fin_received = TRUE,
                 !.state = IF c.state = "FIN_WAIT" THEN "TIME_WAIT" ELSE "CLOSE_WAIT"]
  ELSE c

\* History: did this segment continue the stream, and was there room for it?
Observe(c, s) ==
  [c EXCEPT !.strays = IF \/ s.syn
                          \/ /\ s.seq = c.ack
                             /\ Len(s.data) <= TCP_RX_BUF_SIZE - c.rx_avail
                       THEN @ ELSE @ + 1]

Handled(c, s) ==
  CASE c.state = "SYN_SENT"                   -> Establish(c, s)
    [] c.state \in {"ESTABLISHED", "FIN_WAIT"} -> Finish(Deposit(Observe(c, s), s), s)
    [] OTHER                                  -> c

\* net_poll hands over one received segment, in tcp_connect or tcp_recv.
tcp_handle ==
  /\ call # Idle
  /\ \E s \in Segments :
       LET found == Matching(s.port)
       IN /\ found # {}
          /\ conns' = [conns EXCEPT ![First(found)] = Handled(@, s)]
          /\ FoldSet(LAMBDA i, n : conns'[i].strays + n, 0, Ids) <= MaxStrays
  /\ UNCHANGED <<call, syns, connects>>

(***************************************************************************)
(* tcp_connect: the first CLOSED slot is cleared and a SYN sent.           *)
(***************************************************************************)
Opened(id, r) ==
  [Blank EXCEPT !.state = "SYN_SENT", !.local_port = id * PortStep + r]

tcp_connect ==
  /\ call = Idle /\ connects < MaxConnects
  /\ \E r \in 0..(PortRand - 1) :
       LET free == {i \in Ids : conns[i].state = "CLOSED"}
           id   == First(free)
       IN /\ free # {}
          /\ conns' = [conns EXCEPT ![id] = Opened(id, r)]
          /\ syns' = syns \cup {conns'[id].local_port}
          /\ call' = <<"connect", id, 1>>
  /\ connects' = connects + 1

\* Another 50000 polls without an answer: the SYN is sent again.
RetransmitSyn ==
  /\ call[1] = "connect" /\ call[3] < SynTries
  /\ conns[call[2]].state # "ESTABLISHED"
  /\ call' = [call EXCEPT ![3] = @ + 1]
  /\ UNCHANGED <<conns, syns, connects>>

ConnectReturns ==
  /\ call[1] = "connect"
  /\ conns[call[2]].state = "ESTABLISHED"
  /\ conns' = [conns EXCEPT ![call[2]].owned = TRUE]
  /\ call' = Idle
  /\ UNCHANGED <<syns, connects>>

\* Mutant: the slot is left as it is.
GiveUpOpen(c) == c

GiveUp(c) == [c EXCEPT !.state = "CLOSED"]

ConnectTimesOut ==
  /\ call[1] = "connect" /\ call[3] = SynTries
  /\ conns[call[2]].state # "ESTABLISHED"
  /\ conns' = [conns EXCEPT ![call[2]] = GiveUp(@)]
  /\ call' = Idle
  /\ UNCHANGED <<syns, connects>>

(***************************************************************************)
(* The calls on a connection tcp_connect returned.                         *)
(***************************************************************************)
tcp_recv ==
  /\ call = Idle
  /\ \E id \in Ids : conns[id].owned /\ call' = <<"recv", id>>
  /\ UNCHANGED <<conns, syns, connects>>

\* has_data: at most max_len cells leave the ring (got is kept until a stray).
Taken(c, max_len) ==
  LET n == IF c.rx_avail < max_len THEN c.rx_avail ELSE max_len
  IN [c EXCEPT !.got = IF c.strays > 0 THEN <<>> ELSE @ \o [k \in 1..n |->
                               c.rx_buf[(c.rx_head + k - 1) % TCP_RX_BUF_SIZE]],
               !.rx_head = (@ + n) % TCP_RX_BUF_SIZE,
               !.rx_avail = @ - n]

\* Data, end of stream (fin_received) and a time-out all end the loop; the
\* last two both return 0.
RecvReturns ==
  /\ call[1] = "recv"
  /\ \E max_len \in 1..MaxRead : conns' = [conns EXCEPT ![call[2]] = Taken(@, max_len)]
  /\ call' = Idle
  /\ UNCHANGED <<syns, connects>>

\* A FIN is sent from ESTABLISHED; FIN_WAIT is overwritten at once.
tcp_close ==
  /\ call = Idle
  /\ \E id \in Ids :
       /\ conns[id].owned /\ conns[id].state # "CLOSED"
       /\ conns' = [conns EXCEPT ![id].state = "CLOSED", ![id].owned = FALSE]
  /\ UNCHANGED <<call, syns, connects>>

TcpNext ==
  \/ tcp_handle
  \/ tcp_connect
  \/ RetransmitSyn
  \/ ConnectReturns
  \/ ConnectTimesOut
  \/ tcp_recv
  \/ RecvReturns
  \/ tcp_close

TcpSpec == TcpInit /\ [][TcpNext]_tcpVars

(***************************************************************************)
(* Properties.                                                             *)
(***************************************************************************)
Buffered(c) ==
  [k \in 1..c.rx_avail |-> c.rx_buf[(c.rx_head + k - 1) % TCP_RX_BUF_SIZE]]

\* As long as every segment tcp_handle took continued the stream and fitted
\* in rx_buf, what tcp_recv returned followed by what is buffered is exactly
\* the beginning of the peer's stream, the acknowledgement number is the next
\* one expected (across the wrap of sequence numbers), and fin_received means
\* that the whole stream is there.
StreamExact ==
  \A i \in Ids :
    LET c == conns[i]
        all == c.got \o Buffered(c)
    IN (c.state \in {"ESTABLISHED", "CLOSE_WAIT"} /\ c.strays = 0) =>
         /\ all = [n \in 1..Len(all) |-> Cell(c.local_port, c.iss, n)]
         /\ c.ack = (c.iss + 1 + Len(all) + (IF c.fin_received THEN 1 ELSE 0)) % SeqSpan
         /\ c.fin_received => Len(all) = Stream

\* No slot stays open behind the callers' backs: one that is not CLOSED is
\* being connected or was returned by tcp_connect and not yet closed, whatever
\* answers arrive after a time-out or a close.
OpenIsOwned ==
  \A i \in Ids : conns[i].state # "CLOSED" =>
    conns[i].owned \/ (call[1] = "connect" /\ call[2] = i)

=============================================================================
