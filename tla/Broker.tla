------------------------------- MODULE Broker -------------------------------
(***************************************************************************)
(* The publish/subscribe broker, server-subscriber/server.cpp: one thread  *)
(* around select.  A pass handles the descriptors select reported          *)
(* (tmp_fds) in ascending order.  The handlers of one descriptor are       *)
(* actions; the loops that send are one action per send, because clients   *)
(* go on meanwhile.                                                        *)
(***************************************************************************)
EXTENDS Connections, SequencesExt

VARIABLES
  read_fds,      \* client descriptors in the set select waits on
  tmp_fds,       \* descriptors of this pass not yet handled
  newsockfd,     \* newsockfd_tcp, while its client logs in; else 0
  it,            \* loop variable of the three sending loops; else 0
  sock_to_id, id_to_sock, topics, sf_clients, sf_messages,
  owed           \* history: <<m, n>> if n was to get datagram m, now or later

tables == <<sock_to_id, id_to_sock, topics, sf_clients>>
loopVars == <<newsockfd, it>>
brokerVars == <<server, read_fds, tmp_fds, loopVars, tables, sf_messages, owed>>

ServerStates == {"running",    \* in select, or between two descriptors of a pass
                 "login",      \* inside recv for the id of a client it accepted
                 "flush",      \* sending stored messages
                 "fanout",     \* in the loop of recv_udp
                 "broadcast",  \* sending exit
                 "exited", "died"}

BrokerTypeOK ==
  /\ server \in ServerStates
  /\ read_fds \subseteq Fds
  /\ tmp_fds \subseteq {STDIN_FILENO, sockfd_tcp, sockfd_udp} \cup Fds
  /\ newsockfd \in Fds \cup {0}
  /\ it \in Nat
  /\ sock_to_id \in [Fds -> Names]
  /\ id_to_sock \in [Names -> Fds \cup {0}]
  /\ topics \in [Topics -> Seq(Names)]
  /\ sf_clients \in [Topics -> SUBSET Names]
  /\ sf_messages \in [Names -> Seq(1..MaxMsgs)]
  /\ owed \subseteq (1..MaxMsgs) \X Names

(* A missing key of a std::map reads as 0 or the empty string.             *)
BrokerInit ==
  /\ server = "running"
  /\ read_fds = {} /\ tmp_fds = {}
  /\ newsockfd = 0 /\ it = 0
  /\ sock_to_id = [f \in Fds |-> Anonymous]
  /\ id_to_sock = [n \in Names |-> 0]
  /\ topics = [t \in Topics |-> <<>>]
  /\ sf_clients = [t \in Topics |-> {}]
  /\ sf_messages = [n \in Names |-> <<>>]
  /\ owed = {}
-----------------------------------------------------------------------------
(* select: blocks until something is readable.  An operator named after    *)
(* another one, with a suffix, is a plausible slip in it.                  *)
ReadyWithoutAccept ==
  {i \in {STDIN_FILENO} : typed}
  \cup {i \in {sockfd_udp} : handled < Len(published)}
  \cup {f \in read_fds : Readable(conn_of[f])}

Ready ==
  {i \in {STDIN_FILENO} : typed}
  \cup {i \in {sockfd_tcp} : backlog # <<>>}
  \cup {i \in {sockfd_udp} : handled < Len(published)}
  \cup {f \in read_fds : Readable(conn_of[f])}

SelectIgnoringResult ==
  /\ server = "running"
  /\ tmp_fds = {}
  /\ Ready # {}
  /\ tmp_fds' = Ready \cup read_fds
  /\ UNCHANGED <<server, read_fds, loopVars, tables, sf_messages, owed, netVars>>

Select ==
  /\ server = "running"
  /\ tmp_fds = {}
  /\ Ready # {}
  /\ tmp_fds' = Ready
  /\ UNCHANGED <<server, read_fds, loopVars, tables, sf_messages, owed, netVars>>

(* The for loop of main has reached descriptor i, which is in tmp_fds.     *)
At(i) ==
  /\ server = "running"
  /\ i \in tmp_fds
  /\ \A j \in tmp_fds : i <= j
-----------------------------------------------------------------------------
(* sockfd_tcp is readable.  The kernel hands out the lowest free           *)
(* descriptor; when there is none accept fails and the broker exits.       *)
FreeFds == {f \in Fds : conn_of[f] = NoConn}

accept_client ==
  /\ At(sockfd_tcp)
  /\ \E f \in FreeFds :
       /\ \A g \in FreeFds : f <= g
       /\ conn_of' = [conn_of EXCEPT ![f] = Head(backlog)]
       /\ backlog' = Tail(backlog)
       /\ read_fds' = read_fds \cup {f}
       /\ newsockfd' = f
  /\ server' = "login"
  /\ UNCHANGED <<tmp_fds, it, tables, sf_messages, owed, link, up, got, published,
                 handled, typed>>

accept_fails ==
  /\ At(sockfd_tcp)
  /\ FreeFds = {}
  /\ server' = "died"
  /\ UNCHANGED <<read_fds, tmp_fds, loopVars, tables, sf_messages, owed, netVars>>

(* The client id is whatever the first recv returns: with commands sent    *)
(* right after it, not an id any subscriber was started with; if the       *)
(* client is gone already, the empty string.                               *)
ReceivedId(c, ident) ==
  IF up[c] = <<>> THEN Anonymous
  ELSE IF Len(up[c]) = 1 THEN ident[c] ELSE c

BeginFlush == /\ server' = "flush" /\ it' = 1 /\ UNCHANGED <<newsockfd, tmp_fds>>
EndLogin ==
  /\ server' = "running" /\ it' = 0 /\ newsockfd' = 0
  /\ tmp_fds' = tmp_fds \ {sockfd_tcp}

RegisterFirstIdOnly(n, f) ==
  /\ sock_to_id' = IF sock_to_id[f] = Anonymous THEN [sock_to_id EXCEPT ![f] = n]
                   ELSE sock_to_id
  /\ id_to_sock' = [id_to_sock EXCEPT ![n] = f]

Register(n, f) ==
  /\ sock_to_id' = [sock_to_id EXCEPT ![f] = n]
  /\ id_to_sock' = [id_to_sock EXCEPT ![n] = f]

(* recv for the id blocks, and the whole broker with it.                   *)
login(ident) ==
  LET c == conn_of[newsockfd]
      n == ReceivedId(c, ident)
  IN /\ server = "login"
     /\ Readable(c)
     /\ Register(n, newsockfd)
     /\ up' = [up EXCEPT ![c] = <<>>]
     /\ link' = IF up[c] = <<>> /\ link[c] = "reset" THEN [link EXCEPT ![c] = "dead"]
                ELSE link
     /\ IF sf_messages[n] # <<>> THEN BeginFlush ELSE EndLogin
     /\ UNCHANGED <<read_fds, topics, sf_clients, sf_messages, owed, got,
                    backlog, conn_of, published, handled, typed>>

(* One send on connection c, after which the broker continues, or dies.    *)
SendOr(c, r, continue) ==
  \/ /\ Broken(c)
     /\ server' = "died"
     /\ UNCHANGED <<link, got, loopVars, tmp_fds, sf_messages>>
  \/ /\ ~Broken(c)
     /\ Send(c, r)
     /\ continue

EndFlushKeepingMessages(n) == EndLogin /\ UNCHANGED sf_messages

EndFlush(n) ==
  /\ EndLogin
  /\ sf_messages' = [sf_messages EXCEPT ![n] = <<>>]

flush ==
  LET n == sock_to_id[newsockfd]
      stored == sf_messages[n]
  IN /\ server = "flush"
     /\ SendOr(conn_of[newsockfd], [msg |-> stored[it], on |-> n],
               IF it < Len(stored)
               THEN it' = it + 1 /\ UNCHANGED <<server, newsockfd, tmp_fds, sf_messages>>
               ELSE EndFlush(n))
     /\ UNCHANGED <<read_fds, tables, owed, up, backlog, conn_of, published,
                    handled, typed>>
-----------------------------------------------------------------------------
(* sockfd_udp is readable: one datagram per pass.                          *)
Online(n) == id_to_sock[n] \in read_fds

Recipients(t) == {n \in ToSet(topics[t]) : Online(n) \/ n \in sf_clients[t]}

recv_udp ==
  LET m == handled + 1
      t == published[m]
  IN /\ At(sockfd_udp)
     /\ handled' = m
     /\ owed' = owed \cup {<<m, n>> : n \in Recipients(t)}
     /\ IF topics[t] = <<>>
        THEN /\ tmp_fds' = tmp_fds \ {sockfd_udp}
             /\ UNCHANGED <<server, it>>
        ELSE /\ server' = "fanout" /\ it' = 1
             /\ UNCHANGED tmp_fds
     /\ UNCHANGED <<read_fds, newsockfd, tables, sf_messages, link, up, got,
                    backlog, conn_of, published, typed>>

NextSubscriber(t) ==
  IF it < Len(topics[t])
  THEN it' = it + 1 /\ UNCHANGED <<server, newsockfd, tmp_fds>>
  ELSE /\ server' = "running" /\ it' = 0 /\ UNCHANGED newsockfd
       /\ tmp_fds' = tmp_fds \ {sockfd_udp}

StoreNewestFirst(n, t) == sf_messages' = [sf_messages EXCEPT ![n] = <<handled>> \o @]

Store(n, t) ==
  sf_messages' = IF n \in sf_clients[t]
                 THEN [sf_messages EXCEPT ![n] = Append(@, handled)]
                 ELSE sf_messages

fanout ==
  LET t == published[handled]
      n == topics[t][it]
  IN /\ server = "fanout"
     /\ \/ /\ Online(n)
           /\ SendOr(conn_of[id_to_sock[n]], [msg |-> handled, on |-> n],
                     NextSubscriber(t) /\ UNCHANGED sf_messages)
        \/ /\ ~Online(n)
           /\ Store(n, t)
           /\ NextSubscriber(t)
           /\ UNCHANGED <<link, got>>
     /\ UNCHANGED <<read_fds, tables, owed, up, backlog, conn_of, published,
                    handled, typed>>
-----------------------------------------------------------------------------
(* The line "exit" on stdin.  Other lines do nothing.                      *)
type_exit ==
  /\ At(STDIN_FILENO)
  /\ typed' = FALSE
  /\ tmp_fds' = tmp_fds \ {STDIN_FILENO}
  /\ server' = IF read_fds = {} THEN "exited" ELSE "broadcast"
  /\ it' = IF read_fds = {} THEN it ELSE 0
  /\ UNCHANGED <<read_fds, newsockfd, tables, sf_messages, owed, link, up, got, backlog, conn_of, published, handled>>

ToldNextSkippingLast == {f \in read_fds : f > it /\ \E g \in read_fds : f < g}
ToldNext == {f \in read_fds : f > it}     \* clients the loop has not reached

broadcast ==
  /\ server = "broadcast"
  /\ IF ToldNext = {}
     THEN /\ server' = "exited"
          /\ UNCHANGED <<link, got, it>>
     ELSE \E f \in ToldNext :
            /\ \A g \in ToldNext : f <= g
            /\ \/ /\ Broken(conn_of[f])
                  /\ server' = "died"
                  /\ UNCHANGED <<link, got, it>>
               \/ /\ ~Broken(conn_of[f])
                  /\ Send(conn_of[f], ExitRecord)
                  /\ it' = f
                  /\ UNCHANGED server
  /\ UNCHANGED <<read_fds, tmp_fds, newsockfd, tables, sf_messages, owed, up,
                 backlog, conn_of, published, handled, typed>>
-----------------------------------------------------------------------------
(* A client's descriptor is readable.  A recv that returns several         *)
(* commands is parsed as one: "unsubscribe" anywhere makes it that, with   *)
(* the topic at a fixed offset, which is right only if it comes first.     *)
(* A topic read at a wrong offset is taken to be no topic.                 *)
TakesEffect(texts) ==
  \/ texts[1].op = "unsubscribe"
  \/ \A k \in DOMAIN texts : texts[k].op # "unsubscribe"

unsubscribeButKeepStoring(n, t) ==
  /\ topics' = [topics EXCEPT ![t] = RemoveFirst(@, n)]
  /\ UNCHANGED sf_clients

unsubscribe(n, t) ==
  /\ topics' = [topics EXCEPT ![t] = RemoveFirst(@, n)]
  /\ sf_clients' = [sf_clients EXCEPT ![t] = @ \ {n}]

subscribeTwice(n, t, sf) ==
  /\ topics' = [topics EXCEPT ![t] = Append(@, n)]
  /\ sf_clients' = IF sf THEN [sf_clients EXCEPT ![t] = @ \cup {n}] ELSE sf_clients

subscribe(n, t, sf) ==
  IF Contains(topics[t], n) THEN UNCHANGED <<topics, sf_clients>>
  ELSE /\ topics' = [topics EXCEPT ![t] = Append(@, n)]
       /\ sf_clients' = IF sf THEN [sf_clients EXCEPT ![t] = @ \cup {n}] ELSE sf_clients

parse_client_commByDescriptor(f, texts) ==
  LET cmd == texts[1]
  IN IF ~TakesEffect(texts) THEN UNCHANGED <<topics, sf_clients>>
     ELSE IF cmd.op = "unsubscribe" THEN unsubscribe(f, cmd.topic)
     ELSE subscribe(f, cmd.topic, cmd.sf)

parse_client_comm(f, texts) ==
  LET cmd == texts[1]
      n == sock_to_id[f]
  IN IF ~TakesEffect(texts) THEN UNCHANGED <<topics, sf_clients>>
     ELSE IF cmd.op = "unsubscribe" THEN unsubscribe(n, cmd.topic)
     ELSE subscribe(n, cmd.topic, cmd.sf)

recv_command(f) ==
  LET c == conn_of[f]
  IN /\ At(f)
     /\ up[c] # <<>>
     /\ parse_client_comm(f, up[c])
     /\ up' = [up EXCEPT ![c] = <<>>]
     /\ tmp_fds' = tmp_fds \ {f}
     /\ UNCHANGED <<server, read_fds, loopVars, sock_to_id, id_to_sock, sf_messages, owed,
                    link, got, backlog, conn_of, published, handled, typed>>

(* End of file: sock_to_id and id_to_sock keep their entries.              *)
client_closed(f) ==
  LET c == conn_of[f]
  IN /\ At(f)
     /\ up[c] = <<>>
     /\ link[c] \in {"fin", "dead"}
     /\ link' = [link EXCEPT ![c] = "gone"]
     /\ conn_of' = [conn_of EXCEPT ![f] = NoConn]
     /\ read_fds' = read_fds \ {f}
     /\ tmp_fds' = tmp_fds \ {f}
     /\ UNCHANGED <<server, loopVars, tables, sf_messages, owed, up, got, backlog,
                    published, handled, typed>>

(* A reset the broker has not been told of yet: recv returns -1.           *)
recv_error(f) ==
  LET c == conn_of[f]
  IN /\ At(f)
     /\ up[c] = <<>>
     /\ link[c] = "reset"
     /\ server' = "died"
     /\ UNCHANGED <<read_fds, tmp_fds, loopVars, tables, sf_messages, owed, netVars>>

BrokerStep(ident) ==
  \/ Select
  \/ accept_client \/ accept_fails \/ login(ident) \/ flush
  \/ recv_udp \/ fanout
  \/ type_exit \/ broadcast
  \/ \E f \in Fds : recv_command(f) \/ client_closed(f) \/ recv_error(f)
=============================================================================
