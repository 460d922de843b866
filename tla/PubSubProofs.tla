----------------------------- MODULE PubSubProofs -----------------------------
(* What the broker delivers, for every value of the constants.             *)
EXTENDS PubSubTypeProofs

(* Connections are accepted in the order they were made, each once.        *)
AcceptedInOrder ==
  /\ \A f, g \in read_fds : conn_of[f] = conn_of[g] => f = g
  /\ \A j, k \in DOMAIN backlog : j < k => backlog[j] < backlog[k]
  /\ \A f \in read_fds, k \in DOMAIN backlog : conn_of[f] < backlog[k]
  /\ server \in {"login", "flush"} =>
       \A f \in read_fds \ {newsockfd} : conn_of[f] < conn_of[newsockfd]

StartedInOrder ==
  /\ \A c, d \in Conns : c < d /\ proc[d] # "none" => proc[c] # "none"
  /\ \A k \in DOMAIN backlog : proc[backlog[k]] # "none"
  /\ \A f \in read_fds : proc[conn_of[f]] # "none"

(* What select reported still holds when the pass reaches it.              *)
PassOK ==
  /\ \A i \in tmp_fds \cap Fds : Readable(conn_of[i])
  /\ server \in {"login", "flush"} => newsockfd \notin tmp_fds

Connected == AcceptedInOrder /\ StartedInOrder /\ PassOK

(* Whose descriptor it is.  The second part is KnowsItsClients; the third  *)
(* says of the client being flushed what becomes true of it in general;    *)
(* and nothing is stored for an id while the descriptor on record for it   *)
(* is that of its open connection, so that a second login of the id has    *)
(* nothing to flush.                                                       *)
NamesKnown ==
  \A f \in Registered : sock_to_id[f] \in {id[conn_of[f]], conn_of[f], Anonymous}

OnRecord ==
  \A f \in Settled :
    LET n == sock_to_id[f]
    IN \/ n = Anonymous
       \/ id_to_sock[n] = f
       \/ \E d \in Conns : d > conn_of[f] /\ id[d] = n /\ LoggedIn(d)

FlushedOnRecord ==
  server = "flush" => id_to_sock[sock_to_id[newsockfd]] = newsockfd

NothingStoredForOnline ==
  \A f \in Settled :
    id_to_sock[sock_to_id[f]] = f => sf_messages[sock_to_id[f]] = <<>>

Known == NamesKnown /\ OnRecord /\ FlushedOnRecord /\ NothingStoredForOnline

(* What connections got and what is stored, by where they are and by where *)
(* the broker is: the datagram it handles is the latest, stored ones are   *)
(* older than those sent directly, and a connection that is not logged in  *)
(* got nothing, so that what is flushed to it comes first.                 *)
StoredInOrder ==
  \A n \in Names :
    /\ \A j, k \in DOMAIN sf_messages[n] : j < k => sf_messages[n][j] <= sf_messages[n][k]
    /\ \A k \in DOMAIN sf_messages[n] : sf_messages[n][k] <= handled

GotInOrder ==
  /\ \A c \in Conns : \A k \in DOMAIN got[c] : got[c][k].msg <= handled
  /\ \A c \in Conns : proc[c] = "none" => got[c] = <<>>
  /\ \A k \in DOMAIN backlog : got[backlog[k]] = <<>>
  /\ server = "login" => got[conn_of[newsockfd]] = <<>>
  /\ server = "flush" =>
       \A k \in DOMAIN got[conn_of[newsockfd]] :
         got[conn_of[newsockfd]][k].msg <= sf_messages[sock_to_id[newsockfd]][it]

(* The exit command is sent once on each connection, in the last loop.     *)
ExitIsLast ==
  \A c \in Conns : \A k \in DOMAIN got[c] :
    got[c][k].msg = 0 =>
      /\ server \in {"broadcast", "exited", "died"}
      /\ server = "broadcast" => \E f \in read_fds : conn_of[f] = c /\ f <= it

Ordered == InOrder /\ StoredInOrder /\ GotInOrder /\ ExitIsLast

(* Who is to get the datagram that is being sent to its subscribers.       *)
OwedInLoop ==
  /\ \A p \in owed : p[1] <= handled
  /\ server = "fanout" =>
       \A n \in Names : <<handled, n>> \in owed => n \in Recipients(published[handled])

-----------------------------------------------------------------------------
(* Connections and descriptors.                                            *)

(* The steps of the whole system, by what they do to descriptors.          *)
LEMMA Steps ==
  ASSUME Typed, [Next]_pubsubVars
  PROVE  \/ Select /\ UNCHANGED subVars
         \/ accept_client /\ UNCHANGED subVars
         \/ login(id) /\ UNCHANGED subVars
         \/ (\E f \in Fds : recv_command(f) \/ client_closed(f)) /\ UNCHANGED subVars
         \/ (\E c \in Conns : Connect(c)) /\ UNCHANGED brokerVars
         \/ /\ UNCHANGED <<read_fds, conn_of, backlog, id>> /\ tmp_fds' \subseteq tmp_fds
            /\ \A c \in Conns : proc'[c] = "none" <=> proc[c] = "none"
            /\ newsockfd' \in {newsockfd, 0}
            /\ server' \in {"login", "flush"} => UNCHANGED <<server, newsockfd>>
<1>1. CASE BrokerNext
  <2>1. CASE accept_fails \/ recv_udp \/ type_exit \/ \E f \in Fds : recv_error(f)
    BY <1>1, <2>1 DEF accept_fails, recv_udp, type_exit, recv_error, loopVars, netVars, At,
       BrokerNext, subVars
  <2>2. CASE flush
    BY <1>1, <2>2 DEF flush, SendOr, EndFlush, EndLogin, BrokerNext, subVars, loopVars
  <2>3. CASE fanout
    BY <1>1, <2>3 DEF fanout, SendOr, NextSubscriber, BrokerNext, subVars, loopVars
  <2>4. CASE broadcast
    BY <1>1, <2>4 DEF broadcast, BrokerNext, subVars
  <2> QED BY <1>1, <2>1, <2>2, <2>3, <2>4 DEF BrokerNext, BrokerStep
<1>2. ASSUME NEW c \in Conns, SubscriberNext(c), ~Connect(c)
      PROVE  /\ UNCHANGED <<read_fds, conn_of, backlog, id, tmp_fds, server, newsockfd>>
             /\ \A d \in Conns : proc'[d] = "none" <=> proc[d] = "none"
  <2>1. UNCHANGED <<read_fds, conn_of, backlog, id, tmp_fds, server, newsockfd>>
    BY <1>2 DEF SubscriberNext, SubNext, SendId, TypeCommand, Leave, ReceiveExit,
       ConnectionLost, netVars, loopVars
  <2>2. proc[c] # "none" /\ \E p \in {"running", "done"} : proc' = [proc EXCEPT ![c] = p] \/ proc' = proc
    BY <1>2 DEF SubscriberNext, SubNext, SendId, TypeCommand, Sends, Leave, ReceiveExit, ConnectionLost
  <2> QED BY <2>1, <2>2 DEF Typed, TypeOK, SubTypeOK
<1>3. ASSUME NEW c \in Conns, SubscriberNext(c), Connect(c)
      PROVE  UNCHANGED brokerVars
  BY <1>3 DEF SubscriberNext, Connect, brokerVars
<1>4. CASE Publish \/ TypeExit \/ UNCHANGED pubsubVars
  BY <1>4 DEF Publish, TypeExit, pubsubVars, brokerVars, netVars, loopVars, subVars
<1> QED BY <1>1, <1>2, <1>3, <1>4 DEF Next

LEMMA ConnectEffect ==
  ASSUME Typed, NEW c \in Conns, Connect(c), UNCHANGED brokerVars
  PROVE  /\ proc[c] = "none" /\ \A d \in Conns : d < c => proc[d] # "none"
         /\ proc' = [proc EXCEPT ![c] = "connected"]
         /\ backlog' = Append(backlog, c)
         /\ link' = [link EXCEPT ![c] = "open"]
         /\ \E i \in Ids : id' = [id EXCEPT ![c] = i]
         /\ UNCHANGED <<up, got, conn_of, published, handled, typed, brokerVars>>
<1>1. \A d \in Conns : d < c => d \in 1..(c - 1)
  BY DEF Conns
<1> QED BY <1>1 DEF Connect

LEMMA AcceptedInOrderStep ==
  ASSUME Typed, Connected, [Next]_pubsubVars
  PROVE  AcceptedInOrder'
<1>0. /\ conn_of \in [Fds -> Conns \cup {NoConn}] /\ backlog \in Seq(Conns) /\ read_fds \subseteq Fds
      /\ Conns \subseteq Nat /\ \A f \in read_fds : conn_of[f] \in Conns
      /\ AcceptedInOrder /\ StartedInOrder
      /\ proc \in [Conns -> {"none", "connected", "running", "done"}]
  BY Numbers DEF Typed, TypeOK, NetTypeOK, BrokerTypeOK, SubTypeOK, DescriptorsOK, Connected
<1>1. CASE accept_client
  <2>1. PICK f \in Fds \ read_fds :
           /\ conn_of' = [conn_of EXCEPT ![f] = Head(backlog)]
           /\ backlog' = Tail(backlog) /\ backlog # <<>>
           /\ read_fds' = read_fds \cup {f}
           /\ newsockfd' = f
    BY <1>1, AcceptEffect
  <2>2. /\ Head(backlog) = backlog[1] /\ Len(backlog) \in Nat \ {0}
        /\ DOMAIN backlog' = 1..(Len(backlog) - 1)
        /\ \A k \in DOMAIN backlog' : backlog'[k] = backlog[k + 1] /\ k + 1 \in DOMAIN backlog
        /\ DOMAIN backlog = 1..Len(backlog) /\ 1 \in DOMAIN backlog
        /\ \A k \in DOMAIN backlog : backlog[k] \in Nat
    <3>1. Len(backlog) \in Nat /\ Len(backlog) # 0 /\ DOMAIN backlog = 1..Len(backlog)
          /\ \A k \in DOMAIN backlog : backlog[k] \in Nat
      <4>1. Len(backlog) \in Nat \ {0}
        BY <1>0, <2>1, EmptySeq
      <4>2. DOMAIN backlog = 1..Len(backlog) /\ \A k \in DOMAIN backlog : backlog[k] \in Conns
        BY <1>0
      <4> QED BY <1>0, <4>1, <4>2
    <3>2. Head(backlog) = backlog[1]
      BY <1>0
    <3>3. /\ Tail(backlog) \in Seq(Conns) /\ Len(Tail(backlog)) = Len(backlog) - 1
          /\ \A k \in 1..Len(Tail(backlog)) : Tail(backlog)[k] = backlog[k + 1]
      BY <1>0, <2>1, HeadTailProperties
    <3>4. DOMAIN backlog' = 1..(Len(backlog) - 1)
      BY <2>1, <3>1, <3>3
    <3> QED BY <2>1, <3>1, <3>2, <3>3, <3>4
  <2>3. \A g \in read_fds : conn_of'[g] = conn_of[g] /\ conn_of[g] < backlog[1] /\ conn_of[g] \in Nat
    BY <1>0, <2>1, <2>2 DEF AcceptedInOrder
  <2>4. conn_of'[f] = backlog[1]
    BY <1>0, <2>1, <2>2
  <2>5. \A g, h \in read_fds' : conn_of'[g] = conn_of'[h] => g = h
    BY <1>0, <2>1, <2>2, <2>3, <2>4 DEF AcceptedInOrder
  <2>6. \A j, k \in DOMAIN backlog' : j < k => backlog'[j] < backlog'[k]
    <3> TAKE j, k \in DOMAIN backlog'
    <3>1. HAVE j < k
    <3>2. j + 1 \in DOMAIN backlog /\ k + 1 \in DOMAIN backlog /\ j + 1 < k + 1
      BY <2>2, <3>1
    <3> QED BY <1>0, <2>2, <3>2 DEF AcceptedInOrder
  <2>7. \A g \in read_fds', k \in DOMAIN backlog' : conn_of'[g] < backlog'[k]
    <3> TAKE g \in read_fds', k \in DOMAIN backlog'
    <3>1. k + 1 \in DOMAIN backlog /\ backlog'[k] = backlog[k + 1] /\ 1 < k + 1
      BY <2>2
    <3>2. backlog[1] < backlog[k + 1]
      BY <1>0, <2>2, <3>1 DEF AcceptedInOrder
    <3> QED BY <1>0, <2>1, <2>3, <2>4, <3>1, <3>2 DEF AcceptedInOrder
  <2>8. \A g \in read_fds' \ {newsockfd'} : conn_of'[g] < conn_of'[newsockfd']
    BY <2>1, <2>3, <2>4
  <2> QED BY <2>5, <2>6, <2>7, <2>8 DEF AcceptedInOrder
<1>2. CASE \E f \in Fds : client_closed(f)
  <2>1. PICK f \in Fds : client_closed(f)
    BY <1>2
  <2>2. /\ server = "running" /\ conn_of' = [conn_of EXCEPT ![f] = NoConn]
        /\ read_fds' = read_fds \ {f} /\ UNCHANGED <<server, backlog>>
    BY <2>1, ClientClosedEffect
  <2>3. \A g \in read_fds' : g \in read_fds /\ conn_of'[g] = conn_of[g]
    BY <1>0, <2>2
  <2> QED BY <1>0, <2>2, <2>3 DEF AcceptedInOrder
<1>3. CASE (\E c \in Conns : Connect(c)) /\ UNCHANGED brokerVars
  <2>1. PICK c \in Conns : Connect(c)
    BY <1>3
  <2>2. /\ proc[c] = "none" /\ \A d \in Conns : d < c => proc[d] # "none"
        /\ backlog' = Append(backlog, c) /\ UNCHANGED <<server, newsockfd, read_fds, conn_of>>
    BY <1>3, <2>1, ConnectEffect DEF brokerVars, loopVars
  <2>3. \A d \in Conns : proc[d] # "none" => d < c
    BY <1>0, <2>2 DEF StartedInOrder
  <2>4. /\ DOMAIN backlog = 1..Len(backlog) /\ Len(backlog) \in Nat
        /\ DOMAIN backlog' = 1..(Len(backlog) + 1) /\ backlog'[Len(backlog) + 1] = c
        /\ \A k \in 1..Len(backlog) : backlog'[k] = backlog[k] /\ backlog[k] < c
    <3>1. /\ DOMAIN backlog = 1..Len(backlog) /\ Len(backlog) \in Nat
          /\ \A k \in 1..Len(backlog) : backlog[k] \in Conns
          /\ Len(Append(backlog, c)) = Len(backlog) + 1
          /\ DOMAIN Append(backlog, c) = 1..(Len(backlog) + 1)
          /\ Append(backlog, c)[Len(backlog) + 1] = c
          /\ \A k \in 1..Len(backlog) : Append(backlog, c)[k] = backlog[k]
      BY <1>0
    <3>2. \A k \in 1..Len(backlog) : backlog[k] < c
      BY <1>0, <2>3, <3>1 DEF StartedInOrder
    <3> QED BY <2>2, <3>1, <3>2
  <2>5. \A f \in read_fds : conn_of[f] < c
    BY <1>0, <2>3 DEF StartedInOrder
  <2> QED BY <1>0, <2>2, <2>4, <2>5 DEF AcceptedInOrder
<1>4. CASE UNCHANGED <<read_fds, conn_of, backlog>>
           /\ (server' \in {"login", "flush"} =>
                 server \in {"login", "flush"} /\ UNCHANGED newsockfd)
  BY <1>0, <1>4 DEF AcceptedInOrder
<1>5. CASE Select \/ login(id) \/ \E f \in Fds : recv_command(f)
  <2>1. UNCHANGED <<read_fds, conn_of, backlog>>
        /\ (server' \in {"login", "flush"} =>
              server \in {"login", "flush"} /\ UNCHANGED newsockfd)
    BY <1>5, LoginEffect DEF Select, recv_command, loopVars, netVars
  <2> QED BY <1>4, <2>1
<1> QED BY <1>1, <1>2, <1>3, <1>4, <1>5, Steps
LEMMA StartedInOrderStep ==
  ASSUME Typed, Connected, [Next]_pubsubVars
  PROVE  StartedInOrder'
<1>0. /\ conn_of \in [Fds -> Conns \cup {NoConn}] /\ backlog \in Seq(Conns) /\ read_fds \subseteq Fds
      /\ Conns \subseteq Nat /\ \A f \in read_fds : conn_of[f] \in Conns
      /\ StartedInOrder /\ DOMAIN backlog = 1..Len(backlog) /\ Len(backlog) \in Nat
      /\ \A k \in DOMAIN backlog : backlog[k] \in Conns
      /\ proc \in [Conns -> {"none", "connected", "running", "done"}]
  BY Numbers DEF Typed, TypeOK, NetTypeOK, BrokerTypeOK, SubTypeOK, DescriptorsOK, Connected
<1>1. CASE accept_client /\ UNCHANGED subVars
  <2>1. PICK f \in Fds \ read_fds :
           /\ conn_of' = [conn_of EXCEPT ![f] = Head(backlog)]
           /\ backlog' = Tail(backlog) /\ backlog # <<>>
           /\ read_fds' = read_fds \cup {f}
    BY <1>1, AcceptEffect
  <2>2. Len(backlog) # 0
    BY <1>0, <2>1, EmptySeq
  <2>3. Head(backlog) = backlog[1] /\ 1 \in DOMAIN backlog
    BY <1>0, <2>2
  <2>4. /\ DOMAIN backlog' = 1..(Len(backlog) - 1)
        /\ \A k \in DOMAIN backlog' : backlog'[k] = backlog[k + 1] /\ k + 1 \in DOMAIN backlog
    <3>1. /\ Tail(backlog) \in Seq(Conns) /\ Len(Tail(backlog)) = Len(backlog) - 1
          /\ \A k \in 1..Len(Tail(backlog)) : Tail(backlog)[k] = backlog[k + 1]
      BY <1>0, <2>1, HeadTailProperties
    <3>2. DOMAIN backlog' = 1..(Len(backlog) - 1)
      BY <2>1, <3>1
    <3> QED BY <1>0, <2>1, <3>1, <3>2
  <2>5. \A g \in read_fds' : conn_of'[g] = IF g = f THEN backlog[1] ELSE conn_of[g]
    BY <1>0, <2>1, <2>3
  <2> QED BY <1>0, <1>1, <2>1, <2>3, <2>4, <2>5 DEF StartedInOrder, subVars
<1>2. CASE (\E f \in Fds : client_closed(f)) /\ UNCHANGED subVars
  <2>1. PICK f \in Fds : client_closed(f)
    BY <1>2
  <2>2. /\ conn_of' = [conn_of EXCEPT ![f] = NoConn]
        /\ read_fds' = read_fds \ {f} /\ UNCHANGED backlog
    BY <2>1, ClientClosedEffect
  <2>3. \A g \in read_fds' : g \in read_fds /\ conn_of'[g] = conn_of[g]
    BY <1>0, <2>2
  <2> QED BY <1>0, <1>2, <2>2, <2>3 DEF StartedInOrder, subVars
<1>3. CASE (\E c \in Conns : Connect(c)) /\ UNCHANGED brokerVars
  <2>1. PICK c \in Conns : Connect(c)
    BY <1>3
  <2>2. /\ proc' = [proc EXCEPT ![c] = "connected"] /\ \A d \in Conns : d < c => proc[d] # "none"
        /\ backlog' = Append(backlog, c) /\ UNCHANGED <<read_fds, conn_of>>
    BY <1>3, <2>1, ConnectEffect DEF brokerVars
  <2>3. \A d \in Conns : proc'[d] # "none" <=> (d = c \/ proc[d] # "none")
    BY <1>0, <2>2
  <2>4. \A c1, d \in Conns : c1 < d /\ proc'[d] # "none" => proc'[c1] # "none"
    BY <1>0, <2>2, <2>3 DEF StartedInOrder
  <2>5. \A k \in DOMAIN backlog' : backlog'[k] = c \/ \E j \in DOMAIN backlog : backlog'[k] = backlog[j]
    BY <1>0, <2>2
  <2>6. /\ \A k \in DOMAIN backlog' : proc'[backlog'[k]] # "none"
        /\ \A f \in read_fds' : proc'[conn_of'[f]] # "none"
    BY <1>0, <2>2, <2>3, <2>5 DEF StartedInOrder
  <2> QED BY <2>4, <2>6 DEF StartedInOrder
<1>4. CASE /\ UNCHANGED <<read_fds, conn_of, backlog>>
           /\ \A c \in Conns : proc'[c] = "none" <=> proc[c] = "none"
  BY <1>0, <1>4 DEF StartedInOrder
<1>5. CASE (Select \/ login(id) \/ \E f \in Fds : recv_command(f)) /\ UNCHANGED subVars
  BY <1>4, <1>5, LoginEffect DEF Select, recv_command, netVars, subVars
<1> QED BY <1>1, <1>2, <1>3, <1>4, <1>5, Steps

(* A readable connection stays readable, but for the one handled.          *)
LEMMA StaysReadable ==
  ASSUME Typed, [Next]_pubsubVars, NEW d \in Conns, Readable(d)
  PROVE  \/ Readable(d)'
         \/ login(id) /\ conn_of[newsockfd] = d
         \/ \E f \in Fds : (recv_command(f) \/ client_closed(f)) /\ conn_of[f] = d
<1>0. /\ link \in [Conns -> Links] /\ up \in [Conns -> Seq(Texts)] /\ got \in [Conns -> Seq(Records)]
      /\ \A f \in read_fds : conn_of[f] \in Conns
      /\ up[d] # <<>> \/ link[d] \in {"fin", "reset", "dead"}
  BY DEF Typed, TypeOK, NetTypeOK, DescriptorsOK, BrokerTypeOK, Readable
<1>1. CASE UNCHANGED <<up, link>>
  BY <1>1 DEF Readable
<1>2. ASSUME NEW c \in Conns, NEW r \in Records, Send(c, r), UNCHANGED up
      PROVE  Readable(d)'
  BY <1>0, <1>2, SendEffect DEF Readable
<1>3. CASE BrokerNext
  <2>1. CASE Select \/ accept_client \/ accept_fails \/ recv_udp \/ type_exit \/ \E f \in Fds : recv_error(f)
    BY <1>1, <2>1 DEF Select, accept_client, accept_fails, recv_udp, type_exit, recv_error, netVars
  <2>2. CASE flush
    <3>1. /\ newsockfd \in read_fds /\ UNCHANGED up
          /\ \/ UNCHANGED link
             \/ \E r \in Records : Send(conn_of[newsockfd], r)
      BY <2>2, FlushEffect
    <3> QED BY <1>0, <1>1, <1>2, <3>1
  <2>3. CASE fanout
    <3> DEFINE n == topics[published[handled]][it]
    <3>1. UNCHANGED up /\ (UNCHANGED link \/ (Online(n) /\ \E r \in Records : Send(conn_of[id_to_sock[n]], r)))
      BY <2>3, FanoutEffect
    <3> QED BY <1>0, <1>1, <1>2, <3>1 DEF Online
  <2>4. CASE broadcast
    <3>1. UNCHANGED up /\ (UNCHANGED link \/ \E f \in ToldNext : Send(conn_of[f], ExitRecord))
      BY <2>4, BroadcastEffect
    <3> QED BY <1>0, <1>1, <1>2, <3>1, ExitRecordTyped DEF ToldNext
  <2>5. CASE login(id)
    <3> DEFINE c == conn_of[newsockfd]
    <3>1. /\ up' = [up EXCEPT ![c] = <<>>]
          /\ link' = IF up[c] = <<>> /\ link[c] = "reset" THEN [link EXCEPT ![c] = "dead"]
                     ELSE link
      BY <2>5, LoginEffect
    <3> HIDE DEF c
    <3>2. d # c => up'[d] = up[d] /\ link'[d] = link[d]
      BY <1>0, <3>1
    <3> QED BY <1>0, <2>5, <3>2 DEF Readable, c
  <2>6. ASSUME NEW f \in Fds, recv_command(f), conn_of[f] # d
        PROVE  Readable(d)'
    <3>1. up' = [up EXCEPT ![conn_of[f]] = <<>>] /\ UNCHANGED link
      BY <2>6, RecvCommandEffect
    <3> QED BY <1>0, <2>6, <3>1 DEF Readable
  <2>7. ASSUME NEW f \in Fds, client_closed(f), conn_of[f] # d
        PROVE  Readable(d)'
    <3>1. link' = [link EXCEPT ![conn_of[f]] = "gone"] /\ UNCHANGED up
      BY <2>7, ClientClosedEffect
    <3> QED BY <1>0, <2>7, <3>1 DEF Readable
  <2> QED BY <1>3, <2>1, <2>2, <2>3, <2>4, <2>5, <2>6, <2>7 DEF BrokerNext, BrokerStep
<1>4. ASSUME NEW c \in Conns, SubscriberNext(c)
      PROVE  Readable(d)'
  <2>1. CASE Connect(c)
    <3>1. proc[c] = "none" /\ link' = [link EXCEPT ![c] = "open"] /\ UNCHANGED up
      BY <2>1 DEF Connect
    <3>2. d # c
      BY <1>0, <3>1 DEF Typed, CommandsOnly
    <3> QED BY <1>0, <3>1, <3>2 DEF Readable
  <2>2. CASE SendId(c) \/ TypeCommand(c)
    <3>1. UNCHANGED link /\ \E x \in Texts : Sends(c, x)
      BY <2>2, CommandsAreTexts DEF SendId, TypeCommand
    <3>2. PICK x \in Texts : up' = up \/ up' = [up EXCEPT ![c] = Append(@, x)]
      BY <3>1, SendsEffect DEF Typed, TypeOK
    <3>3. up[c] \in Seq(Texts) /\ Len(Append(up[c], x)) = Len(up[c]) + 1 /\ Len(up[c]) \in Nat
      BY <1>0
    <3>4. Append(up[c], x) # <<>>
      BY <3>3
    <3> QED BY <1>0, <3>1, <3>2, <3>4 DEF Readable
  <2>3. CASE Leave(c) \/ ReceiveExit(c)
    <3>1. UNCHANGED up /\ \E l \in {"fin", "reset"} : link' = [link EXCEPT ![c] = l]
      BY <1>0, <2>3, CloseEffect DEF Leave, ReceiveExit
    <3> QED BY <1>0, <3>1 DEF Readable
  <2>4. CASE ConnectionLost(c)
    <3>1. UNCHANGED <<up, link>>
      BY <2>4 DEF ConnectionLost, netVars
    <3> QED BY <3>1 DEF Readable
  <2> QED BY <1>4, <2>1, <2>2, <2>3, <2>4 DEF SubscriberNext, SubNext
<1>5. CASE Publish \/ TypeExit \/ UNCHANGED pubsubVars
  BY <1>1, <1>5 DEF Publish, TypeExit, pubsubVars, netVars
<1> QED BY <1>3, <1>4, <1>5 DEF Next

(* So does the connection of a descriptor still to be handled in the pass. *)
LEMMA StaysReadableInPass ==
  ASSUME Typed, PassOK, [Next]_pubsubVars, NEW i \in tmp_fds \cap Fds, conn_of'[i] = conn_of[i],
         login(id) => conn_of[newsockfd] # conn_of[i],
         \A f \in Fds : recv_command(f) \/ client_closed(f) => conn_of[f] # conn_of[i]
  PROVE  Readable(conn_of[i])'
<1>1. conn_of[i] \in Conns /\ Readable(conn_of[i])
  BY DEF Typed, TypeOK, NetTypeOK, BrokerTypeOK, DescriptorsOK, LoopOK, PassOK
<1>2. PICK d \in Conns : d = conn_of[i]
  BY <1>1
<1>3. Readable(d)'
  BY <1>1, <1>2, StaysReadable
<1> QED BY <1>2, <1>3 DEF Readable

LEMMA PassOKStep ==
  ASSUME Typed, Connected, [Next]_pubsubVars
  PROVE  PassOK'
<1>0. /\ read_fds \subseteq Fds /\ tmp_fds \cap Fds \subseteq read_fds
      /\ \A f \in read_fds : conn_of[f] \in Conns
      /\ conn_of \in [Fds -> Conns \cup {NoConn}]
      /\ server \in {"login", "flush"} => newsockfd \in read_fds
      /\ AcceptedInOrder /\ PassOK
  BY DEF Typed, TypeOK, NetTypeOK, BrokerTypeOK, DescriptorsOK, LoopOK, Connected
<1>1. CASE Select
  <2>1. /\ server' = "running" /\ tmp_fds' = Ready /\ UNCHANGED <<conn_of, up, link>>
    BY <1>1 DEF Select, netVars
  <2>2. \A i \in Ready \cap Fds : Readable(conn_of[i])
    BY Numbers DEF Ready, STDIN_FILENO, sockfd_tcp, sockfd_udp
  <2> QED BY <2>1, <2>2 DEF PassOK, Readable
<1>2. CASE accept_client
  <2>1. PICK f \in Fds \ read_fds :
           /\ f \notin tmp_fds /\ newsockfd' = f
           /\ conn_of' = [conn_of EXCEPT ![f] = Head(backlog)]
           /\ UNCHANGED <<tmp_fds, link, up>>
    BY <1>2, AcceptEffect
  <2> QED BY <1>0, <2>1 DEF PassOK, Readable
<1>3. CASE login(id)
  <2>1. /\ server = "login" /\ newsockfd \in read_fds /\ UNCHANGED conn_of
        /\ tmp_fds' \subseteq tmp_fds
        /\ (server' = "flush" /\ UNCHANGED newsockfd) \/ server' = "running"
    BY <1>3, LoginEffect
  <2>2. ASSUME NEW i \in tmp_fds \cap Fds
        PROVE  Readable(conn_of[i])'
    <3>1. i \in read_fds /\ i # newsockfd /\ conn_of[i] # conn_of[newsockfd]
      BY <1>0, <2>1 DEF PassOK, AcceptedInOrder
    <3>2. ~ \E f \in Fds : recv_command(f) \/ client_closed(f)
      BY <2>1 DEF recv_command, client_closed, At
    <3> QED BY <1>0, <2>1, <3>1, <3>2, StaysReadableInPass
  <2> QED BY <1>0, <2>1, <2>2 DEF PassOK
<1>4. ASSUME NEW f \in Fds, recv_command(f) \/ client_closed(f)
      PROVE  PassOK'
  <2>1. /\ server = "running" /\ f \in read_fds /\ f \in tmp_fds /\ \A j \in tmp_fds : f <= j
        /\ tmp_fds' = tmp_fds \ {f} /\ UNCHANGED server
        /\ conn_of' = conn_of \/ conn_of' = [conn_of EXCEPT ![f] = NoConn]
    <3>1. At(f)
      BY <1>4 DEF recv_command, client_closed
    <3> QED BY <1>4, <3>1, RecvCommandEffect, ClientClosedEffect DEF At
  <2>2. ASSUME NEW g \in Fds, recv_command(g) \/ client_closed(g)
        PROVE  g = f
    <3>1. At(g)
      BY <2>2 DEF recv_command, client_closed
    <3> QED BY <2>1, <3>1, Numbers DEF At
  <2>3. ASSUME NEW i \in tmp_fds' \cap Fds
        PROVE  Readable(conn_of[i])'
    <3>1. i \in tmp_fds \cap Fds /\ i \in read_fds /\ i # f /\ conn_of'[i] = conn_of[i]
      BY <1>0, <2>1
    <3>2. conn_of[f] # conn_of[i]
      BY <1>0, <2>1, <3>1 DEF AcceptedInOrder
    <3>3. ~login(id)
      BY <2>1 DEF login
    <3>4. \A g \in Fds : recv_command(g) \/ client_closed(g) => conn_of[g] # conn_of[i]
      BY <2>2, <3>2
    <3> QED BY <1>0, <3>1, <3>3, <3>4, StaysReadableInPass
  <2> QED BY <2>1, <2>3 DEF PassOK
<1>5. CASE /\ UNCHANGED conn_of /\ tmp_fds' \subseteq tmp_fds
           /\ server' \in {"login", "flush"} => UNCHANGED <<server, newsockfd>>
           /\ ~login(id) /\ ~ \E f \in Fds : recv_command(f) \/ client_closed(f)
  <2>1. ASSUME NEW i \in tmp_fds' \cap Fds
        PROVE  Readable(conn_of[i])'
    BY <1>0, <1>5, StaysReadableInPass
  <2> QED BY <1>0, <1>5, <2>1 DEF PassOK
<1>6. CASE (\E c \in Conns : Connect(c)) /\ UNCHANGED brokerVars
  <2>1. UNCHANGED <<conn_of, tmp_fds, server, newsockfd, up>>
    BY <1>6 DEF Connect, brokerVars, loopVars
  <2>2. CASE login(id) \/ \E f \in Fds : recv_command(f) \/ client_closed(f)
    BY <1>3, <1>4, <2>2
  <2> QED BY <1>5, <2>1, <2>2
<1> QED BY <1>1, <1>2, <1>3, <1>4, <1>5, <1>6, Steps
LEMMA ConnectedAlways == Spec => []Connected
<1>1. Init => Connected
  <2> SUFFICES ASSUME Init PROVE Connected
    OBVIOUS
  <2>1. /\ read_fds = {} /\ tmp_fds = {} /\ backlog = <<>> /\ server = "running"
        /\ proc = [c \in Conns |-> "none"]
    BY DEF Init, NetInit, BrokerInit, SubInit
  <2> QED BY <2>1 DEF Connected, AcceptedInOrder, StartedInOrder, PassOK
<1>2. Typed /\ Connected /\ [Next]_pubsubVars => Connected'
  BY AcceptedInOrderStep, StartedInOrderStep, PassOKStep DEF Connected
<1> QED BY <1>1, <1>2, TypedAlways, PTL DEF Spec

(* Nothing a pass does on one descriptor, and nothing clients do meanwhile, *)
(* takes away what select reported of another one: recv never blocks the   *)
(* broker, nor reads from a client that was given the descriptor since.    *)
THEOREM PassesNeverBlock == Spec => []PassNeverBlocks
<1>1. Typed /\ Connected => PassNeverBlocks
  BY DEF Typed, LoopOK, Connected, PassOK, PassNeverBlocks
<1> QED BY <1>1, TypedAlways, ConnectedAlways, PTL
-----------------------------------------------------------------------------
(* Who is who.                                                             *)

LEMMA GoneStays ==
  ASSUME Typed, [Next]_pubsubVars, NEW d \in Conns, link[d] = "gone"
  PROVE  link'[d] = "gone"
<1>0. /\ link \in [Conns -> Links] /\ got \in [Conns -> Seq(Records)]
      /\ \A f \in read_fds : conn_of[f] \in Conns
      /\ proc[d] = "done"
  BY DEF Typed, TypeOK, NetTypeOK, DescriptorsOK, BrokerTypeOK, CommandsOnly
<1>1. ASSUME NEW c \in Conns, NEW r \in Records, Send(c, r)
      PROVE  link'[d] = "gone"
  BY <1>0, <1>1, SendEffect
<1>2. CASE BrokerNext
  <2>1. CASE Select \/ accept_client \/ accept_fails \/ recv_udp \/ type_exit
             \/ \E f \in Fds : recv_command(f) \/ recv_error(f)
    <3>1. UNCHANGED link
      BY <2>1 DEF Select, accept_client, accept_fails, recv_udp, type_exit, recv_command,
         recv_error, netVars
    <3> QED BY <3>1
  <2>2. CASE flush
    <3>1. newsockfd \in read_fds /\ (UNCHANGED link \/ \E r \in Records : Send(conn_of[newsockfd], r))
      BY <2>2, FlushEffect
    <3> QED BY <1>0, <1>1, <3>1
  <2>3. CASE fanout
    <3> DEFINE n == topics[published[handled]][it]
    <3>1. UNCHANGED link \/ (Online(n) /\ \E r \in Records : Send(conn_of[id_to_sock[n]], r))
      BY <2>3, FanoutEffect
    <3> QED BY <1>0, <1>1, <3>1 DEF Online
  <2>4. CASE broadcast
    <3>1. UNCHANGED link \/ \E f \in ToldNext : Send(conn_of[f], ExitRecord)
      BY <2>4, BroadcastEffect
    <3> QED BY <1>0, <1>1, <3>1, ExitRecordTyped DEF ToldNext
  <2>5. CASE login(id)
    <3> DEFINE c == conn_of[newsockfd]
    <3>1. link' = IF up[c] = <<>> /\ link[c] = "reset" THEN [link EXCEPT ![c] = "dead"]
                  ELSE link
      BY <2>5, LoginEffect
    <3> HIDE DEF c
    <3> QED BY <1>0, <3>1
  <2>6. ASSUME NEW f \in Fds, client_closed(f)
        PROVE  link'[d] = "gone"
    <3>1. link' = [link EXCEPT ![conn_of[f]] = "gone"]
      BY <2>6, ClientClosedEffect
    <3> QED BY <1>0, <3>1
  <2> QED BY <1>2, <2>1, <2>2, <2>3, <2>4, <2>5, <2>6 DEF BrokerNext, BrokerStep
<1>3. ASSUME NEW c \in Conns, SubscriberNext(c)
      PROVE  link'[d] = "gone"
  <2>1. CASE Connect(c)
    <3>1. proc[c] = "none" /\ link' = [link EXCEPT ![c] = "open"]
      BY <2>1 DEF Connect
    <3> QED BY <1>0, <3>1
  <2>2. CASE Leave(c) \/ ReceiveExit(c)
    <3>1. proc[c] # "done" /\ \E l \in {"fin", "reset"} : link' = [link EXCEPT ![c] = l]
      BY <1>0, <2>2, CloseEffect DEF Leave, ReceiveExit
    <3> QED BY <1>0, <3>1
  <2>3. CASE SendId(c) \/ TypeCommand(c) \/ ConnectionLost(c)
    BY <2>3 DEF SendId, TypeCommand, ConnectionLost, netVars
  <2> QED BY <1>3, <2>1, <2>2, <2>3 DEF SubscriberNext, SubNext
<1>4. CASE Publish \/ TypeExit \/ UNCHANGED pubsubVars
  BY <1>4 DEF Publish, TypeExit, pubsubVars, netVars
<1> QED BY <1>2, <1>3, <1>4 DEF Next

(* A client that was logged in stays so, in the sense of LoggedIn.         *)
LEMMA LoggedInStays ==
  ASSUME Typed, [Next]_pubsubVars, NEW d \in Conns, LoggedIn(d)
  PROVE  LoggedIn(d)'
<1>0. /\ conn_of \in [Fds -> Conns \cup {NoConn}] /\ link \in [Conns -> Links]
      /\ read_fds \subseteq Fds /\ 0 \notin read_fds
  BY Numbers DEF Typed, TypeOK, NetTypeOK, BrokerTypeOK
<1>1. CASE link[d] = "gone"
  BY <1>1, GoneStays DEF LoggedIn
<1>2. ASSUME NEW f \in Settled, conn_of[f] = d
      PROVE  LoggedIn(d)'
  <2>1. f \in read_fds /\ f # newsockfd
    BY DEF Settled
  <2>2. CASE accept_client
    <3>1. PICK g \in Fds \ read_fds :
             /\ conn_of' = [conn_of EXCEPT ![g] = Head(backlog)]
             /\ read_fds' = read_fds \cup {g} /\ newsockfd' = g
      BY <2>2, AcceptEffect
    <3>2. f \in Settled' /\ conn_of'[f] = d
      BY <1>0, <1>2, <2>1, <3>1 DEF Settled
    <3> QED BY <3>2 DEF LoggedIn
  <2>3. CASE \E g \in Fds : client_closed(g)
    <3>1. PICK g \in Fds : client_closed(g)
      BY <2>3
    <3>2. /\ conn_of' = [conn_of EXCEPT ![g] = NoConn] /\ link' = [link EXCEPT ![conn_of[g]] = "gone"]
          /\ read_fds' = read_fds \ {g} /\ UNCHANGED newsockfd
      BY <3>1, ClientClosedEffect DEF loopVars
    <3>3. CASE g = f
      BY <1>0, <1>2, <3>2, <3>3 DEF LoggedIn
    <3>4. CASE g # f
      <4>1. f \in Settled' /\ conn_of'[f] = d
        BY <1>0, <1>2, <2>1, <3>2, <3>4 DEF Settled
      <4> QED BY <4>1 DEF LoggedIn
    <3> QED BY <3>3, <3>4
  <2>4. CASE UNCHANGED <<read_fds, conn_of>> /\ newsockfd' \in {newsockfd, 0}
    <3>1. f \in Settled' /\ conn_of'[f] = d
      BY <1>0, <1>2, <2>1, <2>4 DEF Settled
    <3> QED BY <3>1 DEF LoggedIn
  <2>5. CASE \/ Select \/ login(id) \/ \E g \in Fds : recv_command(g)
             \/ UNCHANGED brokerVars /\ \E c \in Conns : Connect(c)
    <3>1. UNCHANGED <<read_fds, conn_of>> /\ newsockfd' \in {newsockfd, 0}
      BY <2>5, LoginEffect DEF Select, recv_command, Connect, brokerVars, netVars, loopVars
    <3> QED BY <2>4, <3>1
  <2> QED BY <2>2, <2>3, <2>4, <2>5, Steps
<1> QED BY <1>1, <1>2 DEF LoggedIn
(* The id a program was started with.                                      *)
LEMMA IdStays ==
  ASSUME Typed, [Next]_pubsubVars, NEW d \in Conns, proc[d] # "none"
  PROVE  id'[d] = id[d]
<1>1. CASE (\E c \in Conns : Connect(c)) /\ UNCHANGED brokerVars
  <2>1. PICK c \in Conns : proc[c] = "none" /\ \E i \in Ids : id' = [id EXCEPT ![c] = i]
    BY <1>1, ConnectEffect
  <2> QED BY <2>1 DEF Typed, TypeOK, SubTypeOK
<1>2. CASE UNCHANGED subVars \/ UNCHANGED id
  BY <1>2 DEF subVars
<1> QED BY <1>1, <1>2, Steps

LEMMA LoggedInStarted ==
  ASSUME Typed, Connected, NEW d \in Conns, LoggedIn(d)
  PROVE  proc[d] # "none"
BY DEF LoggedIn, Settled, Typed, TypeOK, NetTypeOK, SubTypeOK, CommandsOnly, Connected, StartedInOrder

(* Who a client is remains known while the tables and its descriptor stay. *)
LEMMA OnRecordStays ==
  ASSUME Typed, Connected, OnRecord, [Next]_pubsubVars, NEW f \in Settled,
         conn_of'[f] = conn_of[f], sock_to_id'[f] = sock_to_id[f],
         id_to_sock'[sock_to_id[f]] = id_to_sock[sock_to_id[f]]
  PROVE  LET n == sock_to_id'[f]
         IN \/ n = Anonymous
            \/ id_to_sock'[n] = f
            \/ \E d \in Conns : d > conn_of'[f] /\ id'[d] = n /\ LoggedIn(d)'
<1> DEFINE n == sock_to_id[f]
<1>1. CASE n = Anonymous \/ id_to_sock[n] = f
  BY <1>1
<1>2. ASSUME NEW d \in Conns, d > conn_of[f], id[d] = n, LoggedIn(d)
      PROVE  d > conn_of'[f] /\ id'[d] = n /\ LoggedIn(d)'
  BY <1>2, LoggedInStarted, IdStays, LoggedInStays
<1> QED BY <1>1, <1>2 DEF OnRecord

LEMMA KnownKept ==
  ASSUME Typed, Connected, Known, [Next]_pubsubVars,
         UNCHANGED <<sock_to_id, id_to_sock>>,
         Registered' \subseteq Registered, Settled' \subseteq Settled,
         \A f \in Registered' \cup Settled' : conn_of'[f] = conn_of[f],
         server' = "flush" => UNCHANGED <<server, newsockfd>>,
         \A f \in Settled' : sf_messages'[sock_to_id[f]] = sf_messages[sock_to_id[f]]
                           \/ id_to_sock[sock_to_id[f]] # f
  PROVE  Known'
<1>1. NamesKnown'
  <2> SUFFICES ASSUME NEW f \in Registered'
               PROVE  sock_to_id'[f] \in {id'[conn_of'[f]], conn_of'[f], Anonymous}
    BY DEF NamesKnown
  <2>1. f \in Registered /\ conn_of[f] \in Conns /\ proc[conn_of[f]] # "none"
    BY DEF Registered, Typed, TypeOK, NetTypeOK, BrokerTypeOK, DescriptorsOK, Connected, StartedInOrder
  <2>2. PICK d \in Conns : d = conn_of[f]
    BY <2>1
  <2>3. id'[d] = id[d]
    BY <2>1, <2>2, IdStays
  <2> QED BY <2>1, <2>2, <2>3 DEF Known, NamesKnown
<1>2. OnRecord'
  <2> SUFFICES ASSUME NEW f \in Settled'
               PROVE  LET n == sock_to_id'[f]
                      IN \/ n = Anonymous
                         \/ id_to_sock'[n] = f
                         \/ \E d \in Conns : d > conn_of'[f] /\ id'[d] = n /\ LoggedIn(d)'
    BY DEF OnRecord
  <2>1. f \in Settled
    OBVIOUS
  <2>2. PICK g \in Settled : g = f
    BY <2>1
  <2>3. LET n == sock_to_id'[g]
        IN \/ n = Anonymous
           \/ id_to_sock'[n] = g
           \/ \E d \in Conns : d > conn_of'[g] /\ id'[d] = n /\ LoggedIn(d)'
    BY <2>2, OnRecordStays DEF Known
  <2> QED BY <2>2, <2>3
<1>3. FlushedOnRecord'
  BY DEF Known, FlushedOnRecord
<1>4. NothingStoredForOnline'
  BY DEF Known, NothingStoredForOnline
<1> QED BY <1>1, <1>2, <1>3, <1>4 DEF Known
(* A login enters the client under its new descriptor.  If the same id is  *)
(* still connected elsewhere nothing is stored for it, so that the login   *)
(* is complete at once and is the later one OnRecord asks for.             *)
LEMMA LoginKnown ==
  ASSUME Typed, Connected, Known, [Next]_pubsubVars, login(id), UNCHANGED subVars
  PROVE  Known'
<1> DEFINE c == conn_of[newsockfd]
           n == ReceivedId(c, id)
<1>0. /\ sock_to_id \in [Fds -> Names] /\ id_to_sock \in [Names -> Fds \cup {0}]
      /\ id \in [Conns -> Ids \cup {Anonymous}] /\ Conns \subseteq Nat
      /\ read_fds \subseteq Fds /\ \A f \in read_fds : conn_of[f] \in Conns
  BY Numbers DEF Typed, TypeOK, NetTypeOK, BrokerTypeOK, SubTypeOK, DescriptorsOK
<1>1. /\ newsockfd \in read_fds /\ c \in Conns /\ n \in Names /\ n \in {id[c], c, Anonymous}
      /\ server = "login"
      /\ sock_to_id' = [sock_to_id EXCEPT ![newsockfd] = n]
      /\ id_to_sock' = [id_to_sock EXCEPT ![n] = newsockfd]
      /\ \/ /\ server' = "flush" /\ sf_messages[n] # <<>> /\ UNCHANGED newsockfd
         \/ /\ server' = "running" /\ newsockfd' = 0 /\ sf_messages[n] = <<>>
      /\ UNCHANGED <<read_fds, sf_messages, conn_of>> /\ id' = id
  BY LoginEffect DEF subVars
<1> HIDE DEF c, n
<1>2. 0 \notin read_fds
  BY <1>0, Numbers
<1>3. \A f \in read_fds \ {newsockfd} :
        f \in Registered /\ f \in Settled /\ sock_to_id'[f] = sock_to_id[f] /\ sock_to_id[f] \in Names
  BY <1>0, <1>1 DEF Registered, Settled
<1>4. sock_to_id'[newsockfd] = n /\ id_to_sock'[n] = newsockfd
      /\ \A m \in Names \ {n} : id_to_sock'[m] = id_to_sock[m]
  BY <1>0, <1>1
<1>5. NamesKnown'
  <2> SUFFICES ASSUME NEW f \in Registered'
               PROVE  sock_to_id'[f] \in {id'[conn_of'[f]], conn_of'[f], Anonymous}
    BY DEF NamesKnown
  <2>1. f \in read_fds
    BY <1>1 DEF Registered
  <2>2. CASE f = newsockfd
    BY <1>1, <1>4, <2>2 DEF c
  <2>3. CASE f # newsockfd
    BY <1>1, <1>3, <2>1, <2>3 DEF Known, NamesKnown
  <2> QED BY <2>2, <2>3
<1>6. OnRecord'
  <2> SUFFICES ASSUME NEW f \in Settled'
               PROVE  LET m == sock_to_id'[f]
                      IN \/ m = Anonymous
                         \/ id_to_sock'[m] = f
                         \/ \E d \in Conns : d > conn_of'[f] /\ id'[d] = m /\ LoggedIn(d)'
    BY DEF OnRecord
  <2>1. f \in read_fds
    BY <1>1 DEF Settled
  <2>2. CASE f = newsockfd
    BY <1>4, <2>2
  <2>3. CASE f # newsockfd /\ sock_to_id[f] # n
    BY <1>1, <1>3, <1>4, <2>1, <2>3, OnRecordStays DEF Known
  <2>4. CASE f # newsockfd /\ sock_to_id[f] = n /\ n # Anonymous /\ id_to_sock[n] = f
    <3>1. sf_messages[n] = <<>>
      BY <1>3, <2>1, <2>4 DEF Known, NothingStoredForOnline
    <3>2. server' = "running" /\ newsockfd' = 0
      BY <1>1, <3>1
    <3>3. c > conn_of[f] /\ conn_of[f] \in Conns
      BY <1>0, <1>1, <2>1, <2>4 DEF Connected, AcceptedInOrder, c
    <3>4. n \in {id[conn_of[f]], conn_of[f], Anonymous}
      BY <1>3, <2>1, <2>4 DEF Known, NamesKnown
    <3>5. n # c
      <4>1. id[conn_of[f]] \notin Conns
        BY <1>0, <3>3, NamesApart, Zenon
      <4>2. c \in Conns /\ Conns \subseteq Nat
        BY <1>0, <1>1
      <4>3. c # conn_of[f]
        <5> HIDE DEF c
        <5> QED BY <3>3, <4>2, SMT
      <4> QED BY <2>4, <3>4, <4>1, <4>2, <4>3
    <3>6. id[c] = n
      BY <1>1, <2>4, <3>5
    <3>7. newsockfd \in Settled' /\ conn_of'[newsockfd] = c
      BY <1>1, <1>2, <3>2 DEF Settled, c
    <3>8. PICK d \in Conns : d = c
      BY <1>1
    <3>9. LoggedIn(d)'
      BY <3>7, <3>8 DEF LoggedIn
    <3> QED BY <1>1, <1>3, <2>1, <2>4, <3>3, <3>6, <3>8, <3>9
  <2>5. CASE f # newsockfd /\ sock_to_id[f] = n /\ n # Anonymous /\ id_to_sock[n] # f
    <3>1. PICK d \in Conns : d > conn_of[f] /\ id[d] = n /\ LoggedIn(d)
      BY <1>3, <2>1, <2>5 DEF Known, OnRecord
    <3>2. LoggedIn(d)'
      BY <3>1, LoggedInStays
    <3> QED BY <1>1, <1>3, <2>1, <2>5, <3>1, <3>2
  <2> QED BY <1>3, <2>1, <2>2, <2>3, <2>4, <2>5
<1>7. FlushedOnRecord'
  BY <1>1, <1>4 DEF FlushedOnRecord
<1>8. NothingStoredForOnline'
  <2> SUFFICES ASSUME NEW f \in Settled', id_to_sock'[sock_to_id'[f]] = f
               PROVE  sf_messages'[sock_to_id'[f]] = <<>>
    BY DEF NothingStoredForOnline
  <2>1. f \in read_fds /\ f # newsockfd'
    BY <1>1 DEF Settled
  <2>2. CASE f = newsockfd
    BY <1>1, <1>4, <2>1, <2>2
  <2>3. CASE f # newsockfd
    <3>1. sock_to_id[f] # n
      BY <1>3, <1>4, <2>1, <2>3
    <3> QED BY <1>1, <1>3, <1>4, <2>1, <2>3, <3>1 DEF Known, NothingStoredForOnline
  <2> QED BY <2>2, <2>3
<1> QED BY <1>5, <1>6, <1>7, <1>8 DEF Known
(* The client whose stored messages are sent is entered already; when the  *)
(* last one is sent nothing is stored for it.                              *)
LEMMA FlushKnown ==
  ASSUME Typed, Connected, Known, [Next]_pubsubVars, flush, UNCHANGED subVars
  PROVE  Known'
<1> DEFINE n == sock_to_id[newsockfd]
<1>1. /\ server = "flush" /\ newsockfd \in read_fds /\ n \in Names
      /\ UNCHANGED <<read_fds, sock_to_id, id_to_sock, conn_of>> /\ id' = id
  BY FlushEffect DEF tables, subVars
<1>2. \/ /\ server' \in {"flush", "died"} /\ UNCHANGED <<newsockfd, sf_messages>>
      \/ /\ server' = "running" /\ newsockfd' = 0
         /\ sf_messages' = [sf_messages EXCEPT ![n] = <<>>]
  BY FlushEffect DEF loopVars
<1>3. Registered' = read_fds /\ Registered = read_fds
  BY <1>1, <1>2 DEF Registered
<1>4. CASE server' \in {"flush", "died"} /\ UNCHANGED <<newsockfd, sf_messages>>
  <2>1. Settled' = Settled
    BY <1>1, <1>4 DEF Settled
  <2> QED BY <1>1, <1>3, <1>4, <2>1, KnownKept
<1>5. CASE /\ server' = "running" /\ newsockfd' = 0
           /\ sf_messages' = [sf_messages EXCEPT ![n] = <<>>]
  <2>1. sf_messages'[n] = <<>> /\ \A m \in Names : sf_messages'[m] \in {sf_messages[m], <<>>}
    BY <1>1, <1>5 DEF Typed, TypeOK, BrokerTypeOK
  <2>2. \A f \in read_fds : sock_to_id[f] \in Names
    BY DEF Typed, TypeOK, BrokerTypeOK
  <2> HIDE DEF n
  <2>3. NamesKnown'
    BY <1>1, <1>3 DEF Known, NamesKnown
  <2>4. OnRecord'
    <3> SUFFICES ASSUME NEW f \in Settled'
                 PROVE  LET m == sock_to_id'[f]
                        IN \/ m = Anonymous
                           \/ id_to_sock'[m] = f
                           \/ \E d \in Conns : d > conn_of'[f] /\ id'[d] = m /\ LoggedIn(d)'
      BY DEF OnRecord
    <3>1. CASE f = newsockfd
      BY <1>1, <3>1 DEF Known, FlushedOnRecord
    <3>2. CASE f # newsockfd
      <4>1. f \in Settled
        BY <1>1, <3>2 DEF Settled
      <4> QED BY <1>1, <4>1, OnRecordStays DEF Known
    <3> QED BY <3>1, <3>2
  <2>5. FlushedOnRecord'
    BY <1>5 DEF FlushedOnRecord
  <2>6. NothingStoredForOnline'
    <3> SUFFICES ASSUME NEW f \in Settled', id_to_sock'[sock_to_id'[f]] = f
                 PROVE  sf_messages'[sock_to_id'[f]] = <<>>
      BY DEF NothingStoredForOnline
    <3>1. f \in read_fds
      BY <1>1 DEF Settled
    <3>2. CASE f = newsockfd
      BY <1>1, <2>1, <3>2 DEF n
    <3>3. CASE f # newsockfd
      <4>1. sf_messages[sock_to_id[f]] = <<>>
        BY <1>1, <3>1, <3>3 DEF Known, NothingStoredForOnline, Settled
      <4> QED BY <1>1, <2>1, <2>2, <3>1, <4>1
    <3> QED BY <3>2, <3>3
  <2> QED BY <2>3, <2>4, <2>5, <2>6 DEF Known
<1> QED BY <1>2, <1>4, <1>5

(* A message is stored for an id only when the descriptor on record for it *)
(* is not open.                                                            *)
LEMMA FanoutKnown ==
  ASSUME Typed, Connected, Known, [Next]_pubsubVars, fanout
  PROVE  Known'
<1> DEFINE t == published[handled]
           n == topics[t][it]
<1>1. /\ server = "fanout" /\ n \in Names
      /\ UNCHANGED <<read_fds, sock_to_id, id_to_sock, conn_of>>
  BY FanoutEffect DEF tables
<1>2. \/ server' = "died" /\ UNCHANGED <<newsockfd, sf_messages>>
      \/ NextSubscriber(t) /\ UNCHANGED sf_messages
      \/ NextSubscriber(t) /\ ~Online(n) /\ Store(n, t)
  BY FanoutEffect DEF loopVars
<1>3. server' # "flush" /\ server' # "login" /\ UNCHANGED newsockfd
  BY <1>1, <1>2 DEF NextSubscriber
<1>4. \/ UNCHANGED sf_messages
      \/ ~Online(n) /\ sf_messages' = [sf_messages EXCEPT ![n] = Append(@, handled)]
  BY <1>2 DEF Store
<1>5. \A f \in Settled' : sf_messages'[sock_to_id[f]] = sf_messages[sock_to_id[f]]
                        \/ id_to_sock[sock_to_id[f]] # f
  <2> SUFFICES ASSUME NEW f \in Settled', ~Online(n), sock_to_id[f] = n,
                      sf_messages' = [sf_messages EXCEPT ![n] = Append(@, handled)]
               PROVE  id_to_sock[n] # f
    BY <1>1, <1>4 DEF Settled, Typed, TypeOK, BrokerTypeOK
  <2> QED BY <1>1 DEF Online, Settled
<1>6. Registered' = Registered /\ Settled' = Settled
  BY <1>1, <1>3 DEF Registered, Settled
<1> QED BY <1>1, <1>3, <1>5, <1>6, KnownKept

LEMMA KnownStep ==
  ASSUME Typed, Connected, Known, [Next]_pubsubVars
  PROVE  Known'
<1>0. /\ read_fds \subseteq Fds /\ 0 \notin read_fds /\ conn_of \in [Fds -> Conns \cup {NoConn}]
  BY Numbers DEF Typed, TypeOK, BrokerTypeOK, NetTypeOK
<1>1. CASE accept_client
  <2>1. PICK f \in Fds \ read_fds :
           /\ conn_of' = [conn_of EXCEPT ![f] = Head(backlog)]
           /\ read_fds' = read_fds \cup {f} /\ newsockfd' = f
           /\ server = "running" /\ server' = "login"
           /\ UNCHANGED <<sock_to_id, id_to_sock, sf_messages>>
    BY <1>1, AcceptEffect DEF tables
  <2>2. Registered' = read_fds /\ Registered = read_fds /\ Settled' \subseteq read_fds
        /\ Settled' \subseteq Settled \cup {newsockfd}
    BY <2>1 DEF Registered, Settled
  <2>3. newsockfd \notin read_fds
    BY <1>0, <2>1 DEF Typed, LoopOK
  <2> QED BY <1>0, <2>1, <2>2, <2>3, KnownKept
<1>2. ASSUME NEW f \in Fds, client_closed(f)
      PROVE  Known'
  <2>1. /\ server = "running" /\ conn_of' = [conn_of EXCEPT ![f] = NoConn]
        /\ read_fds' = read_fds \ {f}
        /\ UNCHANGED <<server, newsockfd, sock_to_id, id_to_sock, sf_messages>>
    BY <1>2, ClientClosedEffect DEF loopVars, tables
  <2>2. /\ Registered' \subseteq Registered /\ Settled' \subseteq Settled
        /\ Registered' \cup Settled' \subseteq read_fds \ {f}
    BY <2>1 DEF Registered, Settled
  <2> QED BY <1>0, <2>1, <2>2, KnownKept
<1>3. CASE /\ UNCHANGED <<sock_to_id, id_to_sock, sf_messages, read_fds, conn_of, newsockfd>>
           /\ server = "login" => server' = "login"
           /\ server' = "flush" => server = "flush"
  <2>1. Registered' \subseteq Registered /\ Settled' = Settled
    BY <1>3 DEF Registered, Settled
  <2>2. \A f \in Registered' \cup Settled' : conn_of'[f] = conn_of[f]
    BY <1>3
  <2>3. \A f \in Settled' : sf_messages'[sock_to_id[f]] = sf_messages[sock_to_id[f]]
    BY <1>3
  <2> QED BY <1>3, <2>1, <2>2, <2>3, KnownKept
<1>4. CASE Select \/ accept_fails \/ recv_udp \/ type_exit \/ \E f \in Fds : recv_command(f) \/ recv_error(f)
  <2>1. /\ UNCHANGED <<sock_to_id, id_to_sock, sf_messages, read_fds, conn_of, newsockfd>>
        /\ server = "running" /\ server' # "flush"
    BY <1>4 DEF Select, accept_fails, recv_udp, type_exit, recv_command, recv_error, At, tables,
       netVars, loopVars
  <2> QED BY <1>3, <2>1
<1>5. CASE broadcast
  <2>1. /\ UNCHANGED <<sock_to_id, id_to_sock, sf_messages, read_fds, conn_of, newsockfd>>
        /\ server = "broadcast" /\ server' # "flush"
    BY <1>5 DEF broadcast, tables
  <2> QED BY <1>3, <2>1
<1>6. CASE Publish \/ TypeExit \/ UNCHANGED pubsubVars \/ \E c \in Conns : SubscriberNext(c)
  <2>1. UNCHANGED <<server, sock_to_id, id_to_sock, sf_messages, read_fds, conn_of, newsockfd>>
    BY <1>6 DEF Publish, TypeExit, pubsubVars, brokerVars, SubscriberNext, SubNext, Connect, SendId,
       TypeCommand, Leave, ReceiveExit, ConnectionLost, tables, netVars, loopVars
  <2> QED BY <1>3, <2>1
<1>7. CASE (login(id) \/ flush \/ fanout) /\ UNCHANGED subVars
  BY <1>7, LoginKnown, FlushKnown, FanoutKnown
<1> QED BY <1>1, <1>2, <1>4, <1>5, <1>6, <1>7 DEF Next, BrokerNext, BrokerStep

LEMMA KnownAlways == Spec => []Known
<1>1. Init => Known
  <2> SUFFICES ASSUME Init PROVE Known
    OBVIOUS
  <2>1. read_fds = {} /\ server = "running"
    BY DEF Init, NetInit, BrokerInit
  <2> QED BY <2>1 DEF Known, NamesKnown, OnRecord, FlushedOnRecord, NothingStoredForOnline,
             Registered, Settled
<1> QED BY <1>1, KnownStep, TypedAlways, ConnectedAlways, PTL DEF Spec

(* What arrives on a descriptor is taken for the client that logged in on  *)
(* it, and the descriptor on record for an id is that of its open          *)
(* connection unless the id logged in again later: reusing a descriptor, or *)
(* forgetting to erase its entries when a client leaves, confuses nobody.  *)
THEOREM BrokerKnowsItsClients == Spec => []KnowsItsClients
<1>1. Typed /\ Known => KnowsItsClients
  <2> SUFFICES ASSUME Typed, Known, NEW f \in Settled
               PROVE  LET c == conn_of[f]
                          n == sock_to_id[f]
                      IN /\ n \in {id[c], c, Anonymous}
                         /\ n # Anonymous =>
                              \/ id_to_sock[n] = f
                              \/ \E d \in Conns : d > c /\ id[d] = n /\ LoggedIn(d)
    BY DEF KnowsItsClients
  <2>1. f \in Registered
    BY DEF Registered, Settled
  <2> QED BY <2>1 DEF Known, NamesKnown, OnRecord
<1> QED BY <1>1, TypedAlways, KnownAlways, PTL
-----------------------------------------------------------------------------
(* What is sent and stored.                                                *)

(* A step that sends, stores and forgets nothing.                          *)
Quiet ==
  /\ UNCHANGED <<got, sf_messages, sock_to_id, id_to_sock, owed, handled, backlog, newsockfd>>
  /\ \A m \in 1..handled : published'[m] = published[m]
  /\ \A c \in Conns : proc'[c] = "none" <=> proc[c] = "none"
  /\ \/ server = "running" /\ server' \in {"running", "broadcast", "exited", "died"}
     \/ UNCHANGED <<server, it, read_fds, conn_of, topics, sf_clients>>

LEMMA Deliveries ==
  ASSUME Typed, [Next]_pubsubVars
  PROVE  \/ accept_client /\ UNCHANGED subVars
         \/ login(id) /\ UNCHANGED subVars
         \/ flush /\ UNCHANGED subVars
         \/ fanout /\ UNCHANGED subVars
         \/ broadcast /\ UNCHANGED subVars
         \/ recv_udp /\ UNCHANGED subVars
         \/ (\E c \in Conns : Connect(c)) /\ UNCHANGED brokerVars
         \/ Quiet
<1>1. CASE BrokerNext
  <2>1. CASE Select \/ accept_fails \/ type_exit
             \/ \E f \in Fds : recv_command(f) \/ client_closed(f) \/ recv_error(f)
    <3>1. /\ UNCHANGED <<got, sf_messages, sock_to_id, id_to_sock, owed, handled, backlog,
                         newsockfd, published>>
          /\ server = "running" /\ server' \in {"running", "broadcast", "exited", "died"}
      BY <2>1 DEF Select, accept_fails, type_exit, recv_command, client_closed, recv_error, At,
         tables, loopVars, netVars
    <3> QED BY <1>1, <3>1 DEF Quiet, BrokerNext, subVars
  <2> QED BY <1>1, <2>1 DEF BrokerNext, BrokerStep
<1>2. ASSUME NEW c \in Conns, SubscriberNext(c), ~Connect(c)
      PROVE  Quiet
  <2>1. UNCHANGED <<got, sf_messages, sock_to_id, id_to_sock, owed, handled, backlog, newsockfd,
                    published, server, it, read_fds, conn_of, topics, sf_clients>>
    BY <1>2 DEF SubscriberNext, SubNext, SendId, TypeCommand, Leave, ReceiveExit,
       ConnectionLost, netVars, loopVars, tables
  <2>2. proc[c] # "none" /\ \E p \in {"running", "done"} : proc' = [proc EXCEPT ![c] = p] \/ proc' = proc
    BY <1>2 DEF SubscriberNext, SubNext, SendId, TypeCommand, Sends, Leave, ReceiveExit, ConnectionLost
  <2>3. \A d \in Conns : proc'[d] = "none" <=> proc[d] = "none"
    BY <2>2 DEF Typed, TypeOK, SubTypeOK
  <2> QED BY <2>1, <2>3 DEF Quiet
<1>3. ASSUME NEW c \in Conns, SubscriberNext(c), Connect(c)
      PROVE  UNCHANGED brokerVars
  BY <1>3 DEF SubscriberNext, Connect, brokerVars
<1>4. CASE Publish
  <2>1. PICK t \in Topics : published' = Append(published, t)
    BY <1>4 DEF Publish
  <2>2. \A m \in 1..handled : published'[m] = published[m]
    BY <2>1 DEF Typed, TypeOK, NetTypeOK
  <2>3. UNCHANGED <<got, sf_messages, sock_to_id, id_to_sock, owed, handled, backlog, newsockfd,
                    server, it, read_fds, conn_of, topics, sf_clients, proc>>
    BY <1>4 DEF Publish, brokerVars, tables, loopVars, subVars
  <2> QED BY <2>2, <2>3 DEF Quiet
<1>5. CASE TypeExit \/ UNCHANGED pubsubVars
  BY <1>5 DEF TypeExit, Quiet, pubsubVars, brokerVars, netVars, loopVars, subVars, tables
<1> QED BY <1>1, <1>2, <1>3, <1>4, <1>5 DEF Next

(* What a connection has after a send: what it had, or the record.         *)
LEMMA GotAfterSend ==
  ASSUME Typed, NEW c \in Conns, NEW r \in Records, Send(c, r)
  PROVE  /\ \A d \in Conns : DOMAIN got[d] \subseteq DOMAIN got'[d]
         /\ \A d \in Conns : d # c => got'[d] = got[d]
         /\ Len(got[c]) \in Nat /\ DOMAIN got[c] = 1..Len(got[c])
         /\ DOMAIN got'[c] = 1..(Len(got[c]) + 1)
         /\ \A k \in 1..Len(got[c]) : got'[c][k] = got[c][k]
         /\ got'[c][Len(got[c]) + 1] = r
<1>1. got \in [Conns -> Seq(Records)] /\ got' = [got EXCEPT ![c] = Append(got[c], r)]
  BY SendEffect DEF Typed, TypeOK, NetTypeOK
<1>2. got'[c] = Append(got[c], r) /\ got[c] \in Seq(Records) /\ \A d \in Conns : d # c => got'[d] = got[d]
  BY <1>1
<1>3. /\ Len(got[c]) \in Nat /\ DOMAIN got[c] = 1..Len(got[c])
      /\ DOMAIN got'[c] = 1..(Len(got[c]) + 1)
      /\ \A k \in 1..Len(got[c]) : got'[c][k] = got[c][k]
      /\ got'[c][Len(got[c]) + 1] = r
  BY <1>2
<1>4. DOMAIN got[c] \subseteq DOMAIN got'[c]
  BY <1>3
<1> QED BY <1>2, <1>3, <1>4

(* Order is kept by a send of nothing older than what the connection has,  *)
(* if that does not include the exit command.                              *)
LEMMA SendInOrder ==
  ASSUME Typed, InOrder, NEW c \in Conns, NEW r \in Records, Send(c, r),
         \A k \in DOMAIN got[c] : got[c][k].msg # 0 /\ (r.msg = 0 \/ got[c][k].msg <= r.msg)
  PROVE  InOrder'
<1>1. /\ \A d \in Conns : d # c => got'[d] = got[d]
      /\ Len(got[c]) \in Nat /\ DOMAIN got[c] = 1..Len(got[c])
      /\ DOMAIN got'[c] = 1..(Len(got[c]) + 1)
      /\ \A k \in 1..Len(got[c]) : got'[c][k] = got[c][k]
      /\ got'[c][Len(got[c]) + 1] = r
  BY GotAfterSend
<1>2. ASSUME NEW j \in DOMAIN got'[c], NEW k \in DOMAIN got'[c], j < k
      PROVE  got'[c][j].msg # 0 /\ (got'[c][k].msg = 0 \/ got'[c][j].msg <= got'[c][k].msg)
  <2>1. j \in 1..Len(got[c]) /\ got'[c][j] = got[c][j]
    BY <1>1, <1>2
  <2>2. CASE k \in 1..Len(got[c])
    BY <1>1, <1>2, <2>1, <2>2 DEF InOrder
  <2>3. CASE k = Len(got[c]) + 1
    BY <1>1, <2>1, <2>3
  <2> QED BY <1>1, <2>2, <2>3
<1>3. ASSUME NEW d \in Conns, d # c, NEW j \in DOMAIN got'[d], NEW k \in DOMAIN got'[d], j < k
      PROVE  got'[d][j].msg # 0 /\ (got'[d][k].msg = 0 \/ got'[d][j].msg <= got'[d][k].msg)
  <2>1. got'[d] = got[d]
    BY <1>1, <1>3
  <2> QED BY <1>3, <2>1 DEF InOrder
<1> QED BY <1>2, <1>3, Zenon DEF InOrder

(* The parts of Ordered when nothing is sent or stored.                    *)
LEMMA OrderedKept ==
  ASSUME Typed, Ordered, UNCHANGED <<got, sf_messages>>,
         handled' \in Nat, handled <= handled',
         \A c \in Conns : proc'[c] = "none" => proc[c] = "none",
         \A k \in DOMAIN backlog' : got[backlog'[k]] = <<>>,
         server' = "login" => got[conn_of'[newsockfd']] = <<>>,
         server' = "flush" =>
           \A k \in DOMAIN got[conn_of'[newsockfd']] :
             got[conn_of'[newsockfd']][k].msg <= sf_messages[sock_to_id'[newsockfd']][it'],
         \/ server \notin {"broadcast", "exited", "died"}
         \/ server' \in {"exited", "died"}
         \/ UNCHANGED <<server, it, read_fds, conn_of>>
  PROVE  Ordered'
<1>0. /\ got \in [Conns -> Seq(Records)] /\ sf_messages \in [Names -> Seq(1..MaxMsgs)]
      /\ handled \in Nat /\ MaxMsgs \in Nat
  BY Numbers DEF Typed, TypeOK, NetTypeOK, BrokerTypeOK
<1>1. InOrder'
  BY DEF Ordered, InOrder
<1>2. StoredInOrder'
  <2>1. ASSUME NEW n \in Names, NEW k \in DOMAIN sf_messages[n]
        PROVE  sf_messages[n][k] <= handled'
    <3>1. sf_messages[n][k] \in 1..MaxMsgs
      BY <1>0, <2>1
    <3>2. sf_messages[n][k] <= handled
      BY <2>1 DEF Ordered, StoredInOrder
    <3> QED BY <1>0, <3>1, <3>2
  <2> QED BY <2>1 DEF Ordered, StoredInOrder
<1>3. GotInOrder'
  <2>1. ASSUME NEW c \in Conns, NEW k \in DOMAIN got[c]
        PROVE  got[c][k].msg <= handled'
    <3>1. got[c][k] \in Records
      BY <1>0, <2>1
    <3>2. got[c][k].msg \in 0..MaxMsgs
      BY <3>1 DEF Records
    <3>3. got[c][k].msg <= handled
      BY <2>1 DEF Ordered, GotInOrder
    <3> QED BY <1>0, <3>2, <3>3
  <2> QED BY <2>1 DEF Ordered, GotInOrder
<1>4. ExitIsLast'
  <2>1. CASE server \notin {"broadcast", "exited", "died"}
    BY <2>1 DEF Ordered, ExitIsLast
  <2>2. CASE server' \in {"exited", "died"}
    BY <2>2 DEF Ordered, ExitIsLast
  <2>3. CASE UNCHANGED <<server, it, read_fds, conn_of>>
    BY <2>3 DEF Ordered, ExitIsLast
  <2> QED BY <2>1, <2>2, <2>3
<1> QED BY <1>1, <1>2, <1>3, <1>4 DEF Ordered

(* A send by flush: what was stored is no older than what was sent before  *)
(* and no later than what is sent next.                                    *)
LEMMA FlushOrdered ==
  ASSUME Typed, Connected, Ordered, flush, UNCHANGED subVars
  PROVE  Ordered'
<1> DEFINE c == conn_of[newsockfd]
           n == sock_to_id[newsockfd]
           stored == sf_messages[n]
           r == [msg |-> stored[it], on |-> n]
<1>0. /\ server = "flush" /\ newsockfd \in read_fds /\ n \in Names /\ c \in Conns
      /\ stored \in Seq(1..MaxMsgs) /\ it \in 1..Len(stored) /\ r \in Records
      /\ proc' = proc
      /\ UNCHANGED <<read_fds, sock_to_id, backlog, conn_of, handled>>
      /\ proc[c] # "none" /\ \A k \in DOMAIN backlog : backlog[k] # c
      /\ sf_messages \in [Names -> Seq(1..MaxMsgs)] /\ backlog \in Seq(Conns)
      /\ handled \in Nat /\ Conns \subseteq Nat /\ MaxMsgs \in Nat
  <2>1. /\ server = "flush" /\ newsockfd \in read_fds /\ n \in Names
        /\ stored \in Seq(1..MaxMsgs) /\ it \in 1..Len(stored) /\ r \in Records
        /\ UNCHANGED <<read_fds, sock_to_id, backlog, conn_of, handled>>
    BY FlushEffect DEF tables
  <2>2. c \in Conns /\ sf_messages \in [Names -> Seq(1..MaxMsgs)] /\ backlog \in Seq(Conns) /\ handled \in Nat
    BY <2>1 DEF Typed, TypeOK, BrokerTypeOK, NetTypeOK, DescriptorsOK
  <2>3. \A k \in DOMAIN backlog : c < backlog[k] /\ backlog[k] \in Conns
    BY <2>1, <2>2 DEF Connected, AcceptedInOrder
  <2>4. proc[c] # "none"
    BY <2>1 DEF Connected, StartedInOrder
  <2> HIDE DEF c
  <2>5. \A k \in DOMAIN backlog : backlog[k] # c
    BY <2>2, <2>3, Numbers
  <2> QED BY <2>1, <2>2, <2>4, <2>5, Numbers DEF subVars
<1>1. CASE server' = "died" /\ UNCHANGED <<got, sf_messages, newsockfd, it>>
  BY <1>0, <1>1, OrderedKept DEF Ordered, GotInOrder
<1>2. CASE /\ Send(c, r)
           /\ \/ it < Len(stored) /\ it' = it + 1 /\ UNCHANGED <<server, newsockfd, sf_messages>>
              \/ it = Len(stored) /\ server' = "running" /\ sf_messages' = [sf_messages EXCEPT ![n] = <<>>]
  <2>1. PICK d \in Conns : d = c
    BY <1>0
  <2>2. PICK q \in Records : q = r
    BY <1>0
  <2>3. Send(d, q) /\ q.msg = stored[it] /\ stored[it] \in 1..MaxMsgs /\ stored[it] <= handled
    BY <1>0, <1>2, <2>1, <2>2 DEF Ordered, StoredInOrder
  <2>4. \A k \in DOMAIN got[d] : got[d][k].msg # 0 /\ got[d][k].msg <= stored[it]
    BY <1>0, <2>1 DEF Ordered, GotInOrder, ExitIsLast
  <2>5. /\ \A e \in Conns : e # d => got'[e] = got[e]
        /\ \A k \in DOMAIN got'[d] : got'[d][k] = q \/ (k \in DOMAIN got[d] /\ got'[d][k] = got[d][k])
    <3>1. /\ \A e \in Conns : e # d => got'[e] = got[e]
          /\ Len(got[d]) \in Nat /\ DOMAIN got[d] = 1..Len(got[d])
          /\ DOMAIN got'[d] = 1..(Len(got[d]) + 1)
          /\ \A k \in 1..Len(got[d]) : got'[d][k] = got[d][k]
          /\ got'[d][Len(got[d]) + 1] = q
      BY <2>3, GotAfterSend
    <3> QED BY <3>1
  <2>6. \A k \in DOMAIN got'[d] : got'[d][k].msg # 0 /\ got'[d][k].msg <= stored[it]
    BY <2>3, <2>4, <2>5
  <2> HIDE DEF c, n, stored, r
  <2>7. InOrder'
    BY <2>3, <2>4, SendInOrder DEF Ordered
  <2>8. StoredInOrder'
    <3>1. CASE UNCHANGED sf_messages
      BY <1>0, <3>1 DEF Ordered, StoredInOrder
    <3>2. CASE sf_messages' = [sf_messages EXCEPT ![n] = <<>>]
      <4>1. \A m \in Names : sf_messages'[m] = <<>> \/ sf_messages'[m] = sf_messages[m]
        BY <1>0, <3>2
      <4>2. DOMAIN <<>> = {}
        OBVIOUS
      <4> QED BY <1>0, <4>1, <4>2, Zenon DEF Ordered, StoredInOrder
    <3> QED BY <1>2, <3>1, <3>2
  <2>9. GotInOrder'
    <3>1. ASSUME NEW e \in Conns, NEW k \in DOMAIN got'[e]
          PROVE  got'[e][k].msg <= handled'
      <4>1. CASE e = d
        <5>1. got'[d][k].msg = stored[it] \/ got'[d][k].msg <= handled
          BY <2>3, <2>5, <3>1, <4>1 DEF Ordered, GotInOrder
        <5> QED BY <1>0, <2>3, <4>1, <5>1
      <4>2. CASE e # d
        BY <1>0, <2>5, <3>1, <4>2 DEF Ordered, GotInOrder
      <4> QED BY <4>1, <4>2
    <3>2. /\ \A e \in Conns : proc'[e] = "none" => got'[e] = <<>>
          /\ \A k \in DOMAIN backlog' : got'[backlog'[k]] = <<>>
      <4>1. \A e \in Conns : proc[e] = "none" => e # d
        BY <1>0, <2>1
      <4>2. \A k \in DOMAIN backlog : backlog[k] \in Conns /\ backlog[k] # d
        BY <1>0, <2>1
      <4>3. /\ \A e \in Conns : proc[e] = "none" => got[e] = <<>>
            /\ \A k \in DOMAIN backlog : got[backlog[k]] = <<>>
        BY DEF Ordered, GotInOrder
      <4>4. proc' = proc /\ backlog' = backlog
        BY <1>0
      <4> QED BY <2>5, <4>1, <4>2, <4>3, <4>4
    <3>3. ASSUME server' = "flush", NEW k \in DOMAIN got'[d]
          PROVE  got'[d][k].msg <= stored[it']
      <4>1. it < Len(stored) /\ it' = it + 1
        BY <1>2, <3>3
      <4>2. stored[it] <= stored[it + 1] /\ stored[it + 1] \in 1..MaxMsgs
        BY <1>0, <4>1 DEF Ordered, StoredInOrder, stored
      <4>3. \A j \in DOMAIN got[d] : got[d][j] \in Records
        BY DEF Typed, TypeOK, NetTypeOK
      <4>4. got'[d][k] \in Records
        BY <2>5, <3>3, <4>3
      <4>5. got'[d][k].msg \in 0..MaxMsgs
        BY <4>4 DEF Records
      <4>6. got'[d][k].msg <= stored[it] /\ stored[it] \in 1..MaxMsgs /\ MaxMsgs \in Nat
        BY <1>0, <2>3, <2>6
      <4> QED BY <4>1, <4>2, <4>5, <4>6
    <3>4. server' = "flush" => /\ conn_of'[newsockfd'] = d
                               /\ sf_messages'[sock_to_id'[newsockfd']] = stored
      BY <1>0, <1>2, <2>1 DEF c, n, stored
    <3>5. server' # "login"
      BY <1>0, <1>2
    <3> QED BY <3>1, <3>2, <3>3, <3>4, <3>5 DEF GotInOrder
  <2>10. ExitIsLast'
    <3>1. \A e \in Conns : \A k \in DOMAIN got[e] : got[e][k].msg # 0
      BY <1>0 DEF Ordered, ExitIsLast
    <3> QED BY <2>5, <2>6, <3>1 DEF ExitIsLast
  <2> QED BY <2>7, <2>8, <2>9, <2>10 DEF Ordered
<1> QED BY <1>1, <1>2, FlushEffect DEF loopVars

(* The datagram handled is the latest, for a connection as in the store.   *)
LEMMA FanoutOrdered ==
  ASSUME Typed, Connected, Ordered, fanout, UNCHANGED subVars
  PROVE  Ordered'
<1> DEFINE t == published[handled]
           n == topics[t][it]
           r == [msg |-> handled, on |-> n]
<1>0. /\ server = "fanout" /\ handled \in 1..MaxMsgs /\ n \in Names /\ r \in Records
      /\ proc' = proc /\ UNCHANGED <<read_fds, backlog, conn_of, handled>>
      /\ sf_messages \in [Names -> Seq(1..MaxMsgs)] /\ backlog \in Seq(Conns)
      /\ Conns \subseteq Nat /\ MaxMsgs \in Nat
  BY FanoutEffect, Numbers DEF subVars, Typed, TypeOK, BrokerTypeOK, NetTypeOK
<1>1. \/ server' = "died" /\ UNCHANGED <<got, sf_messages>>
      \/ /\ Online(n) /\ Send(conn_of[id_to_sock[n]], r)
         /\ server' \in {"fanout", "running"} /\ UNCHANGED sf_messages
      \/ /\ server' \in {"fanout", "running"} /\ UNCHANGED got
         /\ \/ UNCHANGED sf_messages
            \/ sf_messages' = [sf_messages EXCEPT ![n] = Append(sf_messages[n], handled)]
  BY FanoutEffect DEF NextSubscriber, Store, loopVars
<1> HIDE DEF n, r
<1>2. CASE UNCHANGED <<got, sf_messages>> /\ server' \in {"died", "fanout", "running"}
  <2>1. \A k \in DOMAIN backlog' : got[backlog'[k]] = <<>>
    BY <1>0 DEF Ordered, GotInOrder
  <2>2. handled \in Nat
    BY <1>0
  <2> QED BY <1>0, <1>2, <2>1, <2>2, OrderedKept
<1>3. CASE Online(n) /\ Send(conn_of[id_to_sock[n]], r)
           /\ server' \in {"fanout", "running"} /\ UNCHANGED sf_messages
  <2>1. PICK d \in Conns : d = conn_of[id_to_sock[n]] /\ proc[d] # "none"
                           /\ \A k \in DOMAIN backlog : backlog[k] \in Conns /\ backlog[k] # d
    <3>1. PICK f \in read_fds : f = id_to_sock[n]
      BY <1>3 DEF Online
    <3>2. conn_of[f] \in Conns /\ proc[conn_of[f]] # "none"
      BY DEF Typed, TypeOK, BrokerTypeOK, NetTypeOK, DescriptorsOK, Connected, StartedInOrder
    <3>3. PICK d \in Conns : d = conn_of[f]
      BY <3>2
    <3>4. \A k \in DOMAIN backlog : d < backlog[k] /\ backlog[k] \in Conns
      BY <1>0, <3>1, <3>3 DEF Connected, AcceptedInOrder
    <3>5. \A k \in DOMAIN backlog : backlog[k] # d
      BY <1>0, <3>4
    <3> QED BY <3>1, <3>2, <3>3, <3>4, <3>5
  <2>2. PICK q \in Records : q = r
    BY <1>0
  <2>3. Send(d, q) /\ q.msg = handled
    BY <1>3, <2>1, <2>2 DEF r
  <2>4. \A e \in Conns : \A k \in DOMAIN got[e] : got[e][k].msg # 0 /\ got[e][k].msg <= handled
    BY <1>0 DEF Ordered, GotInOrder, ExitIsLast
  <2>5. /\ \A e \in Conns : e # d => got'[e] = got[e]
        /\ \A k \in DOMAIN got'[d] : got'[d][k] = q \/ (k \in DOMAIN got[d] /\ got'[d][k] = got[d][k])
    <3>1. /\ \A e \in Conns : e # d => got'[e] = got[e]
          /\ Len(got[d]) \in Nat /\ DOMAIN got[d] = 1..Len(got[d])
          /\ DOMAIN got'[d] = 1..(Len(got[d]) + 1)
          /\ \A k \in 1..Len(got[d]) : got'[d][k] = got[d][k]
          /\ got'[d][Len(got[d]) + 1] = q
      BY <2>3, GotAfterSend
    <3> QED BY <3>1
  <2>6. InOrder'
    BY <2>3, <2>4, SendInOrder DEF Ordered
  <2>7. StoredInOrder'
    BY <1>0, <1>3 DEF Ordered, StoredInOrder
  <2>8. \A e \in Conns : \A k \in DOMAIN got'[e] : got'[e][k].msg # 0 /\ got'[e][k].msg <= handled
    <3> TAKE e \in Conns
    <3>1. CASE e = d
      <4>1. q.msg # 0 /\ q.msg <= handled
        BY <1>0, <2>3
      <4> QED BY <2>4, <2>5, <3>1, <4>1
    <3>2. CASE e # d
      BY <2>4, <2>5, <3>2
    <3> QED BY <3>1, <3>2
  <2>9. GotInOrder'
    <3>1. /\ \A e \in Conns : proc[e] = "none" => got[e] = <<>>
          /\ \A k \in DOMAIN backlog : got[backlog[k]] = <<>>
      BY DEF Ordered, GotInOrder
    <3>2. \A e \in Conns : proc'[e] = "none" => got'[e] = <<>>
      BY <1>0, <2>1, <2>5, <3>1
    <3>3. \A k \in DOMAIN backlog' : got'[backlog'[k]] = <<>>
      BY <1>0, <2>1, <2>5, <3>1
    <3> QED BY <1>0, <1>3, <2>8, <3>2, <3>3 DEF GotInOrder
  <2>10. ExitIsLast'
    BY <2>8 DEF ExitIsLast
  <2> QED BY <2>6, <2>7, <2>9, <2>10 DEF Ordered
<1>4. CASE /\ server' \in {"fanout", "running"} /\ UNCHANGED got
           /\ sf_messages' = [sf_messages EXCEPT ![n] = Append(sf_messages[n], handled)]
  <2>1. InOrder' /\ ExitIsLast'
    BY <1>0, <1>4 DEF Ordered, InOrder, ExitIsLast
  <2>2. GotInOrder'
    BY <1>0, <1>4 DEF Ordered, GotInOrder
  <2>3. StoredInOrder'
    <3> SUFFICES ASSUME NEW m \in Names
                 PROVE  /\ \A j, k \in DOMAIN sf_messages'[m] :
                             j < k => sf_messages'[m][j] <= sf_messages'[m][k]
                        /\ \A k \in DOMAIN sf_messages'[m] : sf_messages'[m][k] <= handled
      BY <1>0 DEF StoredInOrder
    <3>1. /\ \A j, k \in DOMAIN sf_messages[m] : j < k => sf_messages[m][j] <= sf_messages[m][k]
          /\ \A k \in DOMAIN sf_messages[m] : sf_messages[m][k] <= handled
      BY DEF Ordered, StoredInOrder
    <3>2. CASE m # n
      <4>1. sf_messages'[m] = sf_messages[m]
        BY <1>0, <1>4, <3>2
      <4> QED BY <3>1, <4>1
    <3>3. CASE m = n
      <4>1. sf_messages'[m] = Append(sf_messages[m], handled) /\ sf_messages[m] \in Seq(1..MaxMsgs)
        BY <1>0, <1>4, <3>3
      <4>2. /\ Len(sf_messages[m]) \in Nat /\ DOMAIN sf_messages[m] = 1..Len(sf_messages[m])
            /\ DOMAIN sf_messages'[m] = 1..(Len(sf_messages[m]) + 1)
            /\ \A k \in 1..Len(sf_messages[m]) : sf_messages'[m][k] = sf_messages[m][k]
            /\ sf_messages'[m][Len(sf_messages[m]) + 1] = handled
        BY <1>0, <4>1
      <4>3. \A k \in DOMAIN sf_messages'[m] : sf_messages'[m][k] <= handled
        <5> TAKE k \in DOMAIN sf_messages'[m]
        <5>1. CASE k \in 1..Len(sf_messages[m])
          BY <3>1, <4>2, <5>1
        <5>2. CASE k = Len(sf_messages[m]) + 1
          BY <1>0, <4>2, <5>2
        <5> QED BY <4>2, <5>1, <5>2
      <4>4. ASSUME NEW j \in DOMAIN sf_messages'[m], NEW k \in DOMAIN sf_messages'[m], j < k
            PROVE  sf_messages'[m][j] <= sf_messages'[m][k]
        <5>1. j \in 1..Len(sf_messages[m])
          BY <4>2, <4>4
        <5>2. CASE k \in 1..Len(sf_messages[m])
          BY <3>1, <4>2, <4>4, <5>1, <5>2
        <5>3. CASE k = Len(sf_messages[m]) + 1
          BY <4>2, <4>3, <5>3
        <5> QED BY <4>2, <4>4, <5>2, <5>3
      <4> QED BY <4>3, <4>4
    <3> QED BY <3>2, <3>3
  <2> QED BY <2>1, <2>2, <2>3 DEF Ordered
<1> QED BY <1>1, <1>2, <1>3, <1>4

(* The exit command goes to descriptors in ascending order.                *)
LEMMA BroadcastOrdered ==
  ASSUME Typed, Connected, Ordered, broadcast, UNCHANGED subVars
  PROVE  Ordered'
<1>0. /\ server = "broadcast" /\ proc' = proc /\ UNCHANGED <<read_fds, backlog, conn_of, handled, sf_messages>>
      /\ backlog \in Seq(Conns) /\ handled \in Nat /\ it \in Nat /\ read_fds \subseteq Fds
      /\ Conns \subseteq Nat /\ Fds \subseteq Nat
      /\ \A f \in read_fds : conn_of[f] \in Conns
  <2>1. /\ server = "broadcast"
        /\ UNCHANGED <<read_fds, backlog, conn_of, handled, sf_messages>>
    BY BroadcastEffect
  <2>2. backlog \in Seq(Conns) /\ handled \in Nat
    BY DEF Typed, TypeOK, NetTypeOK
  <2>3. it \in Nat /\ read_fds \subseteq Fds
    BY DEF Typed, TypeOK, BrokerTypeOK
  <2>4. \A f \in read_fds : conn_of[f] \in Conns
    BY DEF Typed, TypeOK, BrokerTypeOK, NetTypeOK, DescriptorsOK
  <2> QED BY <2>1, <2>2, <2>3, <2>4, Numbers DEF subVars
<1>1. CASE server' \in {"exited", "died"} /\ UNCHANGED <<got, it>>
  <2>1. \A k \in DOMAIN backlog' : got[backlog'[k]] = <<>>
    BY <1>0 DEF Ordered, GotInOrder
  <2> QED BY <1>0, <1>1, <2>1, OrderedKept
<1>2. ASSUME NEW f \in ToldNext, Send(conn_of[f], ExitRecord), it' = f, UNCHANGED server
      PROVE  Ordered'
  <2>1. PICK d \in Conns : d = conn_of[f]
    BY <1>0 DEF ToldNext
  <2>2. PICK q \in Records : q = ExitRecord /\ q.msg = 0
    BY ExitRecordTyped DEF ExitRecord
  <2>3. f \in read_fds /\ f > it /\ f \in Nat
    BY <1>0 DEF ToldNext
  <2>4. proc[d] # "none" /\ \A k \in DOMAIN backlog : backlog[k] # d
    <3>1. \A k \in DOMAIN backlog : d < backlog[k] /\ backlog[k] \in Conns
      BY <1>0, <2>1, <2>3 DEF Connected, AcceptedInOrder
    <3> QED BY <1>0, <2>1, <2>3, <3>1 DEF Connected, StartedInOrder
  <2>5. \A k \in DOMAIN got[d] : got[d][k].msg # 0
    <3> SUFFICES ASSUME NEW k \in DOMAIN got[d], got[d][k].msg = 0 PROVE FALSE
      OBVIOUS
    <3>1. PICK g \in read_fds : conn_of[g] = d /\ g <= it
      BY <1>0 DEF Ordered, ExitIsLast
    <3>2. g = f
      BY <2>1, <2>3, <3>1 DEF Connected, AcceptedInOrder
    <3> QED BY <1>0, <2>3, <3>1, <3>2
  <2>6. Send(d, q)
    BY <1>2, <2>1, <2>2
  <2>7. /\ \A e \in Conns : e # d => got'[e] = got[e]
        /\ \A k \in DOMAIN got'[d] : got'[d][k] = q \/ (k \in DOMAIN got[d] /\ got'[d][k] = got[d][k])
    <3>1. /\ \A e \in Conns : e # d => got'[e] = got[e]
          /\ Len(got[d]) \in Nat /\ DOMAIN got[d] = 1..Len(got[d])
          /\ DOMAIN got'[d] = 1..(Len(got[d]) + 1)
          /\ \A k \in 1..Len(got[d]) : got'[d][k] = got[d][k]
          /\ got'[d][Len(got[d]) + 1] = q
      BY <2>6, GotAfterSend
    <3> QED BY <3>1
  <2>8. InOrder'
    BY <2>2, <2>5, <2>6, SendInOrder DEF Ordered
  <2>9. StoredInOrder'
    BY <1>0 DEF Ordered, StoredInOrder
  <2>10. GotInOrder'
    <3>1. \A e \in Conns : \A k \in DOMAIN got'[e] : got'[e][k].msg <= handled
      <4> TAKE e \in Conns
      <4>1. CASE e = d
        BY <1>0, <2>2, <2>7, <4>1 DEF Ordered, GotInOrder
      <4>2. CASE e # d
        BY <2>7, <4>2 DEF Ordered, GotInOrder
      <4> QED BY <4>1, <4>2
    <3>2. \A k \in DOMAIN backlog : backlog[k] \in Conns
      BY <1>0
    <3>3. /\ \A e \in Conns : proc'[e] = "none" => got'[e] = <<>>
          /\ \A k \in DOMAIN backlog' : got'[backlog'[k]] = <<>>
      BY <1>0, <2>4, <2>7, <3>2 DEF Ordered, GotInOrder
    <3> QED BY <1>0, <1>2, <3>1, <3>3 DEF GotInOrder
  <2>11. ExitIsLast'
    <3> SUFFICES ASSUME NEW e \in Conns, NEW k \in DOMAIN got'[e], got'[e][k].msg = 0
                 PROVE  \E g \in read_fds : conn_of[g] = e /\ g <= f
      BY <1>0, <1>2 DEF ExitIsLast
    <3>1. CASE e = d
      BY <2>1, <2>3, <3>1
    <3>2. CASE e # d
      <4>1. PICK g \in read_fds : conn_of[g] = e /\ g <= it
        BY <1>0, <2>7, <3>2 DEF Ordered, ExitIsLast
      <4>2. g \in Nat
        BY <1>0
      <4> QED BY <1>0, <2>3, <4>1, <4>2
    <3> QED BY <3>1, <3>2
  <2> QED BY <2>8, <2>9, <2>10, <2>11 DEF Ordered
<1> QED BY <1>1, <1>2, BroadcastEffect

LEMMA OrderedStep ==
  ASSUME Typed, Connected, Ordered, [Next]_pubsubVars
  PROVE  Ordered'
<1>0. /\ handled \in Nat /\ backlog \in Seq(Conns) /\ got \in [Conns -> Seq(Records)]
      /\ \A k \in DOMAIN backlog : got[backlog[k]] = <<>>
      /\ \A c \in Conns : proc[c] = "none" => got[c] = <<>>
  BY DEF Typed, TypeOK, NetTypeOK, Ordered, GotInOrder
<1>1. CASE accept_client /\ UNCHANGED subVars
  <2>1. PICK f \in Fds \ read_fds :
           /\ conn_of' = [conn_of EXCEPT ![f] = Head(backlog)]
           /\ backlog' = Tail(backlog) /\ backlog # <<>> /\ newsockfd' = f
           /\ server = "running" /\ server' = "login"
           /\ UNCHANGED <<sf_messages, got, handled>>
    BY <1>1, AcceptEffect
  <2>2. Len(backlog) # 0
    BY <1>0, <2>1, EmptySeq
  <2>3. Head(backlog) = backlog[1] /\ 1 \in DOMAIN backlog
    BY <1>0, <2>2
  <2>4. \A k \in DOMAIN backlog' : got[backlog'[k]] = <<>>
    <3>1. /\ Tail(backlog) \in Seq(Conns) /\ Len(Tail(backlog)) = Len(backlog) - 1
          /\ \A k \in 1..Len(Tail(backlog)) : Tail(backlog)[k] = backlog[k + 1]
      BY <1>0, <2>1, HeadTailProperties
    <3> QED BY <1>0, <2>1, <3>1
  <2>5. got[conn_of'[newsockfd']] = <<>>
    BY <1>0, <2>1, <2>3 DEF Typed, TypeOK, NetTypeOK
  <2> QED BY <1>0, <1>1, <2>1, <2>4, <2>5, OrderedKept DEF subVars
<1>2. CASE login(id) /\ UNCHANGED subVars
  <2>1. /\ server = "login" /\ server' \in {"flush", "running"}
        /\ UNCHANGED <<sf_messages, got, backlog, conn_of, handled>>
        /\ server' = "flush" => newsockfd' = newsockfd
    BY <1>2, LoginEffect
  <2>2. got[conn_of[newsockfd]] = <<>>
    BY <2>1 DEF Ordered, GotInOrder
  <2>3. server' = "flush" => DOMAIN got[conn_of'[newsockfd']] = {}
    BY <2>1, <2>2
  <2> QED BY <1>0, <1>2, <2>1, <2>3, OrderedKept DEF subVars
<1>3. CASE (flush \/ fanout \/ broadcast) /\ UNCHANGED subVars
  BY <1>3, FlushOrdered, FanoutOrdered, BroadcastOrdered
<1>4. CASE recv_udp /\ UNCHANGED subVars
  <2>1. /\ server = "running" /\ server' \in {"running", "fanout"}
        /\ UNCHANGED <<sf_messages, got, backlog>> /\ handled' = handled + 1
    BY <1>4 DEF recv_udp, At
  <2> QED BY <1>0, <1>4, <2>1, OrderedKept DEF subVars
<1>5. CASE (\E c \in Conns : Connect(c)) /\ UNCHANGED brokerVars
  <2>1. PICK c \in Conns : Connect(c)
    BY <1>5
  <2>2. /\ proc[c] = "none" /\ proc' = [proc EXCEPT ![c] = "connected"]
        /\ backlog' = Append(backlog, c)
        /\ UNCHANGED <<got, conn_of, handled, sf_messages, server, newsockfd, it, read_fds, sock_to_id>>
    BY <1>5, <2>1, ConnectEffect DEF brokerVars, loopVars, tables
  <2>3. \A k \in DOMAIN backlog' : got[backlog'[k]] = <<>>
    <3>1. \A k \in DOMAIN Append(backlog, c) :
             \/ k \in DOMAIN backlog /\ Append(backlog, c)[k] = backlog[k]
             \/ Append(backlog, c)[k] = c
      BY <1>0
    <3> QED BY <1>0, <2>2, <3>1
  <2>4. \A d \in Conns : proc'[d] = "none" => proc[d] = "none"
    BY <2>2 DEF Typed, TypeOK, SubTypeOK
  <2>5. /\ server' = "login" => got[conn_of'[newsockfd']] = <<>>
        /\ server' = "flush" =>
             \A k \in DOMAIN got[conn_of'[newsockfd']] :
               got[conn_of'[newsockfd']][k].msg <= sf_messages[sock_to_id'[newsockfd']][it']
    BY <2>2 DEF Ordered, GotInOrder
  <2> QED BY <1>0, <2>2, <2>3, <2>4, <2>5, OrderedKept
<1>6. CASE Quiet
  <2>1. /\ UNCHANGED <<got, sf_messages, sock_to_id, handled, backlog, newsockfd>>
        /\ \A c \in Conns : proc'[c] = "none" <=> proc[c] = "none"
        /\ \/ server = "running" /\ server' \in {"running", "broadcast", "exited", "died"}
           \/ UNCHANGED <<server, it, read_fds, conn_of>>
    BY <1>6 DEF Quiet
  <2>2. /\ server' = "login" => got[conn_of'[newsockfd']] = <<>>
        /\ server' = "flush" =>
             \A k \in DOMAIN got[conn_of'[newsockfd']] :
               got[conn_of'[newsockfd']][k].msg <= sf_messages[sock_to_id'[newsockfd']][it']
    BY <2>1 DEF Ordered, GotInOrder
  <2> QED BY <1>0, <2>1, <2>2, OrderedKept
<1> QED BY <1>1, <1>2, <1>3, <1>4, <1>5, <1>6, Deliveries

LEMMA OrderedAlways == Spec => []Ordered
<1>1. Init => Ordered
  <2> SUFFICES ASSUME Init PROVE Ordered
    OBVIOUS
  <2>1. /\ \A c \in Conns : got[c] = <<>>
        /\ \A n \in Names : sf_messages[n] = <<>>
        /\ backlog = <<>> /\ server = "running"
    BY DEF Init, NetInit, BrokerInit
  <2> QED BY <2>1 DEF Ordered, InOrder, StoredInOrder, GotInOrder, ExitIsLast
<1> QED BY <1>1, OrderedStep, TypedAlways, ConnectedAlways, PTL DEF Spec

(* A connection gets messages in the order the broker received them, what  *)
(* was stored while its client was away before what is sent directly, and  *)
(* nothing after the exit command: however many clients log in, leave and  *)
(* come back while the broker is inside one of its sending loops.          *)
THEOREM DeliveredInOrder == Spec => []InOrder
<1>1. Ordered => InOrder
  BY DEF Ordered
<1> QED BY <1>1, OrderedAlways, PTL
-----------------------------------------------------------------------------
(* Exactly once.                                                           *)

LEMMA OwedInLoopStep ==
  ASSUME Typed, OwedInLoop, [Next]_pubsubVars
  PROVE  OwedInLoop'
<1>0. /\ handled \in Nat /\ owed \subseteq (1..MaxMsgs) \X Names
      /\ \A p \in owed : p[1] <= handled /\ p[1] \in Nat
  <2>1. handled \in Nat /\ owed \subseteq (1..MaxMsgs) \X Names
    BY DEF Typed, TypeOK, NetTypeOK, BrokerTypeOK
  <2>2. \A p \in owed : p[1] \in 1..MaxMsgs
    BY <2>1
  <2> QED BY <2>1, <2>2 DEF OwedInLoop
<1>1. CASE UNCHANGED <<owed, handled>> /\ server' # "fanout"
  BY <1>1 DEF OwedInLoop
<1>2. CASE /\ UNCHANGED <<owed, handled, topics, sf_clients, id_to_sock, read_fds>>
           /\ server' = "fanout" => server = "fanout" /\ published'[handled] = published[handled]
  <2>1. CASE server' # "fanout"
    BY <1>1, <1>2, <2>1
  <2>2. CASE server' = "fanout"
    <3>1. published'[handled'] = published[handled]
      BY <1>2, <2>2
    <3> QED BY <1>2, <2>2, <3>1 DEF OwedInLoop, Recipients, Online
  <2> QED BY <2>1, <2>2
<1>3. CASE accept_client \/ login(id) \/ broadcast
  <2>1. UNCHANGED <<owed, handled>> /\ server' # "fanout"
    BY <1>3, AcceptEffect, LoginEffect, BroadcastEffect
  <2> QED BY <1>1, <2>1
<1>4. CASE flush
  <2>1. UNCHANGED <<owed, handled>> /\ server' # "fanout"
    BY <1>4, FlushEffect
  <2> QED BY <1>1, <2>1
<1>5. CASE fanout
  <2>1. /\ UNCHANGED <<owed, handled, topics, sf_clients, id_to_sock, read_fds, published>>
        /\ server = "fanout"
    BY <1>5, FanoutEffect DEF tables
  <2> QED BY <1>2, <2>1
<1>6. CASE recv_udp
  <2> DEFINE m == handled + 1
  <2>1. /\ handled' = m /\ owed' = owed \cup {<<m, n>> : n \in Recipients(published[m])}
        /\ UNCHANGED <<topics, sf_clients, id_to_sock, read_fds, published>>
    BY <1>6 DEF recv_udp, tables
  <2>2. \A n : <<m, n>> \notin owed
    BY <1>0
  <2>3. \A n \in Names : <<m, n>> \in owed' => n \in Recipients(published[m])
    BY <2>1, <2>2
  <2>4. \A p \in owed' : p[1] <= m
    BY <1>0, <2>1
  <2> HIDE DEF m
  <2>5. \A n \in Names : <<handled', n>> \in owed' => n \in Recipients(published[handled])'
    BY <2>1, <2>3 DEF Recipients, Online
  <2> QED BY <2>1, <2>4, <2>5 DEF OwedInLoop
<1>7. CASE (\E c \in Conns : Connect(c)) /\ UNCHANGED brokerVars
  <2>1. UNCHANGED <<owed, handled, topics, sf_clients, id_to_sock, read_fds, server, published>>
    BY <1>7 DEF Connect, brokerVars, tables
  <2> QED BY <1>2, <2>1
<1>8. CASE Quiet
  <2>1. handled = 0 \/ handled \in 1..handled
    BY <1>0
  <2>2. server = "fanout" => handled \in 1..handled
    BY <2>1 DEF Typed, LoopOK
  <2>3. CASE server' # "fanout"
    BY <1>1, <1>8, <2>3 DEF Quiet
  <2>4. CASE server' = "fanout"
    <3>1. /\ UNCHANGED <<server, topics, sf_clients, id_to_sock, read_fds, owed, handled>>
          /\ \A m \in 1..handled : published'[m] = published[m]
      BY <1>8, <2>4 DEF Quiet
    <3> QED BY <1>2, <2>2, <2>4, <3>1
  <2> QED BY <2>3, <2>4
<1> QED BY <1>3, <1>4, <1>5, <1>6, <1>7, <1>8, Deliveries

(* A send adds one place, for the datagram and client of its record.       *)
LEMMA SentAfterSend ==
  ASSUME Typed, NEW c \in Conns, NEW r \in Records, Send(c, r), NEW m, NEW n
  PROVE  Sent(m, n)' = IF r = [msg |-> m, on |-> n]
                       THEN Sent(m, n) \cup {<<c, Len(got[c]) + 1>>} ELSE Sent(m, n)
<1>1. /\ \A d \in Conns : d # c => got'[d] = got[d]
      /\ Len(got[c]) \in Nat /\ DOMAIN got[c] = 1..Len(got[c])
      /\ DOMAIN got'[c] = 1..(Len(got[c]) + 1)
      /\ \A k \in 1..Len(got[c]) : got'[c][k] = got[c][k]
      /\ got'[c][Len(got[c]) + 1] = r
  BY GotAfterSend
<1> DEFINE rec == [msg |-> m, on |-> n]
<1> HIDE DEF rec
<1>2. \A d \in Conns \ {c} : {j \in DOMAIN got'[d] : got'[d][j] = rec} = {j \in DOMAIN got[d] : got[d][j] = rec}
  BY <1>1
<1>3. {j \in DOMAIN got'[c] : got'[c][j] = rec}
      = {j \in DOMAIN got[c] : got[c][j] = rec} \cup (IF r = rec THEN {Len(got[c]) + 1} ELSE {})
  BY <1>1
<1> DEFINE At0(d) == {<<d, k>> : k \in {j \in DOMAIN got[d] : got[d][j] = rec}}
           At1(d) == {<<d, k>> : k \in {j \in DOMAIN got'[d] : got'[d][j] = rec}}
<1>4. \A d \in Conns \ {c} : At1(d) = At0(d)
  BY <1>2
<1>5. At1(c) = At0(c) \cup (IF r = rec THEN {<<c, Len(got[c]) + 1>>} ELSE {})
  BY <1>3
<1>6. Sent(m, n) = UNION {At0(d) : d \in Conns} /\ Sent(m, n)' = UNION {At1(d) : d \in Conns}
  BY DEF Sent, rec
<1> DEFINE new == IF r = rec THEN {<<c, Len(got[c]) + 1>>} ELSE {}
<1>7. At1(c) = At0(c) \cup new
  BY <1>5 DEF new
<1> HIDE DEF At0, At1, new
<1>8. ASSUME NEW p
      PROVE  p \in Sent(m, n)' <=> p \in Sent(m, n) \cup new
  <2>1. p \in Sent(m, n) <=> \E d \in Conns : p \in At0(d)
    BY <1>6, Zenon
  <2>2. p \in Sent(m, n)' <=> \E d \in Conns : p \in At1(d)
    BY <1>6, Zenon
  <2>3. ASSUME NEW d \in Conns
        PROVE  p \in At1(d) <=> p \in At0(d) \/ (d = c /\ p \in new)
    BY <1>4, <1>7
  <2>4. (\E d \in Conns : p \in At1(d)) <=> (\E d \in Conns : p \in At0(d)) \/ p \in new
    BY <2>3
  <2> QED BY <2>1, <2>2, <2>4
<1>9. Sent(m, n)' = Sent(m, n) \cup new
  BY <1>8
<1> QED BY <1>9 DEF rec, new

(* A datagram not received yet is nowhere.                                 *)
LEMMA NowhereYet ==
  ASSUME Typed, Ordered, NEW m \in Nat, m > handled, NEW n \in Names
  PROVE  Places(m, n) = {}
<1>0. handled \in Nat /\ MaxMsgs \in Nat /\ got \in [Conns -> Seq(Records)]
      /\ sf_messages \in [Names -> Seq(1..MaxMsgs)]
  BY Numbers DEF Typed, TypeOK, NetTypeOK, BrokerTypeOK
<1>1. \A c \in Conns : \A k \in DOMAIN got[c] : got[c][k] # [msg |-> m, on |-> n]
  <2> SUFFICES ASSUME NEW c \in Conns, NEW k \in DOMAIN got[c], got[c][k] = [msg |-> m, on |-> n]
               PROVE  FALSE
    OBVIOUS
  <2>1. got[c][k].msg = m /\ got[c][k].msg <= handled
    BY DEF Ordered, GotInOrder
  <2> QED BY <1>0, <2>1
<1>2. \A k \in DOMAIN sf_messages[n] : sf_messages[n][k] # m
  <2> SUFFICES ASSUME NEW k \in DOMAIN sf_messages[n], sf_messages[n][k] = m PROVE FALSE
    OBVIOUS
  <2>1. sf_messages[n][k] <= handled
    BY DEF Ordered, StoredInOrder
  <2> QED BY <1>0, <2>1
<1>3. Sent(m, n) = {}
  BY <1>1, Zenon DEF Sent
<1>4. Kept(m, n) = {}
  BY <1>2 DEF Kept
<1> QED BY <1>3, <1>4 DEF Places

LEMMA PlacesStay ==
  ASSUME Typed, ExactlyOnce, server # "died", UNCHANGED owed,
         \A m \in 1..MaxMsgs, n \in Names :
           Places(m, n)' = Places(m, n) /\ (StillInLoop(m, n)' <=> StillInLoop(m, n))
  PROVE  ExactlyOnce'
<1> SUFFICES ASSUME NEW p \in owed
             PROVE  IF StillInLoop(p[1], p[2])' THEN Places(p[1], p[2])' = {}
                    ELSE \E place \in Places(p[1], p[2])' : Places(p[1], p[2])' = {place}
  BY DEF ExactlyOnce
<1>1. PICK m \in 1..MaxMsgs, n \in Names : p[1] = m /\ p[2] = n
  BY DEF Typed, TypeOK, BrokerTypeOK
<1>2. IF StillInLoop(m, n) THEN Places(m, n) = {}
      ELSE \E place \in Places(m, n) : Places(m, n) = {place}
  BY <1>1 DEF ExactlyOnce
<1>3. Places(m, n)' = Places(m, n) /\ (StillInLoop(m, n)' <=> StillInLoop(m, n))
  OBVIOUS
<1>4. IF StillInLoop(m, n)' THEN Places(m, n)' = {}
      ELSE \E place \in Places(m, n)' : Places(m, n)' = {place}
  BY <1>2, <1>3
<1> QED BY <1>1, <1>4

LEMMA KeptStays ==
  ASSUME NEW m, NEW n, sf_messages'[n] = sf_messages[n], Flushed(n)' = Flushed(n)
  PROVE  Kept(m, n)' = Kept(m, n)
BY DEF Kept

LEMMA KeptAfterStore ==
  ASSUME NEW m, NEW n, NEW h, NEW S, sf_messages[n] \in Seq(S), h \in S,
         sf_messages'[n] = Append(sf_messages[n], h), Flushed(n) = 0, Flushed(n)' = 0
  PROVE  Kept(m, n)' = Kept(m, n) \cup (IF m = h THEN {<<NoConn, Len(sf_messages[n]) + 1>>} ELSE {})
<1> DEFINE s == sf_messages[n]
           s1 == sf_messages'[n]
           I == {j \in DOMAIN s : j > 0 /\ s[j] = m}
           J == {j \in DOMAIN s1 : j > 0 /\ s1[j] = m}
<1>1. /\ Len(s) \in Nat /\ DOMAIN s = 1..Len(s)
      /\ DOMAIN s1 = 1..(Len(s) + 1)
      /\ \A k \in 1..Len(s) : s1[k] = s[k]
      /\ s1[Len(s) + 1] = h
  OBVIOUS
<1> HIDE DEF s, s1
<1>2. J = I \cup (IF m = h THEN {Len(s) + 1} ELSE {})
  BY <1>1
<1>3. Kept(m, n) = {<<NoConn, k>> : k \in I} /\ Kept(m, n)' = {<<NoConn, k>> : k \in J}
  BY DEF Kept, s, s1
<1> HIDE DEF I, J
<1> QED BY <1>2, <1>3 DEF s

(* Steps outside the two loops that send datagrams.                        *)
LEMMA ElsewhereExactlyOnce ==
  ASSUME Typed, ExactlyOnce, server' # "died", UNCHANGED subVars,
         accept_client \/ login(id) \/ broadcast
  PROVE  ExactlyOnce'
<1>1. /\ UNCHANGED <<owed, sf_messages>> /\ server \notin {"died", "flush", "fanout"}
      /\ server' # "fanout"
      /\ server' = "flush" => it' = 1
  BY AcceptEffect, LoginEffect, BroadcastEffect
<1>2. ASSUME NEW m \in 1..MaxMsgs, NEW n \in Names
      PROVE  Places(m, n)' = Places(m, n) /\ (StillInLoop(m, n)' <=> StillInLoop(m, n))
  <2>1. Flushed(n)' = Flushed(n)
    BY <1>1 DEF Flushed
  <2>2. Kept(m, n)' = Kept(m, n)
    BY <1>1, <2>1, KeptStays
  <2>3. ~StillInLoop(m, n) /\ ~StillInLoop(m, n)'
    <3>1. server # "fanout" /\ server' # "fanout"
      BY <1>1
    <3> QED BY <3>1, Zenon DEF StillInLoop
  <2>4. CASE UNCHANGED got
    <3>1. Sent(m, n)' = Sent(m, n)
      BY <2>4 DEF Sent
    <3> QED BY <2>2, <2>3, <3>1 DEF Places
  <2>5. CASE \E f \in ToldNext : Send(conn_of[f], ExitRecord)
    <3>1. PICK f \in ToldNext : Send(conn_of[f], ExitRecord)
      BY <2>5
    <3>2. PICK c \in Conns : c = conn_of[f]
      BY DEF ToldNext, Typed, TypeOK, BrokerTypeOK, NetTypeOK, DescriptorsOK
    <3>3. PICK r \in Records : r = ExitRecord
      BY ExitRecordTyped
    <3>4. r # [msg |-> m, on |-> n]
      BY <3>3 DEF ExitRecord
    <3>5. Send(c, r)
      BY <3>1, <3>2, <3>3
    <3>6. Sent(m, n)' = Sent(m, n)
      BY <3>4, <3>5, SentAfterSend
    <3> QED BY <2>2, <2>3, <3>6 DEF Places
  <2> QED BY <2>4, <2>5, AcceptEffect, LoginEffect, BroadcastEffect
<1> QED BY <1>1, <1>2, PlacesStay

LEMMA QuietExactlyOnce ==
  ASSUME Typed, ExactlyOnce, server' # "died",
         UNCHANGED <<got, sf_messages, sock_to_id, owed, handled, newsockfd>>,
         \A m \in 1..handled : published'[m] = published[m],
         \/ server = "running" /\ server' \notin {"flush", "fanout"}
         \/ UNCHANGED <<server, it, topics>>
  PROVE  ExactlyOnce'
<1>1. ASSUME NEW m \in 1..MaxMsgs, NEW n \in Names
      PROVE  Places(m, n)' = Places(m, n) /\ (StillInLoop(m, n)' <=> StillInLoop(m, n))
  <2>1. Flushed(n)' = Flushed(n)
    BY DEF Flushed
  <2>2. Kept(m, n)' = Kept(m, n)
    BY <2>1, KeptStays
  <2>3. Places(m, n)' = Places(m, n)
    BY <2>2 DEF Places, Sent
  <2>4. m = handled => published'[m] = published[m]
    BY DEF Typed, TypeOK, NetTypeOK
  <2>5. StillInLoop(m, n)' <=> StillInLoop(m, n)
    BY <2>4 DEF StillInLoop
  <2> QED BY <2>3, <2>5
<1>2. server # "died"
  OBVIOUS
<1> QED BY <1>1, <1>2, PlacesStay

(* flush moves a message from the store to the connection.                 *)
LEMMA FlushExactlyOnce ==
  ASSUME Typed, ExactlyOnce, server' # "died", flush
  PROVE  ExactlyOnce'
<1> DEFINE c0 == conn_of[newsockfd]
           n0 == sock_to_id[newsockfd]
           stored == sf_messages[n0]
           r0 == [msg |-> stored[it], on |-> n0]
<1>1. /\ server = "flush" /\ newsockfd \in read_fds /\ n0 \in Names /\ c0 \in Conns
      /\ stored \in Seq(1..MaxMsgs) /\ it \in 1..Len(stored) /\ r0 \in Records
      /\ UNCHANGED <<sock_to_id, owed>> /\ Send(c0, r0)
      /\ \/ it < Len(stored) /\ it' = it + 1 /\ UNCHANGED <<server, newsockfd, sf_messages>>
         \/ /\ it = Len(stored) /\ server' = "running"
            /\ sf_messages' = [sf_messages EXCEPT ![n0] = <<>>]
  BY FlushEffect DEF Typed, TypeOK, BrokerTypeOK, NetTypeOK, DescriptorsOK, tables
<1>2. PICK c \in Conns, r \in Records, k0 \in Nat \ {0} : c = c0 /\ r = r0 /\ k0 = it
  BY <1>1
<1>3. sf_messages \in [Names -> Seq(1..MaxMsgs)] /\ NoConn \notin Conns
  BY Numbers DEF Typed, TypeOK, BrokerTypeOK
<1>4. ASSUME NEW m \in 1..MaxMsgs, NEW n \in Names
      PROVE  Kept(m, n)' = Kept(m, n) \ (IF r = [msg |-> m, on |-> n] THEN {<<NoConn, k0>>} ELSE {})
  <2>1. CASE n # n0
    <3>1. sf_messages'[n] = sf_messages[n] /\ Flushed(n) = 0 /\ Flushed(n)' = 0
      BY <1>1, <1>3, <2>1 DEF Flushed
    <3>2. Kept(m, n)' = Kept(m, n)
      BY <3>1, KeptStays
    <3>3. r # [msg |-> m, on |-> n]
      BY <1>2, <2>1
    <3> QED BY <3>2, <3>3
  <2>2. CASE n = n0
    <3> DEFINE s == sf_messages[n]
    <3>1. s \in Seq(1..MaxMsgs) /\ Len(s) \in Nat /\ DOMAIN s = 1..Len(s) /\ k0 \in 1..Len(s)
          /\ Flushed(n) = k0 - 1 /\ (r = [msg |-> m, on |-> n] <=> s[k0] = m)
      BY <1>1, <1>2, <1>3, <2>2 DEF Flushed
    <3> DEFINE I == {j \in DOMAIN s : j > k0 - 1 /\ s[j] = m}
               J == {j \in DOMAIN sf_messages'[n] : j > Flushed(n)' /\ sf_messages'[n][j] = m}
    <3>2. J = I \ (IF s[k0] = m THEN {k0} ELSE {})
      <4>1. CASE k0 < Len(s) /\ it' = k0 + 1 /\ UNCHANGED <<server, newsockfd, sf_messages>>
        <5>1. J = {j \in DOMAIN s : j > k0 /\ s[j] = m}
          BY <1>1, <2>2, <4>1 DEF Flushed
        <5> HIDE DEF J
        <5> QED BY <3>1, <5>1
      <4>2. CASE k0 = Len(s) /\ sf_messages'[n] = <<>>
        <5>1. J = {}
          BY <4>2
        <5>2. \A j \in I : j = k0 /\ s[k0] = m
          BY <3>1, <4>2
        <5> HIDE DEF I, J
        <5> QED BY <5>1, <5>2
      <4> QED BY <1>1, <1>2, <1>3, <2>2, <4>1, <4>2
    <3>3. Kept(m, n) = {<<NoConn, k>> : k \in I} /\ Kept(m, n)' = {<<NoConn, k>> : k \in J}
      BY <3>1 DEF Kept
    <3> HIDE DEF I, J, s
    <3> QED BY <3>1, <3>2, <3>3 DEF s
  <2> QED BY <2>1, <2>2
<1>5. ASSUME NEW m \in 1..MaxMsgs, NEW n \in Names
      PROVE  Sent(m, n)' = Sent(m, n) \cup (IF r = [msg |-> m, on |-> n]
                                            THEN {<<c, Len(got[c]) + 1>>} ELSE {})
  BY <1>1, <1>2, SentAfterSend
<1>6. <<NoConn, k0>> \in Kept(r.msg, r.on)
  <2>1. r.msg = stored[k0] /\ r.on = n0 /\ k0 \in DOMAIN stored /\ k0 > Flushed(n0)
    BY <1>1, <1>2 DEF Flushed
  <2> QED BY <1>2, <2>1 DEF Kept
<1> HIDE DEF c0, n0, stored, r0
<1>7. ASSUME NEW m \in 1..MaxMsgs, NEW n \in Names, NEW x, Places(m, n) = {x}
      PROVE  \E place \in Places(m, n)' : Places(m, n)' = {place}
  <2>1. CASE r = [msg |-> m, on |-> n]
    <3>1. <<NoConn, k0>> \in Kept(m, n)
      BY <1>6, <2>1
    <3>2. x = <<NoConn, k0>> /\ Kept(m, n) \subseteq {x} /\ Sent(m, n) \subseteq {x}
      BY <1>7, <3>1 DEF Places
    <3>3. \A y \in Sent(m, n) : y # <<NoConn, k0>>
      BY <1>3 DEF Sent
    <3>4. Sent(m, n) = {}
      BY <3>2, <3>3
    <3>5. Kept(m, n)' = {}
      BY <1>4, <2>1, <3>2
    <3>6. Sent(m, n)' = {<<c, Len(got[c]) + 1>>}
      BY <1>5, <2>1, <3>4
    <3> QED BY <3>5, <3>6 DEF Places
  <2>2. CASE r # [msg |-> m, on |-> n]
    <3>1. Places(m, n)' = Places(m, n)
      BY <1>4, <1>5, <2>2 DEF Places
    <3> QED BY <1>7, <3>1
  <2> QED BY <2>1, <2>2
<1> SUFFICES ASSUME NEW p \in owed
             PROVE  IF StillInLoop(p[1], p[2])' THEN Places(p[1], p[2])' = {}
                    ELSE \E place \in Places(p[1], p[2])' : Places(p[1], p[2])' = {place}
  BY <1>1 DEF ExactlyOnce
<1>8. PICK m \in 1..MaxMsgs, n \in Names : p[1] = m /\ p[2] = n
  BY DEF Typed, TypeOK, BrokerTypeOK
<1>9. ~StillInLoop(m, n) /\ ~StillInLoop(m, n)'
  BY <1>1 DEF StillInLoop
<1>10. \E x \in Places(m, n) : Places(m, n) = {x}
  BY <1>1, <1>8, <1>9 DEF ExactlyOnce
<1>11. \E place \in Places(m, n)' : Places(m, n)' = {place}
  BY <1>7, <1>10
<1> QED BY <1>8, <1>9, <1>11

(* The loop over the subscribers of a datagram gives each of them one      *)
(* place, in its turn.                                                     *)
LEMMA FanoutExactlyOnce ==
  ASSUME Typed, TablesOK, OwedInLoop, ExactlyOnce, server' # "died", fanout
  PROVE  ExactlyOnce'
<1> DEFINE t0 == published[handled]
           n0 == topics[t0][it]
           r0 == [msg |-> handled, on |-> n0]
           m0 == handled
<1>1. /\ server = "fanout" /\ m0 \in 1..MaxMsgs /\ t0 \in Topics /\ topics[t0] \in Seq(Names)
      /\ it \in 1..Len(topics[t0]) /\ n0 \in Names /\ r0 \in Records
      /\ server' \in {"fanout", "running"}
      /\ UNCHANGED <<topics, sf_clients, id_to_sock, read_fds, owed, published, handled>>
      /\ \/ Online(n0) /\ Send(conn_of[id_to_sock[n0]], r0) /\ UNCHANGED sf_messages
         \/ /\ ~Online(n0) /\ UNCHANGED got
            /\ sf_messages' = IF n0 \in sf_clients[t0]
                              THEN [sf_messages EXCEPT ![n0] = Append(sf_messages[n0], m0)]
                              ELSE sf_messages
      /\ server' = "fanout" => it' = it + 1
      /\ server' # "fanout" => it = Len(topics[t0])
  <2>1. /\ server = "fanout" /\ m0 \in 1..MaxMsgs /\ t0 \in Topics /\ topics[t0] \in Seq(Names)
        /\ it \in 1..Len(topics[t0]) /\ n0 \in Names /\ r0 \in Records
        /\ UNCHANGED <<topics, sf_clients, id_to_sock, read_fds, owed, published, handled>>
        /\ \/ Online(n0) /\ Send(conn_of[id_to_sock[n0]], r0) /\ UNCHANGED sf_messages
           \/ ~Online(n0) /\ UNCHANGED got /\ Store(n0, t0)
        /\ NextSubscriber(t0)
    BY FanoutEffect DEF tables
  <2>2. /\ server' \in {"fanout", "running"}
        /\ server' = "fanout" => it' = it + 1
        /\ server' # "fanout" => it = Len(topics[t0])
    <3> HIDE DEF t0
    <3> QED BY <2>1 DEF NextSubscriber
  <2> HIDE DEF t0, n0, r0
  <2> QED BY <2>1, <2>2 DEF Store
<1>2. sf_messages \in [Names -> Seq(1..MaxMsgs)]
  BY DEF Typed, TypeOK, BrokerTypeOK
<1>3. PICK n1 \in Names : n1 = n0
  BY <1>1
<1>4. \A n \in Names : Flushed(n) = 0 /\ Flushed(n)' = 0
  <2>1. server # "flush" /\ server' # "flush"
    BY <1>1
  <2> QED BY <2>1, Zenon DEF Flushed
<1>5. /\ server = "fanout" /\ Len(topics[t0]) \in Nat /\ DOMAIN topics[t0] = 1..Len(topics[t0])
      /\ it \in 1..Len(topics[t0]) /\ topics[t0][it] = n1
      /\ UNCHANGED <<topics, published, handled>>
      /\ server' = "fanout" => it' = it + 1
      /\ server' # "fanout" => it = Len(topics[t0])
  <2> HIDE DEF t0
  <2> QED BY <1>1, <1>3
(* Whose turn it is now, and whose turn is still to come.                  *)
<1>6. ASSUME NEW m \in 1..MaxMsgs, NEW n \in Names
      PROVE  StillInLoop(m, n)' <=> m = m0 /\ \E k \in 1..Len(topics[t0]) : k > it /\ topics[t0][k] = n
  <2>1. CASE server' = "fanout"
    <3>1. StillInLoop(m, n)' <=> m = m0 /\ \E k \in 1..Len(topics[t0]) : k >= it + 1 /\ topics[t0][k] = n
      BY <1>5, <2>1 DEF StillInLoop
    <3>2. \A k \in 1..Len(topics[t0]) : k >= it + 1 <=> k > it
      BY <1>5
    <3> QED BY <3>1, <3>2
  <2>2. CASE server' # "fanout"
    <3>1. ~StillInLoop(m, n)'
      BY <2>2 DEF StillInLoop
    <3>2. \A k \in 1..Len(topics[t0]) : ~(k > it)
      BY <1>5, <2>2
    <3> QED BY <3>1, <3>2
  <2> QED BY <2>1, <2>2
<1>7. ASSUME NEW m \in 1..MaxMsgs, NEW n \in Names
      PROVE  StillInLoop(m, n) <=> m = m0 /\ \E k \in 1..Len(topics[t0]) : k >= it /\ topics[t0][k] = n
  BY <1>5 DEF StillInLoop
<1>8. StillInLoop(m0, n1) /\ ~StillInLoop(m0, n1)'
  <2>1. \A j, k \in 1..Len(topics[t0]) : topics[t0][j] = topics[t0][k] => j = k
    BY <1>5, <1>1 DEF TablesOK
  <2>2. ~ \E k \in 1..Len(topics[t0]) : k > it /\ topics[t0][k] = n1
    BY <1>5, <2>1
  <2>3. \E k \in 1..Len(topics[t0]) : k >= it /\ topics[t0][k] = n1
    BY <1>5
  <2>4. PICK m1 \in 1..MaxMsgs : m1 = m0
    BY <1>1
  <2>5. StillInLoop(m1, n1) /\ ~StillInLoop(m1, n1)'
    BY <1>6, <1>7, <2>2, <2>3, <2>4
  <2> QED BY <1>1, <2>4, <2>5
<1>9. ASSUME NEW m \in 1..MaxMsgs, NEW n \in Names, m # m0 \/ n # n1
      PROVE  StillInLoop(m, n)' <=> StillInLoop(m, n)
  <2>1. \A k \in 1..Len(topics[t0]) : m = m0 /\ topics[t0][k] = n => k # it
    BY <1>5, <1>9
  <2>2. \A k \in 1..Len(topics[t0]) : k >= it /\ k # it <=> k > it
    BY <1>5
  <2> QED BY <1>6, <1>7, <2>1, <2>2
<1>10. ASSUME NEW m \in 1..MaxMsgs, NEW n \in Names
      PROVE  /\ (m # m0 \/ n # n1) => Places(m, n)' = Places(m, n)
             /\ m = m0 /\ n = n1 /\ <<m, n>> \in owed /\ Places(m, n) = {}
                  => \E place \in Places(m, n)' : Places(m, n)' = {place}
  <2>1. CASE Online(n0) /\ Send(conn_of[id_to_sock[n0]], r0) /\ UNCHANGED sf_messages
    <3>1. PICK c \in Conns : c = conn_of[id_to_sock[n0]]
      BY <2>1 DEF Online, Typed, TypeOK, BrokerTypeOK, NetTypeOK, DescriptorsOK
    <3>2. PICK r \in Records : r = r0 /\ (r = [msg |-> m, on |-> n] <=> m = m0 /\ n = n1)
      BY <1>1, <1>3
    <3> HIDE DEF n0, r0, t0, m0
    <3>3. Sent(m, n)' = IF m = m0 /\ n = n1 THEN Sent(m, n) \cup {<<c, Len(got[c]) + 1>>}
                        ELSE Sent(m, n)
      BY <2>1, <3>1, <3>2, SentAfterSend
    <3>4. Kept(m, n)' = Kept(m, n)
      BY <1>4, <2>1, KeptStays
    <3> QED BY <3>3, <3>4 DEF Places
  <2>2. CASE ~Online(n0) /\ UNCHANGED got
             /\ sf_messages' = IF n0 \in sf_clients[t0]
                               THEN [sf_messages EXCEPT ![n0] = Append(sf_messages[n0], m0)]
                               ELSE sf_messages
    <3>1. Sent(m, n)' = Sent(m, n)
      BY <2>2 DEF Sent
    <3>2. CASE n # n1 \/ n1 \notin sf_clients[t0]
      <4>1. sf_messages'[n] = sf_messages[n]
        BY <1>2, <1>3, <2>2, <3>2
      <4>2. Places(m, n)' = Places(m, n)
        BY <1>4, <3>1, <4>1, KeptStays DEF Places
      <4>3. ~(m = m0 /\ n = n1 /\ <<m, n>> \in owed)
        <5> SUFFICES ASSUME <<handled, n1>> \in owed, n1 \notin sf_clients[t0] PROVE FALSE
          BY <3>2
        <5>1. n1 \in Recipients(t0)
          BY <1>1 DEF OwedInLoop
        <5> QED BY <1>3, <2>2, <5>1 DEF Recipients
      <4> QED BY <4>2, <4>3
    <3>3. CASE n = n1 /\ n1 \in sf_clients[t0]
      <4>1. sf_messages'[n] = Append(sf_messages[n], m0) /\ sf_messages[n] \in Seq(1..MaxMsgs)
        BY <1>2, <1>3, <2>2, <3>3
      <4>2. PICK h \in 1..MaxMsgs : h = m0
        BY <1>1
      <4>3. Kept(m, n)' = Kept(m, n) \cup (IF m = h THEN {<<NoConn, Len(sf_messages[n]) + 1>>} ELSE {})
        BY <1>4, <4>1, <4>2, KeptAfterStore
      <4>4. CASE m = m0
        <5>1. Kept(m, n)' = Kept(m, n) \cup {<<NoConn, Len(sf_messages[n]) + 1>>}
          BY <4>2, <4>3, <4>4
        <5>2. ASSUME Places(m, n) = {}
              PROVE  Places(m, n)' = {<<NoConn, Len(sf_messages[n]) + 1>>}
          <6>1. Sent(m, n) = {} /\ Kept(m, n) = {}
            BY <5>2 DEF Places
          <6> QED BY <3>1, <5>1, <6>1 DEF Places
        <5> QED BY <3>3, <4>4, <5>2
      <4>5. CASE m # m0
        <5>1. Kept(m, n)' = Kept(m, n)
          BY <4>2, <4>3, <4>5
        <5> QED BY <3>1, <4>5, <5>1 DEF Places
      <4> QED BY <4>4, <4>5
    <3> QED BY <3>2, <3>3
  <2> QED BY <1>1, <2>1, <2>2
<1> SUFFICES ASSUME NEW p \in owed
             PROVE  IF StillInLoop(p[1], p[2])' THEN Places(p[1], p[2])' = {}
                    ELSE \E place \in Places(p[1], p[2])' : Places(p[1], p[2])' = {place}
  BY <1>1 DEF ExactlyOnce
<1>11. PICK m \in 1..MaxMsgs, n \in Names : p[1] = m /\ p[2] = n /\ <<m, n>> \in owed
  <2>1. p \in (1..MaxMsgs) \X Names
    BY DEF Typed, TypeOK, BrokerTypeOK
  <2>2. p[1] \in 1..MaxMsgs /\ p[2] \in Names /\ p = <<p[1], p[2]>>
    BY <2>1
  <2> QED BY <2>2
<1>12. IF StillInLoop(m, n) THEN Places(m, n) = {}
       ELSE \E place \in Places(m, n) : Places(m, n) = {place}
  BY <1>1, <1>11 DEF ExactlyOnce
<1> HIDE DEF t0, n0, r0
<1>13. IF StillInLoop(m, n)' THEN Places(m, n)' = {}
       ELSE \E place \in Places(m, n)' : Places(m, n)' = {place}
  <2>1. CASE m # m0 \/ n # n1
    <3>1. Places(m, n)' = Places(m, n) /\ (StillInLoop(m, n)' <=> StillInLoop(m, n))
      BY <1>9, <1>10, <2>1
    <3> QED BY <1>12, <3>1
  <2>2. CASE m = m0 /\ n = n1
    <3>1. StillInLoop(m, n) /\ ~StillInLoop(m, n)'
      BY <1>1, <1>8, <2>2
    <3>2. \E place \in Places(m, n)' : Places(m, n)' = {place}
      BY <1>10, <1>11, <1>12, <2>2, <3>1
    <3> QED BY <3>1, <3>2
  <2> QED BY <2>1, <2>2
<1> QED BY <1>11, <1>13

(* A datagram that arrives is nowhere, until the loop sends it.            *)
LEMMA ReceivedExactlyOnce ==
  ASSUME Typed, Ordered, OwedInLoop, ExactlyOnce, recv_udp
  PROVE  ExactlyOnce'
<1> DEFINE m0 == handled + 1
           t0 == published[m0]
<1>1. /\ server = "running" /\ handled \in Nat /\ handled' = m0
      /\ owed' = owed \cup {<<m0, n>> : n \in Recipients(t0)}
      /\ UNCHANGED <<topics, sock_to_id, sf_messages, got, newsockfd, published>>
      /\ server' # "flush"
      /\ topics[t0] # <<>> => server' = "fanout" /\ it' = 1
  BY DEF recv_udp, At, tables, Typed, TypeOK, NetTypeOK
<1>2. t0 \in Topics /\ topics[t0] \in Seq(Names) /\ m0 \in 1..MaxMsgs
  <2>1. handled < Len(published) /\ Len(published) <= MaxMsgs /\ published \in Seq(Topics)
        /\ MaxMsgs \in Nat
    BY Numbers DEF recv_udp, At, Typed, LoopOK, DescriptorsOK, TypeOK, NetTypeOK
  <2>2. t0 \in Topics /\ m0 \in 1..MaxMsgs
    BY <1>1, <2>1
  <2> QED BY <2>2 DEF Typed, TypeOK, BrokerTypeOK
<1> HIDE DEF m0, t0
<1>3. ASSUME NEW m \in 1..MaxMsgs, NEW n \in Names
      PROVE  Places(m, n)' = Places(m, n)
  <2>1. Flushed(n) = 0 /\ Flushed(n)' = 0
    BY <1>1 DEF Flushed
  <2> QED BY <1>1, <2>1, KeptStays DEF Places, Sent
<1> SUFFICES ASSUME NEW p \in owed'
             PROVE  IF StillInLoop(p[1], p[2])' THEN Places(p[1], p[2])' = {}
                    ELSE \E place \in Places(p[1], p[2])' : Places(p[1], p[2])' = {place}
  BY DEF ExactlyOnce
<1>4. CASE p \in owed
  <2>1. PICK m \in 1..MaxMsgs, n \in Names : p[1] = m /\ p[2] = n
    BY <1>4 DEF Typed, TypeOK, BrokerTypeOK
  <2>2. m <= handled
    BY <1>4, <2>1 DEF OwedInLoop
  <2>3. ~StillInLoop(m, n) /\ ~StillInLoop(m, n)'
    BY <1>1, <2>2 DEF StillInLoop, m0
  <2>4. \E place \in Places(m, n) : Places(m, n) = {place}
    BY <1>1, <1>4, <2>1, <2>3 DEF ExactlyOnce
  <2>5. \E place \in Places(m, n)' : Places(m, n)' = {place}
    BY <1>3, <2>4
  <2> QED BY <2>1, <2>3, <2>5
<1>5. CASE p \notin owed
  <2>1. PICK n \in Recipients(t0) : p = <<m0, n>>
    BY <1>1, <1>5
  <2>2. n \in ToSet(topics[t0])
    BY <2>1 DEF Recipients
  <2>3. /\ n \in Names /\ topics[t0] # <<>>
        /\ \E k \in DOMAIN topics[t0] : k >= 1 /\ topics[t0][k] = n
    <3>1. PICK k \in DOMAIN topics[t0] : topics[t0][k] = n
      BY <2>2 DEF ToSet
    <3>2. k \in 1..Len(topics[t0]) /\ Len(topics[t0]) \in Nat
      BY <1>2
    <3>3. topics[t0] # <<>>
      BY <3>2, EmptySeq
    <3> QED BY <1>2, <3>1, <3>2, <3>3
  <2>4. PICK m \in 1..MaxMsgs : m = m0
    BY <1>2
  <2>5. m \in Nat /\ m > handled
    BY <1>1, <2>4 DEF m0
  <2>6. Places(m, n)' = {}
    BY <1>3, <2>3, <2>5, NowhereYet
  <2>7. StillInLoop(m, n)'
    <3>1. topics'[published'[m]] = topics[t0] /\ server' = "fanout" /\ it' = 1 /\ m = handled'
      BY <1>1, <2>3, <2>4 DEF t0
    <3> QED BY <2>3, <3>1 DEF StillInLoop
  <2>8. p[1] = m /\ p[2] = n
    BY <2>1, <2>4
  <2> QED BY <2>6, <2>7, <2>8
<1> QED BY <1>4, <1>5

LEMMA ExactlyOnceStep ==
  ASSUME Typed, TablesOK, Ordered, OwedInLoop, ExactlyOnce, [Next]_pubsubVars
  PROVE  ExactlyOnce'
<1>1. CASE server' = "died"
  BY <1>1 DEF ExactlyOnce
<1>2. CASE Quiet /\ server' # "died"
  <2>1. /\ UNCHANGED <<got, sf_messages, sock_to_id, owed, handled, newsockfd>>
        /\ \A m \in 1..handled : published'[m] = published[m]
        /\ \/ server = "running" /\ server' \notin {"flush", "fanout"}
           \/ UNCHANGED <<server, it, topics>>
    BY <1>2 DEF Quiet
  <2> QED BY <1>2, <2>1, QuietExactlyOnce
<1>3. CASE (\E c \in Conns : Connect(c)) /\ UNCHANGED brokerVars /\ server' # "died"
  <2>1. /\ UNCHANGED <<got, sf_messages, sock_to_id, owed, handled, newsockfd, published,
                       server, it, topics>>
    BY <1>3 DEF Connect, brokerVars, tables, loopVars
  <2> QED BY <1>3, <2>1, QuietExactlyOnce
<1> QED BY <1>1, <1>2, <1>3, Deliveries, ElsewhereExactlyOnce, FlushExactlyOnce, FanoutExactlyOnce,
        ReceivedExactlyOnce

LEMMA OwedAlways == Spec => [](OwedInLoop /\ ExactlyOnce)
<1>1. Init => OwedInLoop /\ ExactlyOnce
  <2> SUFFICES ASSUME Init PROVE OwedInLoop /\ ExactlyOnce
    OBVIOUS
  <2>1. owed = {} /\ server = "running"
    BY DEF Init, NetInit, BrokerInit
  <2> QED BY <2>1 DEF OwedInLoop, ExactlyOnce
<1>2. Typed /\ TablesOK /\ Ordered /\ OwedInLoop /\ ExactlyOnce /\ [Next]_pubsubVars
        => (OwedInLoop /\ ExactlyOnce)'
  BY OwedInLoopStep, ExactlyOnceStep
<1> QED BY <1>1, <1>2, TypedAlways, TablesAlways, OrderedAlways, PTL DEF Spec

(* What a client is to get is sent on its behalf or stored, exactly once,  *)
(* whatever number of clients, descriptors and datagrams there are: not    *)
(* twice when its id logs in twice, and not lost when it leaves while the  *)
(* loop over the subscribers is on its way to it.                          *)
THEOREM SentOrStoredExactlyOnce == Spec => []ExactlyOnce
BY OwedAlways, PTL
=============================================================================
