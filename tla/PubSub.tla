------------------------------- MODULE PubSub -------------------------------
(***************************************************************************)
(* The broker, the subscribers and the publishers together.  A publisher   *)
(* is any program that sends UDP datagrams; the operator may type "exit".  *)
(***************************************************************************)
EXTENDS Broker, Subscriber

CONSTANT MayExit   \* whether the operator may type "exit"

ASSUME MayExit \in BOOLEAN

pubsubVars == <<netVars, brokerVars, subVars>>

Init == NetInit /\ BrokerInit /\ SubInit

BrokerNext == BrokerStep(id) /\ UNCHANGED subVars

SubscriberNext(c) ==
  /\ SubNext(c)
  /\ UNCHANGED <<read_fds, tmp_fds, loopVars, tables, sf_messages, owed>>

Publish ==
  /\ server \notin Stopped
  /\ Len(published) < MaxMsgs
  /\ \E t \in Topics : published' = Append(published, t)
  /\ UNCHANGED <<link, up, got, backlog, conn_of, handled, typed, brokerVars, subVars>>

TypeExit ==
  /\ MayExit
  /\ server \notin Stopped
  /\ ~typed
  /\ typed' = TRUE
  /\ UNCHANGED <<link, up, got, backlog, conn_of, published, handled, brokerVars, subVars>>

Next ==
  \/ BrokerNext
  \/ \E c \in Conns : SubscriberNext(c)
  \/ Publish
  \/ TypeExit

Spec == Init /\ [][Next]_pubsubVars

(* The broker's thread keeps running, and so does a subscriber that has    *)
(* something to read; it sends its id right after it has connected.        *)
Fairness ==
  /\ WF_pubsubVars(BrokerNext)
  /\ \A c \in Conns :
       WF_pubsubVars((SendId(c) \/ ReceiveExit(c) \/ ConnectionLost(c))
                     /\ UNCHANGED <<read_fds, tmp_fds, loopVars, tables, sf_messages, owed>>)

FairSpec == Spec /\ Fairness
-----------------------------------------------------------------------------
TypeOK == NetTypeOK /\ BrokerTypeOK /\ SubTypeOK

(* Messages are stored only for clients that are subscribed: every client  *)
(* in sf_clients is in topics, there once, and the broker has a descriptor *)
(* on record for it, whatever commands arrive glued and however often an   *)
(* id logs in.  Without it an unsubscribed client would still be sent, or  *)
(* sent twice, what it missed.                                             *)
StoreForSubscribersOnly ==
  server # "died" =>
    \A t \in Topics :
      /\ sf_clients[t] \subseteq ToSet(topics[t])
      /\ \A j, k \in DOMAIN topics[t] : topics[t][j] = topics[t][k] => j = k
      /\ \A n \in ToSet(topics[t]) : id_to_sock[n] \in Fds

(* A connection gets messages in the order the broker received them, the   *)
(* ones stored while its client was away before the later ones, and        *)
(* nothing after the exit command.                                         *)
InOrder ==
  \A c \in Conns : \A j, k \in DOMAIN got[c] :
    j < k => got[c][j].msg # 0 /\ (got[c][k].msg = 0 \/ got[c][j].msg <= got[c][k].msg)

(* Where message m on behalf of n is: in what connection c got (<<c, k>>),  *)
(* or with the broker, stored and not flushed yet (<<NoConn, k>>).         *)
Flushed(n) == IF server = "flush" /\ sock_to_id[newsockfd] = n THEN it - 1 ELSE 0

Sent(m, n) ==
  UNION {{<<c, k>> : k \in {j \in DOMAIN got[c] : got[c][j] = [msg |-> m, on |-> n]}}
         : c \in Conns}
Kept(m, n) ==
  {<<NoConn, k>> : k \in {j \in DOMAIN sf_messages[n] :
                           j > Flushed(n) /\ sf_messages[n][j] = m}}
Places(m, n) == Sent(m, n) \cup Kept(m, n)

StillInLoop(m, n) ==
  /\ server = "fanout" /\ m = handled
  /\ \E k \in DOMAIN topics[published[m]] : k >= it /\ topics[published[m]][k] = n

(* Each message a client is to get, now or when it comes back, is sent on  *)
(* its behalf or stored, exactly once: the broker neither drops one nor    *)
(* sends one twice, across logins, disconnections and repeated logins of   *)
(* one id.  (On whose connection it arrives is another matter.)            *)
ExactlyOnce ==
  server # "died" =>
    \A p \in owed :
      LET places == Places(p[1], p[2])
      IN IF StillInLoop(p[1], p[2]) THEN places = {}
         ELSE \E place \in places : places = {place}

(* A pass never calls recv on a descriptor that select reported and that   *)
(* would block by now, or that was closed or given to another client since *)
(* select returned.  (The recv of the id, right after accept, does block.) *)
PassNeverBlocks ==
  server # "died" =>
    \A i \in tmp_fds \cap Fds : i \in read_fds /\ Readable(conn_of[i])

(* The broker knows who is who.  What arrives on a descriptor is taken for *)
(* the client that logged in on it, however often the descriptor was used  *)
(* before; and the descriptor on record for an id is that of its open      *)
(* connection, unless the same id logged in again later.                   *)
Settled == {f \in read_fds : f # newsockfd}

LoggedIn(c) == link[c] = "gone" \/ \E f \in Settled : conn_of[f] = c

KnowsItsClients ==
  \A f \in Settled :
    LET c == conn_of[f]
        n == sock_to_id[f]
    IN /\ n \in {id[c], c, Anonymous}
       /\ n # Anonymous =>
            \/ id_to_sock[n] = f
            \/ \E d \in Conns : d > c /\ id[d] = n /\ LoggedIn(d)

(* A subscriber that sent its id is logged in, unless it leaves or the     *)
(* broker ends: the loop around select starves nobody, even while accepts  *)
(* block and datagrams keep coming.                                        *)
LoginServed ==
  \A c \in Conns :
    proc[c] = "running" ~> LoggedIn(c) \/ proc[c] = "done" \/ server \in Stopped

(* When the broker ends by "exit", every subscriber it accepted ends,      *)
(* whatever was under way on its connection, and so does one that was      *)
(* still waiting to be accepted, unless a send of its own was told of the  *)
(* reset first: that one goes on reading nothing for ever.                 *)
ExitReachesAll ==
  server = "exited" ~>
    \A c \in Conns : proc[c] \in {"none", "done"} \/ c \in ToSet(backlog) \cap shut
-----------------------------------------------------------------------------
(* Statements of the comments that the code does not keep.                 *)

(* "send buffer to subscribed tcp clients" (server.cpp:83): a message is   *)
(* sent to the client it is for.                                           *)
OnlySubscribersGet ==
  \A c \in Conns : \A k \in DOMAIN got[c] :
    got[c][k].msg # 0 => got[c][k].on \in {id[c], c}

(* "client closed connection" (server.cpp:305): a client that closes its   *)
(* connection is removed, and that is all; descriptors are not short.      *)
ClosingIsHarmless == server = "died" => FreeFds = {}
=============================================================================
