----------------------------- MODULE Connections -----------------------------
(***************************************************************************)
(* What server-subscriber/ takes from the kernel: TCP connections between  *)
(* subscriber processes and the broker, the broker's descriptor table, and *)
(* its UDP socket.  None of it is code of the repository: it is modelled   *)
(* from how server.cpp and subscriber.cpp use it, on Linux.                *)
(*                                                                         *)
(* A connection is one run of the subscriber program.  What it sent and    *)
(* the broker has not received is up; recv takes all of it at once, so     *)
(* that texts sent separately may arrive glued.  What the broker sent it   *)
(* is got; how far it has read changes nothing but whether the kernel, when *)
(* it closes, has records left to discard, so that is a choice.  A record  *)
(* is BUFLEN bytes and both ends use that size, so records stay apart as   *)
(* long as no segment is cut (assumed).                                    *)
(***************************************************************************)
EXTENDS Integers, Sequences, FiniteSets

CONSTANTS
  Ids,        \* client ids subscribers are started with
  Topics,
  StoreFlags, \* SF arguments subscribers type
  Anonymous,  \* the empty string, as a client id
  MaxConns,   \* bound: runs of the subscriber program
  MaxFds,     \* client descriptors the broker may have open
  MaxMsgs     \* bound: datagrams that arrive

ASSUME ConnectionsAssumption ==
  /\ StoreFlags \subseteq BOOLEAN
  /\ MaxConns \in Nat
  /\ MaxFds \in Nat \ {0}
  /\ MaxMsgs \in Nat
  /\ Anonymous \notin Ids

Conns == 1..MaxConns
NoConn == 0
STDIN_FILENO == 0
sockfd_tcp == 3
sockfd_udp == 4
Fds == 5..(4 + MaxFds)       \* descriptors accept may return

(* Client ids as the broker reads them.  The bytes connection c sent when  *)
(* they are more than an id are an id nobody else has: c stands for it.    *)
Names == Ids \cup Conns \cup {Anonymous}

ASSUME NamesApart == Conns \cap (Ids \cup {Anonymous}) = {}

Commands == [op : {"subscribe"}, topic : Topics, sf : StoreFlags]
            \cup [op : {"unsubscribe"}, topic : Topics]
IdText == [op |-> "id"]
Texts == Commands \cup {IdText}

(* A record: datagram msg, or the exit command (0).  "on" is not in the    *)
(* bytes: the client id on whose behalf the broker sent it.                *)
Records == [msg : 0..MaxMsgs, on : Names]
ExitRecord == [msg |-> 0, on |-> Anonymous]

Links == {"none",    \* no such connection yet
          "open",
          "fin",     \* the client closed it, having read everything
          "reset",   \* the client closed it with records unread
          "dead",    \* the client's reset arrived and was reported
          "gone"}    \* closed by the broker

VARIABLES
  link, up, got,   \* by connection
  backlog,     \* connections accept has not returned
  conn_of,     \* the broker's descriptor table: Fds to connections
  published,   \* topics of the datagrams that arrived, in order
  handled,     \* how many of them recvfrom has returned
  typed,       \* a line "exit" waits on the broker's stdin
  server       \* where the broker process is

netVars == <<link, up, got, backlog, conn_of, published, handled, typed>>

Stopped == {"exited", "died"}

Readable(c) == up[c] # <<>> \/ link[c] \in {"fin", "reset", "dead"}

(* What becomes of a connection the broker sends on: one the client closed *)
(* is answered by a reset, now or later.                                   *)
AfterSend(l) == IF l \in {"fin", "reset"} THEN {l, "dead"} ELSE {l}

(* One send.  On a dead connection it raises SIGPIPE, which nothing in the *)
(* broker handles; then the caller goes on to "died".                      *)
Broken(c) == link[c] = "dead"

Send(c, r) ==
  /\ got' = [got EXCEPT ![c] = Append(@, r)]
  /\ \E l \in AfterSend(link[c]) : link' = [link EXCEPT ![c] = l]

(* close, or the end of the client process: with records it has not read   *)
(* the kernel resets the connection.                                       *)
CloseByClient(c) ==
  \E l \in {"fin"} \cup {k \in {"reset"} : got[c] # <<>>} :
    link' = [link EXCEPT ![c] = l]

NetTypeOK ==
  /\ link \in [Conns -> Links]
  /\ up \in [Conns -> Seq(Texts)]
  /\ got \in [Conns -> Seq(Records)]
  /\ backlog \in Seq(Conns)
  /\ conn_of \in [Fds -> Conns \cup {NoConn}]
  /\ published \in Seq(Topics)
  /\ handled \in 0..MaxMsgs /\ handled <= Len(published)
  /\ typed \in BOOLEAN

NetInit ==
  /\ link = [c \in Conns |-> "none"]
  /\ up = [c \in Conns |-> <<>>]
  /\ got = [c \in Conns |-> <<>>]
  /\ backlog = <<>>
  /\ conn_of = [f \in Fds |-> NoConn]
  /\ published = <<>> /\ handled = 0
  /\ typed = FALSE
=============================================================================
