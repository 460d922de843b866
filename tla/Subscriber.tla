----------------------------- MODULE Subscriber -----------------------------
(***************************************************************************)
(* The subscriber program, server-subscriber/subscriber.cpp: one process   *)
(* per connection.  It connects and sends its id at once, then its select  *)
(* loop serves the keyboard and the socket.  What it prints is not         *)
(* modelled.  It is a process of its own, so each handler interleaves with *)
(* the broker and the other subscribers.                                   *)
(*                                                                         *)
(* When the broker process ends, the kernel resets the connections with    *)
(* texts it never received and those it never accepted, and closes the     *)
(* others, which then answer a send with a reset.  On Linux the records    *)
(* that came before are read first; a reset is reported once, to a send or *)
(* to recv, whichever comes first; after it recv returns 0 for ever and a  *)
(* send raises SIGPIPE, which the program does not handle.                 *)
(***************************************************************************)
EXTENDS Connections, SequencesExt

CONSTANTS
  MaxCommands,   \* bound: commands typed, in all runs together
  ExitTopics     \* topics whose name begins with "exit"

ASSUME SubscriberAssumption ==
  /\ MaxCommands \in Nat
  /\ ExitTopics \subseteq Topics

VARIABLES
  proc,    \* "none", "connected" (id not sent yet), "running", "done"
  id,      \* argv[1]
  typedN,  \* commands typed so far, in all runs
  shut     \* connections of an ended broker on which a send met the reset

subVars == <<proc, id, typedN, shut>>

SubTypeOK ==
  /\ proc \in [Conns -> {"none", "connected", "running", "done"}]
  /\ id \in [Conns -> Ids \cup {Anonymous}]
  /\ typedN \in 0..MaxCommands
  /\ shut \subseteq Conns

SubInit ==
  /\ proc = [c \in Conns |-> "none"]
  /\ id = [c \in Conns |-> Anonymous]
  /\ typedN = 0
  /\ shut = {}

(* The program starts; runs are numbered in the order they connect.  The   *)
(* connection is complete before the broker accepts it.                    *)
Connect(c) ==
  /\ proc[c] = "none"
  /\ \A d \in 1..(c - 1) : proc[d] # "none"
  /\ server \notin Stopped
  /\ \E i \in Ids : id' = [id EXCEPT ![c] = i]
  /\ proc' = [proc EXCEPT ![c] = "connected"]
  /\ link' = [link EXCEPT ![c] = "open"]
  /\ backlog' = Append(backlog, c)
  /\ UNCHANGED <<typedN, shut, up, got, conn_of, published, handled, typed, server>>

(* One send, whose result the program ignores.  The broker's reset may     *)
(* still be on its way when it is made.                                    *)
WasReset(c) == c \in ToSet(backlog) \/ up[c] # <<>>

Sends(c, text) ==
  \/ /\ server \notin Stopped
     /\ up' = [up EXCEPT ![c] = Append(@, text)]
     /\ proc' = [proc EXCEPT ![c] = "running"]
     /\ UNCHANGED shut
  \/ /\ server \in Stopped /\ c \notin shut
     /\ shut' \in {shut, shut \cup {c}}
     /\ proc' = [proc EXCEPT ![c] = "running"]
     /\ UNCHANGED up
  \/ /\ server \in Stopped /\ c \in shut
     /\ proc' = [proc EXCEPT ![c] = "done"]
     /\ UNCHANGED <<up, shut>>

SendId(c) ==
  /\ proc[c] = "connected"
  /\ Sends(c, IdText)
  /\ UNCHANGED <<id, typedN, link, got, backlog, conn_of, published, handled,
                 typed, server>>

(* Lines that are no command are sent as well, and ignored by the broker.  *)
TypeCommand(c) ==
  /\ proc[c] = "running"
  /\ typedN < MaxCommands
  /\ typedN' = typedN + 1
  /\ \E cmd \in Commands : Sends(c, cmd)
  /\ UNCHANGED <<id, link, got, backlog, conn_of, published, handled, typed, server>>

(* "exit" on the keyboard; or the process is killed.                       *)
Leave(c) ==
  /\ proc[c] \in {"connected", "running"}
  /\ proc' = [proc EXCEPT ![c] = "done"]
  /\ CloseByClient(c)
  /\ UNCHANGED <<id, typedN, shut, up, got, backlog, conn_of, published, handled,
                 typed, server>>

(* A record whose first four bytes are "exit" ends the program, and the    *)
(* topic is what a datagram begins with.  Any other record is printed.     *)
LooksLikeExit(r) == IF r = ExitRecord THEN TRUE ELSE published[r.msg] \in ExitTopics

ReceiveExit(c) ==
  /\ proc[c] = "running"
  /\ \E k \in DOMAIN got[c] : LooksLikeExit(got[c][k])
  /\ proc' = [proc EXCEPT ![c] = "done"]
  /\ CloseByClient(c)
  /\ UNCHANGED <<id, typedN, shut, up, got, backlog, conn_of, published, handled,
                 typed, server>>

(* recv fails: it is the first to be told of the reset.                    *)
ConnectionLost(c) ==
  /\ proc[c] = "running"
  /\ server \in Stopped
  /\ WasReset(c)
  /\ c \notin shut
  /\ \A k \in DOMAIN got[c] : ~LooksLikeExit(got[c][k])
  /\ proc' = [proc EXCEPT ![c] = "done"]
  /\ UNCHANGED <<id, typedN, shut, netVars, server>>

SubNext(c) == Connect(c) \/ SendId(c) \/ TypeCommand(c) \/ Leave(c) \/ ReceiveExit(c)
              \/ ConnectionLost(c)
=============================================================================
