--------------------------- MODULE PubSubTypeProofs ---------------------------
(***************************************************************************)
(* The broker and its subscribers, for every value of the constants: types *)
(* and the tables of subscriptions and descriptors.                        *)
(***************************************************************************)
EXTENDS PubSub, LibraryLemmas

(* Descriptors whose client has been entered in the tables.                *)
Registered == {f \in read_fds : server = "login" => f # newsockfd}

(* The loop variables, in each place the broker can be.                    *)
LoopOK ==
  /\ tmp_fds \cap Fds \subseteq read_fds
  /\ server \in {"running", "fanout", "broadcast", "exited"} => newsockfd = 0
  /\ server \in {"login", "flush"} => newsockfd \in read_fds
  /\ server = "flush" => it \in 1..Len(sf_messages[sock_to_id[newsockfd]])
  /\ server = "fanout" => handled # 0 /\ it \in 1..Len(topics[published[handled]])
  /\ server \in {"running", "fanout"} /\ sockfd_tcp \in tmp_fds => backlog # <<>>
  /\ server \in {"running", "login", "flush"} /\ sockfd_udp \in tmp_fds =>
       handled < Len(published)

DescriptorsOK ==
  /\ \A f \in Fds : f \in read_fds <=> conn_of[f] # NoConn
  /\ Len(published) <= MaxMsgs

(* The id comes first, and on a connection that is logged in only commands *)
(* arrive; a connection is closed by its client's end.                     *)
CommandsOnly ==
  /\ \A c \in Conns : proc[c] \in {"none", "connected"} => up[c] = <<>>
  /\ \A c \in Conns : link[c] \notin {"none", "open"} => proc[c] = "done"
  /\ \A f \in Registered : /\ proc[conn_of[f]] \in {"running", "done"}
                           /\ up[conn_of[f]] \in Seq(Commands)

Typed == TypeOK /\ LoopOK /\ DescriptorsOK /\ CommandsOnly

(* What StoreForSubscribersOnly needs: whoever may still subscribe has a   *)
(* descriptor on record.                                                   *)
TablesOK ==
  /\ \A t \in Topics :
       /\ sf_clients[t] \subseteq ToSet(topics[t])
       /\ \A j, k \in DOMAIN topics[t] : topics[t][j] = topics[t][k] => j = k
       /\ \A n \in ToSet(topics[t]) : id_to_sock[n] \in Fds
  /\ \A f \in Registered : id_to_sock[sock_to_id[f]] \in Fds

-----------------------------------------------------------------------------
(* Lemmas on lists.                                                        *)

(* RemoveFirst takes one element out of a list and keeps the others in     *)
(* their order; a list without the element stays as it is.                 *)
LEMMA RemoveFirstRemoves ==
  ASSUME NEW S, NEW s \in Seq(S), NEW e
  PROVE  \/ RemoveFirst(s, e) = s /\ \A i \in 1..Len(s) : s[i] # e
         \/ \E p \in 1..Len(s) :
              /\ s[p] = e
              /\ RemoveFirst(s, e) \in Seq(S)
              /\ Len(RemoveFirst(s, e)) = Len(s) - 1
              /\ \A i \in 1..(p - 1) : RemoveFirst(s, e)[i] = s[i]
              /\ \A i \in p..(Len(s) - 1) : RemoveFirst(s, e)[i] = s[i + 1]
<1> DEFINE I == {i \in 1..Len(s) : s[i] = e}
           p == Min(I)
<1>1. CASE I = {}
  BY <1>1 DEF RemoveFirst
<1>2. CASE I # {}
  <2>1. Len(s) \in Nat /\ I \in SUBSET Nat
    OBVIOUS
  <2>2. \E m \in I : \A i \in I : m <= i
    BY <1>2, <2>1, LeastNumber
  <2>3. p \in I
    BY <2>2, Zenon DEF Min
  <2>4. SelectInSeq(s, LAMBDA v : v = e) = p
    BY <1>2 DEF SelectInSeq
  <2>5. RemoveFirst(s, e) = SubSeq(s, 1, p - 1) \o SubSeq(s, p + 1, Len(s))
    BY <1>2, <2>4 DEF RemoveFirst, RemoveAt
  <2> HIDE DEF p
  <2> DEFINE left == SubSeq(s, 1, p - 1)
             right == SubSeq(s, p + 1, Len(s))
  <2>6. p \in 1..Len(s) /\ s[p] = e
    BY <2>3
  <2>7. /\ left \in Seq(S) /\ Len(left) = p - 1
        /\ \A i \in 1..(p - 1) : left[i] = s[i]
    BY <2>1, <2>6
  <2>8. /\ right \in Seq(S) /\ Len(right) = Len(s) - p
        /\ \A i \in 1..(Len(s) - p) : right[i] = s[i + p]
    BY <2>1, <2>6
  <2> HIDE DEF left, right
  <2>9. /\ left \o right \in Seq(S)
        /\ Len(left \o right) = Len(s) - 1
        /\ \A i \in 1..(Len(s) - 1) :
             (left \o right)[i] = IF i <= p - 1 THEN left[i] ELSE right[i - (p - 1)]
    <3>1. /\ left \o right \in Seq(S)
          /\ Len(left \o right) = Len(left) + Len(right)
          /\ \A i \in 1..(Len(left) + Len(right)) :
               (left \o right)[i] = IF i <= Len(left) THEN left[i] ELSE right[i - Len(left)]
      BY <2>7, <2>8, ConcatProperties, Zenon
    <3> QED BY <2>1, <2>6, <2>7, <2>8, <3>1
  <2>10. \A i \in 1..(p - 1) : (left \o right)[i] = s[i]
    BY <2>1, <2>6, <2>7, <2>9
  <2>11. \A i \in p..(Len(s) - 1) : (left \o right)[i] = s[i + 1]
    BY <2>1, <2>6, <2>8, <2>9
  <2> QED BY <2>5, <2>6, <2>9, <2>10, <2>11 DEF left, right
<1> QED BY <1>1, <1>2

NoRepeats(s) == \A j, k \in DOMAIN s : s[j] = s[k] => j = k

(* From a list without repeats it removes the element for good.            *)
LEMMA RemoveFirstFromList ==
  ASSUME NEW S, NEW s \in Seq(S), NEW e, NoRepeats(s)
  PROVE  /\ RemoveFirst(s, e) \in Seq(S)
         /\ NoRepeats(RemoveFirst(s, e))
         /\ ToSet(RemoveFirst(s, e)) = ToSet(s) \ {e}
<1> DEFINE r == RemoveFirst(s, e)
<1>1. CASE r = s /\ \A i \in 1..Len(s) : s[i] # e
  BY <1>1 DEF ToSet
<1>2. CASE \E p \in 1..Len(s) :
              /\ s[p] = e
              /\ r \in Seq(S)
              /\ Len(r) = Len(s) - 1
              /\ \A i \in 1..(p - 1) : r[i] = s[i]
              /\ \A i \in p..(Len(s) - 1) : r[i] = s[i + 1]
  <2>1. PICK p \in 1..Len(s) :
              /\ s[p] = e
              /\ r \in Seq(S)
              /\ Len(r) = Len(s) - 1
              /\ \A i \in 1..(p - 1) : r[i] = s[i]
              /\ \A i \in p..(Len(s) - 1) : r[i] = s[i + 1]
    BY <1>2
  <2> HIDE DEF r
  <2>2. Len(s) \in Nat /\ DOMAIN s = 1..Len(s) /\ DOMAIN r = 1..(Len(s) - 1)
    BY <2>1
  <2>3. \A j, k \in 1..Len(s) : s[j] = s[k] => j = k
    BY <2>2 DEF NoRepeats
  <2>4. \A i \in 1..(Len(s) - 1) : r[i] = s[IF i < p THEN i ELSE i + 1]
    BY <2>1, <2>2
  <2>5. NoRepeats(r)
    BY <2>1, <2>2, <2>3, <2>4 DEF NoRepeats
  <2>6. \A i \in 1..(Len(s) - 1) : r[i] \in ToSet(s) \ {e}
    <3> TAKE i \in 1..(Len(s) - 1)
    <3>1. PICK j \in 1..Len(s) : j # p /\ r[i] = s[j]
      BY <2>1, <2>2, <2>4
    <3>2. s[j] \in ToSet(s)
      BY <2>2 DEF ToSet
    <3>3. s[j] # e
      BY <2>1, <2>3, <3>1
    <3> QED BY <3>1, <3>2, <3>3
  <2>7. \A j \in 1..Len(s) : s[j] # e => \E i \in 1..(Len(s) - 1) : r[i] = s[j]
    <3> TAKE j \in 1..Len(s)
    <3>1. HAVE s[j] # e
    <3>2. CASE j < p
      BY <2>1, <2>2, <3>2
    <3>3. CASE j > p
      <4>1. j - 1 \in p..(Len(s) - 1) /\ j - 1 \in 1..(Len(s) - 1) /\ (j - 1) + 1 = j
        BY <2>1, <2>2, <3>3
      <4>2. r[j - 1] = s[(j - 1) + 1]
        BY <2>1, <4>1, Zenon
      <4> QED BY <4>1, <4>2
    <3> QED BY <2>1, <2>2, <3>1, <3>2, <3>3
  <2>8. ToSet(r) = ToSet(s) \ {e}
    <3>1. ToSet(r) \subseteq ToSet(s) \ {e}
      BY <2>2, <2>6 DEF ToSet
    <3>2. ToSet(s) \ {e} \subseteq ToSet(r)
      BY <2>2, <2>7 DEF ToSet
    <3> QED BY <3>1, <3>2
  <2> QED BY <2>1, <2>5, <2>8 DEF r
<1> QED BY <1>1, <1>2, RemoveFirstRemoves

(* Appending an element that is not there adds it, once.                   *)
LEMMA AppendToList ==
  ASSUME NEW S, NEW s \in Seq(S), NEW e \in S, NoRepeats(s), ~Contains(s, e)
  PROVE  /\ Append(s, e) \in Seq(S)
         /\ NoRepeats(Append(s, e))
         /\ ToSet(Append(s, e)) = ToSet(s) \cup {e}
<1> DEFINE r == Append(s, e)
<1>1. /\ Len(s) \in Nat /\ DOMAIN s = 1..Len(s)
      /\ r \in Seq(S) /\ DOMAIN r = 1..(Len(s) + 1)
      /\ \A i \in 1..Len(s) : r[i] = s[i]
      /\ r[Len(s) + 1] = e
  OBVIOUS
<1> HIDE DEF r
<1>2. NoRepeats(r)
  BY <1>1 DEF NoRepeats, Contains
<1>3. ToSet(r) = ToSet(s) \cup {e}
  BY <1>1 DEF ToSet
<1> QED BY <1>1, <1>2, <1>3 DEF r
-----------------------------------------------------------------------------
(* Types.                                                                  *)

LEMMA Numbers ==
  /\ MaxConns \in Nat /\ MaxMsgs \in Nat /\ MaxCommands \in Nat /\ MaxFds \in Nat \ {0}
  /\ Conns \subseteq Nat \ {0} /\ Fds \subseteq Nat /\ \A f \in Fds : f > 4
  /\ NoConn \notin Conns /\ 0 \notin Fds
  /\ Conns \subseteq Names /\ Anonymous \in Names
  /\ StoreFlags \subseteq BOOLEAN
BY ConnectionsAssumption, SubscriberAssumption DEF Conns, Fds, NoConn, Names

LEMMA ExitRecordTyped == ExitRecord \in Records
BY Numbers DEF ExitRecord, Records

LEMMA CommandsAreTexts == Commands \subseteq Texts /\ IdText \in Texts
BY DEF Texts

(* One send adds a record to what a connection got, and moves its link     *)
(* only from closed to dead.                                               *)
LEMMA SendEffect ==
  ASSUME got \in [Conns -> Seq(Records)], link \in [Conns -> Links],
         NEW c \in Conns, NEW r \in Records, Send(c, r)
  PROVE  /\ got' = [got EXCEPT ![c] = Append(got[c], r)]
         /\ got' \in [Conns -> Seq(Records)]
         /\ link' \in [Conns -> Links]
         /\ \A d \in Conns : \/ link'[d] = link[d]
                             \/ link[d] \in {"fin", "reset"} /\ link'[d] = "dead"
<1>1. got' = [got EXCEPT ![c] = Append(got[c], r)]
  BY DEF Send
<1>2. Append(got[c], r) \in Seq(Records)
  OBVIOUS
<1>3. PICK l \in AfterSend(link[c]) : link' = [link EXCEPT ![c] = l]
  BY DEF Send
<1>4. l = link[c] \/ (link[c] \in {"fin", "reset"} /\ l = "dead")
  BY <1>3 DEF AfterSend
<1>5. l \in Links
  BY <1>4 DEF Links
<1> QED BY <1>1, <1>2, <1>3, <1>4, <1>5

LEMMA CloseEffect ==
  ASSUME link \in [Conns -> Links], NEW c \in Conns, CloseByClient(c)
  PROVE  \E l \in {"fin", "reset"} : link' = [link EXCEPT ![c] = l]
BY DEF CloseByClient

LEMMA InitTyped == Init => Typed
<1> SUFFICES ASSUME Init PROVE Typed
  OBVIOUS
<1> USE DEF Init, NetInit, BrokerInit, SubInit
<1>1. NetTypeOK
  <2>1. /\ up \in [Conns -> Seq(Texts)] /\ got \in [Conns -> Seq(Records)]
        /\ backlog \in Seq(Conns) /\ published \in Seq(Topics) /\ Len(published) = 0
    OBVIOUS
  <2>2. link \in [Conns -> Links] /\ conn_of \in [Fds -> Conns \cup {NoConn}]
    BY DEF Links
  <2>3. handled \in 0..MaxMsgs /\ handled <= Len(published)
    <3>1. handled = 0
      BY Zenon
    <3> QED BY <2>1, <3>1, Numbers, SMT
  <2>4. typed \in BOOLEAN
    BY Zenon
  <2> QED BY <2>1, <2>2, <2>3, <2>4, Zenon DEF NetTypeOK
<1>2. BrokerTypeOK
  BY Numbers DEF BrokerTypeOK, ServerStates
<1>3. SubTypeOK
  BY Numbers DEF SubTypeOK
<1>4. LoopOK /\ DescriptorsOK /\ CommandsOnly
  BY Numbers DEF LoopOK, DescriptorsOK, CommandsOnly, Registered
<1> QED BY <1>1, <1>2, <1>3, <1>4 DEF Typed, TypeOK

(* What a send of a subscriber does, whether or not the broker is there.   *)
LEMMA SendsEffect ==
  ASSUME SubTypeOK, NEW c \in Conns, NEW text, Sends(c, text)
  PROVE  /\ \E p \in {"running", "done"} : proc' = [proc EXCEPT ![c] = p]
         /\ up' = up \/ up' = [up EXCEPT ![c] = Append(@, text)]
         /\ shut' \subseteq Conns
<1>1. CASE server \in Stopped /\ c \notin shut
  BY <1>1 DEF Sends, SubTypeOK
<1>2. CASE server \in Stopped /\ c \in shut
  BY <1>2 DEF Sends, SubTypeOK
<1>3. CASE server \notin Stopped
  BY <1>3 DEF Sends, SubTypeOK
<1> QED BY <1>1, <1>2, <1>3

(* What the environment and the subscribers leave alone.                   *)
LEMMA SubscriberTyped ==
  ASSUME Typed, NEW c \in Conns, SubscriberNext(c)
  PROVE  Typed'
<1> USE DEF SubscriberNext, SubNext, loopVars, tables, netVars
<1>0. NetTypeOK /\ BrokerTypeOK /\ SubTypeOK /\ LoopOK /\ DescriptorsOK /\ CommandsOnly
  BY DEF Typed, TypeOK
<1>1. BrokerTypeOK'
  <2>1. UNCHANGED brokerVars
    BY DEF Connect, SendId, TypeCommand, Sends, Leave, ReceiveExit, ConnectionLost, brokerVars
  <2> QED BY <1>0, <2>1 DEF BrokerTypeOK, brokerVars
<1>2. /\ UNCHANGED <<got, conn_of, published, handled, typed>> /\ UNCHANGED brokerVars
  BY DEF Connect, SendId, TypeCommand, Sends, Leave, ReceiveExit, ConnectionLost, brokerVars
<1>3. CASE Connect(c)
  <2>1. link' = [link EXCEPT ![c] = "open"] /\ proc' = [proc EXCEPT ![c] = "connected"]
        /\ backlog' = Append(backlog, c) /\ UNCHANGED <<up, typedN, shut>>
        /\ \E i \in Ids : id' = [id EXCEPT ![c] = i]
    BY <1>3 DEF Connect
  <2>2. NetTypeOK' /\ SubTypeOK'
    BY <1>0, <1>2, <2>1 DEF NetTypeOK, SubTypeOK, Links
  <2>3. LoopOK' /\ DescriptorsOK'
    <3>1. backlog' # <<>>
      <4>1. backlog \in Seq(Conns) /\ backlog' = Append(backlog, c)
        BY <1>0, <2>1 DEF NetTypeOK
      <4>2. Len(backlog') = Len(backlog) + 1 /\ Len(backlog) \in Nat
        BY <4>1
      <4> QED BY <4>2
    <3> QED BY <1>0, <1>2, <3>1 DEF LoopOK, DescriptorsOK, brokerVars
  <2>4. CommandsOnly'
    BY <1>0, <1>2, <1>3, <2>1 DEF CommandsOnly, Connect, Registered, brokerVars, NetTypeOK, SubTypeOK, DescriptorsOK, BrokerTypeOK
  <2> QED BY <1>1, <2>2, <2>3, <2>4 DEF Typed, TypeOK
<1>4. CASE SendId(c)
  <2>1. /\ proc[c] = "connected" /\ Sends(c, IdText) /\ UNCHANGED <<id, typedN, link, backlog>>
    BY <1>4 DEF SendId
  <2>2. PICK p \in {"running", "done"} : proc' = [proc EXCEPT ![c] = p]
    BY <1>0, <2>1, SendsEffect
  <2>3. (up' = up \/ up' = [up EXCEPT ![c] = Append(@, IdText)]) /\ shut' \subseteq Conns
    BY <1>0, <2>1, SendsEffect
  <2>4. NetTypeOK' /\ SubTypeOK'
    <3>1. up' \in [Conns -> Seq(Texts)]
      <4>1. up[c] \in Seq(Texts) /\ Append(up[c], IdText) \in Seq(Texts)
        BY <1>0, CommandsAreTexts DEF NetTypeOK
      <4> QED BY <1>0, <2>3, <4>1 DEF NetTypeOK
    <3>2. proc' \in [Conns -> {"none", "connected", "running", "done"}]
      BY <1>0, <2>2 DEF SubTypeOK
    <3> QED BY <1>0, <1>2, <2>1, <2>3, <3>1, <3>2 DEF NetTypeOK, SubTypeOK
  <2>5. LoopOK' /\ DescriptorsOK'
    BY <1>0, <1>2, <2>1 DEF LoopOK, DescriptorsOK, brokerVars
  <2>6. CommandsOnly'
    BY <1>0, <1>2, <2>1, <2>2, <2>3 DEF CommandsOnly, Registered, brokerVars, NetTypeOK, SubTypeOK, DescriptorsOK, BrokerTypeOK
  <2> QED BY <1>1, <2>4, <2>5, <2>6 DEF Typed, TypeOK
<1>5. CASE TypeCommand(c)
  <2>1. /\ proc[c] = "running" /\ typedN < MaxCommands /\ typedN' = typedN + 1
        /\ UNCHANGED <<id, link, backlog>>
    BY <1>5 DEF TypeCommand
  <2>2. PICK cmd \in Commands : Sends(c, cmd)
    BY <1>5 DEF TypeCommand
  <2>3. PICK p \in {"running", "done"} : proc' = [proc EXCEPT ![c] = p]
    BY <1>0, <2>2, SendsEffect
  <2>4. (up' = up \/ up' = [up EXCEPT ![c] = Append(@, cmd)]) /\ shut' \subseteq Conns
    BY <1>0, <2>2, SendsEffect
  <2>5. NetTypeOK' /\ SubTypeOK'
    <3>1. up' \in [Conns -> Seq(Texts)]
      <4>1. up[c] \in Seq(Texts) /\ Append(up[c], cmd) \in Seq(Texts)
        BY <1>0, CommandsAreTexts DEF NetTypeOK
      <4> QED BY <1>0, <2>4, <4>1 DEF NetTypeOK
    <3>2. proc' \in [Conns -> {"none", "connected", "running", "done"}]
      BY <1>0, <2>3 DEF SubTypeOK
    <3>3. typedN' \in 0..MaxCommands
      BY <1>0, <2>1, Numbers DEF SubTypeOK
    <3> QED BY <1>0, <1>2, <2>1, <2>4, <3>1, <3>2, <3>3 DEF NetTypeOK, SubTypeOK
  <2>6. LoopOK' /\ DescriptorsOK'
    BY <1>0, <1>2, <2>1 DEF LoopOK, DescriptorsOK, brokerVars
  <2>7. CommandsOnly'
    <3>1. \A d \in Conns : up[d] \in Seq(Commands) => up'[d] \in Seq(Commands)
      <4>1. up[c] \in Seq(Commands) => Append(up[c], cmd) \in Seq(Commands)
        OBVIOUS
      <4> QED BY <1>0, <2>4, <4>1 DEF NetTypeOK
    <3>2. \A d \in Conns : d # c => up'[d] = up[d] /\ proc'[d] = proc[d]
      BY <1>0, <2>3, <2>4 DEF NetTypeOK, SubTypeOK
    <3>3. proc'[c] \in {"running", "done"}
      BY <1>0, <2>3 DEF SubTypeOK
    <3>4. \A f \in Registered : conn_of[f] \in Conns
      BY <1>0 DEF Registered, DescriptorsOK, NetTypeOK, BrokerTypeOK
    <3>5. Registered' = Registered /\ UNCHANGED <<link, conn_of>>
      BY <1>2, <2>1 DEF Registered, brokerVars
    <3> QED BY <1>0, <2>1, <3>1, <3>2, <3>3, <3>4, <3>5 DEF CommandsOnly
  <2> QED BY <1>1, <2>5, <2>6, <2>7 DEF Typed, TypeOK
<1>6. CASE Leave(c) \/ ReceiveExit(c)
  <2>1. /\ proc[c] \in {"connected", "running"} /\ proc' = [proc EXCEPT ![c] = "done"]
        /\ CloseByClient(c) /\ UNCHANGED <<id, typedN, shut, up, backlog>>
    BY <1>6 DEF Leave, ReceiveExit
  <2>2. PICK l \in {"fin", "reset"} : link' = [link EXCEPT ![c] = l]
    BY <1>0, <2>1, CloseEffect DEF NetTypeOK
  <2>3. NetTypeOK' /\ SubTypeOK'
    BY <1>0, <1>2, <2>1, <2>2 DEF NetTypeOK, SubTypeOK, Links
  <2>4. LoopOK' /\ DescriptorsOK'
    BY <1>0, <1>2, <2>1 DEF LoopOK, DescriptorsOK, brokerVars
  <2>5. CommandsOnly'
    BY <1>0, <1>2, <2>1, <2>2 DEF CommandsOnly, Registered, brokerVars, NetTypeOK, SubTypeOK, DescriptorsOK, BrokerTypeOK
  <2> QED BY <1>1, <2>3, <2>4, <2>5 DEF Typed, TypeOK
<1>7. CASE ConnectionLost(c)
  <2>1. /\ proc[c] = "running" /\ proc' = [proc EXCEPT ![c] = "done"]
        /\ UNCHANGED <<id, typedN, shut, up, link, backlog>>
    BY <1>7 DEF ConnectionLost
  <2>2. NetTypeOK' /\ SubTypeOK'
    BY <1>0, <1>2, <2>1 DEF NetTypeOK, SubTypeOK
  <2>3. LoopOK' /\ DescriptorsOK'
    BY <1>0, <1>2, <2>1 DEF LoopOK, DescriptorsOK, brokerVars
  <2>4. CommandsOnly'
    BY <1>0, <1>2, <2>1 DEF CommandsOnly, Registered, brokerVars, NetTypeOK, SubTypeOK, DescriptorsOK, BrokerTypeOK
  <2> QED BY <1>1, <2>2, <2>3, <2>4 DEF Typed, TypeOK
<1> QED BY <1>3, <1>4, <1>5, <1>6, <1>7

(* Datagrams that arrive, and a line "exit".                               *)
LEMMA EnvironmentTyped ==
  ASSUME Typed, Publish \/ TypeExit
  PROVE  Typed'
<1> USE DEF brokerVars, subVars, loopVars, tables
<1>0. NetTypeOK /\ BrokerTypeOK /\ SubTypeOK /\ LoopOK /\ DescriptorsOK /\ CommandsOnly
  BY DEF Typed, TypeOK
<1>1. UNCHANGED <<link, up, got, backlog, conn_of, handled, brokerVars, subVars>>
  BY DEF Publish, TypeExit
<1>2. \/ published' = published
      \/ Len(published) < MaxMsgs /\ \E t \in Topics : published' = Append(published, t)
  BY DEF Publish, TypeExit
<1>3. published' \in Seq(Topics) /\ Len(published') <= MaxMsgs /\ Len(published') >= Len(published)
      /\ \A m \in 1..Len(published) : published'[m] = published[m]
  <2>1. published \in Seq(Topics) /\ Len(published) \in Nat /\ Len(published) <= MaxMsgs
    BY <1>0 DEF NetTypeOK, DescriptorsOK
  <2>2. CASE published' = published
    BY <2>1, <2>2
  <2>3. CASE \E t \in Topics : Len(published) < MaxMsgs /\ published' = Append(published, t)
    BY <2>1, <2>3, Numbers
  <2> QED BY <1>2, <2>2, <2>3
<1>4. typed' \in BOOLEAN
  BY <1>0 DEF Publish, TypeExit, NetTypeOK
<1>5. NetTypeOK'
  BY <1>0, <1>1, <1>3, <1>4, Numbers DEF NetTypeOK
<1>6. BrokerTypeOK' /\ SubTypeOK'
  BY <1>0, <1>1 DEF BrokerTypeOK, SubTypeOK
<1>7. LoopOK' /\ DescriptorsOK'
  BY <1>0, <1>1, <1>3, Numbers DEF LoopOK, DescriptorsOK, NetTypeOK
<1>8. CommandsOnly'
  BY <1>0, <1>1 DEF CommandsOnly, Registered
<1> QED BY <1>5, <1>6, <1>7, <1>8 DEF Typed, TypeOK

(* A command is a subscription or the end of one, by the client that       *)
(* logged in on the descriptor; glued commands may be none.                *)
LEMMA ParseEffect ==
  ASSUME NEW f, NEW texts \in Seq(Commands), texts # <<>>, parse_client_comm(f, texts)
  PROVE  \/ UNCHANGED <<topics, sf_clients>>
         \/ \E t \in Topics : unsubscribe(sock_to_id[f], t)
         \/ \E t \in Topics, sf \in BOOLEAN :
              /\ ~Contains(topics[t], sock_to_id[f])
              /\ topics' = [topics EXCEPT ![t] = Append(@, sock_to_id[f])]
              /\ sf_clients' = IF sf THEN [sf_clients EXCEPT ![t] = @ \cup {sock_to_id[f]}]
                               ELSE sf_clients
<1> DEFINE cmd == texts[1]
<1>1. cmd \in Commands
  OBVIOUS
<1>2. CASE cmd \in [op : {"subscribe"}, topic : Topics, sf : StoreFlags]
  <2>1. cmd.op # "unsubscribe" /\ cmd.topic \in Topics /\ cmd.sf \in BOOLEAN
    BY <1>2, Numbers
  <2>2. \/ UNCHANGED <<topics, sf_clients>>
        \/ subscribe(sock_to_id[f], cmd.topic, cmd.sf)
    BY <2>1, Zenon DEF parse_client_comm
  <2> HIDE DEF cmd
  <2> QED BY <2>1, <2>2, Zenon DEF subscribe
<1>3. CASE cmd \in [op : {"unsubscribe"}, topic : Topics]
  <2>1. cmd.op = "unsubscribe" /\ cmd.topic \in Topics
    BY <1>3
  <2> QED BY <2>1, Zenon DEF parse_client_comm
<1> QED BY <1>1, <1>2, <1>3 DEF Commands

LEMMA UnsubscribeTyped ==
  ASSUME BrokerTypeOK, NEW n, NEW t \in Topics, unsubscribe(n, t)
  PROVE  topics' \in [Topics -> Seq(Names)] /\ sf_clients' \in [Topics -> SUBSET Names]
<1>1. topics[t] \in Seq(Names) /\ topics \in [Topics -> Seq(Names)]
      /\ sf_clients \in [Topics -> SUBSET Names]
  BY DEF BrokerTypeOK
<1>2. RemoveFirst(topics[t], n) \in Seq(Names)
  BY <1>1, RemoveFirstRemoves
<1> QED BY <1>1, <1>2 DEF unsubscribe

(* The client that logs in is on a connection of its own descriptor, and   *)
(* what recv returned is an id, the empty string, or the glued texts.      *)
LEMMA ReceivedIdTyped ==
  ASSUME Typed, NEW c \in Conns
  PROVE  ReceivedId(c, id) \in {id[c], c, Anonymous} /\ ReceivedId(c, id) \in Names
BY Numbers DEF ReceivedId, Typed, TypeOK, SubTypeOK, Names

(* What the handlers that change the tables or the descriptors do.         *)

LEMMA AcceptEffect ==
  ASSUME Typed, accept_client
  PROVE  \E f \in Fds \ read_fds :
           /\ f \notin tmp_fds
           /\ conn_of' = [conn_of EXCEPT ![f] = Head(backlog)]
           /\ backlog' = Tail(backlog) /\ backlog # <<>>
           /\ read_fds' = read_fds \cup {f}
           /\ newsockfd' = f /\ newsockfd = 0
           /\ server = "running" /\ server' = "login"
           /\ UNCHANGED <<tmp_fds, it, tables, sf_messages, owed, link, up, got, published,
                          handled, typed>>
<1>0. NetTypeOK /\ BrokerTypeOK /\ LoopOK /\ DescriptorsOK
  BY DEF Typed, TypeOK
<1>1. PICK f \in FreeFds :
        /\ conn_of' = [conn_of EXCEPT ![f] = Head(backlog)]
        /\ backlog' = Tail(backlog)
        /\ read_fds' = read_fds \cup {f}
        /\ newsockfd' = f
  BY DEF accept_client
<1>2. /\ server = "running" /\ server' = "login" /\ newsockfd = 0
      /\ UNCHANGED <<tmp_fds, it, tables, sf_messages, owed, link, up, got, published,
                     handled, typed>>
  BY <1>0 DEF accept_client, At, LoopOK
<1>3. backlog # <<>>
  BY <1>0, <1>2 DEF accept_client, At, LoopOK
<1>4. f \in Fds \ read_fds /\ f \notin tmp_fds
  BY <1>0 DEF FreeFds, DescriptorsOK, LoopOK
<1> QED BY <1>1, <1>2, <1>3, <1>4

LEMMA LoginEffect ==
  ASSUME Typed, login(id)
  PROVE  LET c == conn_of[newsockfd]
             n == ReceivedId(c, id)
         IN /\ newsockfd \in read_fds /\ newsockfd \in Fds /\ c \in Conns
            /\ n \in Names /\ n \in {id[c], c, Anonymous}
            /\ server = "login" /\ Readable(c)
            /\ sock_to_id' = [sock_to_id EXCEPT ![newsockfd] = n]
            /\ id_to_sock' = [id_to_sock EXCEPT ![n] = newsockfd]
            /\ up' = [up EXCEPT ![c] = <<>>]
            /\ link' = IF up[c] = <<>> /\ link[c] = "reset" THEN [link EXCEPT ![c] = "dead"]
                       ELSE link
            /\ \/ /\ server' = "flush" /\ it' = 1 /\ sf_messages[n] # <<>>
                  /\ UNCHANGED <<newsockfd, tmp_fds>>
               \/ /\ server' = "running" /\ it' = 0 /\ newsockfd' = 0 /\ sf_messages[n] = <<>>
                  /\ tmp_fds' = tmp_fds \ {sockfd_tcp}
            /\ UNCHANGED <<read_fds, topics, sf_clients, sf_messages, owed, got,
                           backlog, conn_of, published, handled, typed>>
<1> DEFINE c == conn_of[newsockfd]
           n == ReceivedId(c, id)
<1>1. /\ server = "login" /\ Readable(c) /\ Register(n, newsockfd)
      /\ up' = [up EXCEPT ![c] = <<>>]
      /\ link' = IF up[c] = <<>> /\ link[c] = "reset" THEN [link EXCEPT ![c] = "dead"]
                 ELSE link
      /\ IF sf_messages[n] # <<>> THEN BeginFlush ELSE EndLogin
      /\ UNCHANGED <<read_fds, topics, sf_clients, sf_messages, owed, got,
                     backlog, conn_of, published, handled, typed>>
  BY DEF login
<1>2. newsockfd \in read_fds /\ newsockfd \in Fds /\ c \in Conns
  BY <1>1 DEF Typed, TypeOK, LoopOK, DescriptorsOK, BrokerTypeOK, NetTypeOK
<1>3. n \in Names /\ n \in {id[c], c, Anonymous}
  BY <1>2, ReceivedIdTyped
<1> HIDE DEF n, c
<1> QED BY <1>1, <1>2, <1>3, Zenon DEF Register, BeginFlush, EndLogin, c, n

LEMMA FlushEffect ==
  ASSUME Typed, flush
  PROVE  LET n == sock_to_id[newsockfd]
             stored == sf_messages[n]
             r == [msg |-> stored[it], on |-> n]
         IN /\ server = "flush" /\ newsockfd \in read_fds /\ n \in Names
            /\ stored \in Seq(1..MaxMsgs) /\ it \in 1..Len(stored) /\ r \in Records
            /\ UNCHANGED <<read_fds, tables, owed, up, backlog, conn_of, published, handled, typed>>
            /\ \/ /\ server' = "died" /\ UNCHANGED <<link, got, loopVars, tmp_fds, sf_messages>>
               \/ /\ Send(conn_of[newsockfd], r)
                  /\ it < Len(stored) /\ it' = it + 1
                  /\ UNCHANGED <<server, newsockfd, tmp_fds, sf_messages>>
               \/ /\ Send(conn_of[newsockfd], r)
                  /\ it = Len(stored) /\ server' = "running" /\ it' = 0 /\ newsockfd' = 0
                  /\ tmp_fds' = tmp_fds \ {sockfd_tcp}
                  /\ sf_messages' = [sf_messages EXCEPT ![n] = <<>>]
<1> DEFINE n == sock_to_id[newsockfd]
           stored == sf_messages[n]
           r == [msg |-> stored[it], on |-> n]
<1>0. NetTypeOK /\ BrokerTypeOK /\ LoopOK
  BY DEF Typed, TypeOK
<1>1. /\ server = "flush"
      /\ UNCHANGED <<read_fds, tables, owed, up, backlog, conn_of, published, handled, typed>>
      /\ \/ /\ server' = "died" /\ UNCHANGED <<link, got, loopVars, tmp_fds, sf_messages>>
         \/ /\ Send(conn_of[newsockfd], r)
            /\ IF it < Len(stored)
               THEN it' = it + 1 /\ UNCHANGED <<server, newsockfd, tmp_fds, sf_messages>>
               ELSE EndFlush(n)
  BY DEF flush, SendOr
<1>2. newsockfd \in read_fds /\ newsockfd \in Fds /\ n \in Names
  BY <1>0, <1>1 DEF LoopOK, BrokerTypeOK
<1>3. stored \in Seq(1..MaxMsgs) /\ it \in 1..Len(stored)
  BY <1>0, <1>1, <1>2 DEF LoopOK, BrokerTypeOK
<1>4. stored[it] \in 1..MaxMsgs
  BY <1>3, ElementOfSeq, Zenon
<1>5. r \in Records
  BY <1>2, <1>4, Numbers DEF Records
<1> HIDE DEF n, r, stored
<1>6. Len(stored) \in Nat /\ (~(it < Len(stored)) => it = Len(stored))
  BY <1>3
<1> QED BY <1>1, <1>2, <1>3, <1>5, <1>6, Zenon DEF EndFlush, EndLogin, n, r, stored

(* Where the loop of recv_udp is.                                          *)
LEMMA InFanout ==
  ASSUME Typed, server = "fanout"
  PROVE  /\ handled \in 1..MaxMsgs /\ handled <= Len(published)
         /\ published[handled] \in Topics
         /\ topics[published[handled]] \in Seq(Names)
         /\ it \in 1..Len(topics[published[handled]])
         /\ topics[published[handled]][it] \in Names
<1>0. NetTypeOK /\ BrokerTypeOK /\ LoopOK
  BY DEF Typed, TypeOK
<1>1. handled \in 1..MaxMsgs /\ handled <= Len(published) /\ published \in Seq(Topics)
      /\ it \in 1..Len(topics[published[handled]])
  BY <1>0, Numbers DEF NetTypeOK, LoopOK
<1>2. handled \in 1..Len(published)
  BY <1>1, Numbers
<1>3. published[handled] \in Topics
  BY <1>1, <1>2, ElementOfSeq
<1>4. topics[published[handled]] \in Seq(Names)
  BY <1>0, <1>3 DEF BrokerTypeOK
<1>5. topics[published[handled]][it] \in Names
  BY <1>1, <1>4, ElementOfSeq
<1> QED BY <1>1, <1>3, <1>4, <1>5

LEMMA FanoutEffect ==
  ASSUME Typed, fanout
  PROVE  LET t == published[handled]
             n == topics[t][it]
             r == [msg |-> handled, on |-> n]
         IN /\ server = "fanout" /\ handled \in 1..MaxMsgs /\ handled <= Len(published)
            /\ t \in Topics /\ topics[t] \in Seq(Names) /\ it \in 1..Len(topics[t])
            /\ n \in Names /\ r \in Records
            /\ UNCHANGED <<read_fds, tables, owed, up, backlog, conn_of, published, handled, typed>>
            /\ \/ /\ server' = "died" /\ UNCHANGED <<link, got, loopVars, tmp_fds, sf_messages>>
               \/ /\ Online(n) /\ Send(conn_of[id_to_sock[n]], r)
                  /\ NextSubscriber(t) /\ UNCHANGED sf_messages
               \/ /\ ~Online(n) /\ Store(n, t) /\ NextSubscriber(t) /\ UNCHANGED <<link, got>>
<1> DEFINE t == published[handled]
           n == topics[t][it]
           r == [msg |-> handled, on |-> n]
<1>1. /\ server = "fanout"
      /\ UNCHANGED <<read_fds, tables, owed, up, backlog, conn_of, published, handled, typed>>
  BY DEF fanout
<1>2. \/ /\ server' = "died" /\ UNCHANGED <<link, got, loopVars, tmp_fds, sf_messages>>
      \/ /\ Online(n) /\ Send(conn_of[id_to_sock[n]], r)
         /\ NextSubscriber(t) /\ UNCHANGED sf_messages
      \/ /\ ~Online(n) /\ Store(n, t) /\ NextSubscriber(t) /\ UNCHANGED <<link, got>>
  BY DEF fanout, SendOr
<1>3. /\ handled \in 1..MaxMsgs /\ handled <= Len(published)
      /\ t \in Topics /\ topics[t] \in Seq(Names) /\ it \in 1..Len(topics[t]) /\ n \in Names
  BY <1>1, InFanout
<1>4. r \in Records
  BY <1>3, Numbers DEF Records
<1> QED BY <1>1, <1>2, <1>3, <1>4, Zenon

LEMMA BroadcastEffect ==
  ASSUME Typed, broadcast
  PROVE  /\ server = "broadcast"
         /\ \/ server' \in {"exited", "died"} /\ UNCHANGED <<link, got, it>>
            \/ \E f \in ToldNext : /\ Send(conn_of[f], ExitRecord)
                                  /\ it' = f /\ UNCHANGED server
         /\ UNCHANGED <<read_fds, tmp_fds, newsockfd, tables, sf_messages, owed, up,
                        backlog, conn_of, published, handled, typed>>
BY Zenon DEF broadcast

LEMMA RecvCommandEffect ==
  ASSUME Typed, NEW f \in Fds, recv_command(f)
  PROVE  LET n == sock_to_id[f]
         IN /\ f \in read_fds /\ f \in Registered /\ conn_of[f] \in Conns /\ n \in Names
            /\ server = "running"
            /\ \/ UNCHANGED <<topics, sf_clients>>
               \/ \E t \in Topics : unsubscribe(n, t)
               \/ \E t \in Topics, sf \in BOOLEAN :
                    /\ ~Contains(topics[t], n)
                    /\ topics' = [topics EXCEPT ![t] = Append(@, n)]
                    /\ sf_clients' = IF sf THEN [sf_clients EXCEPT ![t] = @ \cup {n}]
                                     ELSE sf_clients
            /\ up' = [up EXCEPT ![conn_of[f]] = <<>>]
            /\ tmp_fds' = tmp_fds \ {f}
            /\ UNCHANGED <<server, read_fds, loopVars, sock_to_id, id_to_sock, sf_messages, owed,
                           link, got, backlog, conn_of, published, handled, typed>>
<1>0. NetTypeOK /\ BrokerTypeOK /\ LoopOK /\ DescriptorsOK /\ CommandsOnly
  BY DEF Typed, TypeOK
<1>1. /\ server = "running" /\ up[conn_of[f]] # <<>> /\ f \in tmp_fds
      /\ parse_client_comm(f, up[conn_of[f]])
      /\ up' = [up EXCEPT ![conn_of[f]] = <<>>]
      /\ tmp_fds' = tmp_fds \ {f}
      /\ UNCHANGED <<server, read_fds, loopVars, sock_to_id, id_to_sock, sf_messages, owed,
                     link, got, backlog, conn_of, published, handled, typed>>
  BY DEF recv_command, At
<1>2. /\ f \in read_fds /\ f \in Registered /\ conn_of[f] \in Conns
      /\ up[conn_of[f]] \in Seq(Commands)
  BY <1>0, <1>1 DEF LoopOK, DescriptorsOK, NetTypeOK, CommandsOnly, Registered
<1>3. sock_to_id[f] \in Names
  BY <1>0 DEF BrokerTypeOK
<1>4. \/ UNCHANGED <<topics, sf_clients>>
      \/ \E t \in Topics : unsubscribe(sock_to_id[f], t)
      \/ \E t \in Topics, sf \in BOOLEAN :
           /\ ~Contains(topics[t], sock_to_id[f])
           /\ topics' = [topics EXCEPT ![t] = Append(@, sock_to_id[f])]
           /\ sf_clients' = IF sf THEN [sf_clients EXCEPT ![t] = @ \cup {sock_to_id[f]}]
                            ELSE sf_clients
  BY <1>1, <1>2, ParseEffect
<1> QED BY <1>1, <1>2, <1>3, <1>4, Zenon

LEMMA ClientClosedEffect ==
  ASSUME Typed, NEW f \in Fds, client_closed(f)
  PROVE  LET c == conn_of[f]
         IN /\ f \in read_fds /\ c \in Conns
            /\ server = "running" /\ link[c] \in {"fin", "dead"} /\ up[c] = <<>>
            /\ link' = [link EXCEPT ![c] = "gone"]
            /\ conn_of' = [conn_of EXCEPT ![f] = NoConn]
            /\ read_fds' = read_fds \ {f}
            /\ tmp_fds' = tmp_fds \ {f}
            /\ UNCHANGED <<server, loopVars, tables, sf_messages, owed, up, got, backlog,
                           published, handled, typed>>
BY DEF client_closed, At, Typed, TypeOK, LoopOK, DescriptorsOK, NetTypeOK

-----------------------------------------------------------------------------
(* Every step keeps the types.                                             *)

LEMMA SelectTyped ==
  ASSUME Typed, Select, UNCHANGED subVars
  PROVE  Typed'
<1> USE DEF loopVars, tables, netVars, subVars, Select
<1>0. NetTypeOK /\ BrokerTypeOK /\ SubTypeOK /\ LoopOK /\ DescriptorsOK /\ CommandsOnly
  BY DEF Typed, TypeOK
<1>1. NetTypeOK' /\ SubTypeOK' /\ DescriptorsOK' /\ CommandsOnly'
  BY <1>0 DEF NetTypeOK, SubTypeOK, DescriptorsOK, CommandsOnly, Registered
<1>2. tmp_fds' \subseteq {STDIN_FILENO, sockfd_tcp, sockfd_udp} \cup Fds
  BY <1>0 DEF Ready, BrokerTypeOK
<1>3. BrokerTypeOK'
  BY <1>0, <1>2 DEF BrokerTypeOK
<1>4. sockfd_tcp \notin read_fds /\ sockfd_udp \notin read_fds
  BY <1>0, Numbers DEF BrokerTypeOK, sockfd_tcp, sockfd_udp
<1>5. tmp_fds' \cap Fds \subseteq read_fds'
  BY Numbers DEF Ready, sockfd_tcp, sockfd_udp, STDIN_FILENO
<1>6. LoopOK'
  BY <1>0, <1>4, <1>5 DEF LoopOK, Ready, sockfd_tcp, sockfd_udp, STDIN_FILENO
<1> QED BY <1>1, <1>3, <1>6 DEF Typed, TypeOK

LEMMA AcceptTyped ==
  ASSUME Typed, accept_client, UNCHANGED subVars
  PROVE  Typed'
<1> USE DEF loopVars, tables, netVars, subVars
<1>0. NetTypeOK /\ BrokerTypeOK /\ SubTypeOK /\ LoopOK /\ DescriptorsOK /\ CommandsOnly
  BY DEF Typed, TypeOK
<1>1. PICK f \in Fds \ read_fds :
           /\ conn_of' = [conn_of EXCEPT ![f] = Head(backlog)]
           /\ backlog' = Tail(backlog) /\ backlog # <<>>
           /\ read_fds' = read_fds \cup {f}
           /\ newsockfd' = f /\ newsockfd = 0
           /\ server = "running" /\ server' = "login"
           /\ UNCHANGED <<tmp_fds, it, tables, sf_messages, owed, link, up, got, published,
                          handled, typed>>
  BY AcceptEffect
<1>2. Head(backlog) \in Conns /\ Tail(backlog) \in Seq(Conns)
  BY <1>0, <1>1 DEF NetTypeOK
<1>3. NetTypeOK' /\ SubTypeOK'
  BY <1>0, <1>1, <1>2 DEF NetTypeOK, SubTypeOK
<1>4. BrokerTypeOK'
  BY <1>0, <1>1, <1>2 DEF BrokerTypeOK, ServerStates
<1>5. LoopOK'
  BY <1>0, <1>1, <1>2 DEF LoopOK
<1>6. DescriptorsOK'
  BY <1>0, <1>1, <1>2, Numbers DEF DescriptorsOK, NetTypeOK
<1>7. \A g \in Registered' : g \in Registered /\ conn_of'[g] = conn_of[g]
  BY <1>0, <1>1, <1>2 DEF Registered, NetTypeOK, BrokerTypeOK
<1>8. CommandsOnly'
  BY <1>0, <1>1, <1>7 DEF CommandsOnly
<1> QED BY <1>3, <1>4, <1>5, <1>6, <1>8 DEF Typed, TypeOK

LEMMA LoginTyped ==
  ASSUME Typed, login(id), UNCHANGED subVars
  PROVE  Typed'
<1> USE DEF subVars
<1> DEFINE c == conn_of[newsockfd]
           n == ReceivedId(c, id)
<1>0. NetTypeOK /\ BrokerTypeOK /\ SubTypeOK /\ LoopOK /\ DescriptorsOK /\ CommandsOnly
  BY DEF Typed, TypeOK
<1>1. /\ server = "login" /\ Readable(c)
      /\ up' = [up EXCEPT ![c] = <<>>]
      /\ link' = IF up[c] = <<>> /\ link[c] = "reset" THEN [link EXCEPT ![c] = "dead"]
                 ELSE link
      /\ UNCHANGED <<read_fds, topics, sf_clients, sf_messages, owed, got,
                     backlog, conn_of, published, handled, typed>>
  BY LoginEffect
<1>2. newsockfd \in read_fds /\ newsockfd \in Fds /\ c \in Conns
  BY LoginEffect
<1>3. n \in Names
  BY LoginEffect
<1>4. /\ sock_to_id' = [sock_to_id EXCEPT ![newsockfd] = n]
      /\ id_to_sock' = [id_to_sock EXCEPT ![n] = newsockfd]
  BY LoginEffect
<1>5. \/ server' = "flush" /\ it' = 1 /\ sf_messages[n] # <<>> /\ UNCHANGED <<newsockfd, tmp_fds>>
      \/ server' = "running" /\ it' = 0 /\ newsockfd' = 0 /\ tmp_fds' = tmp_fds \ {sockfd_tcp}
  BY LoginEffect
<1> HIDE DEF n, c
<1>6. link' \in [Conns -> Links] /\ \A d \in Conns : link'[d] \in {"none", "open"} <=> link[d] \in {"none", "open"}
  BY <1>0, <1>1, <1>2 DEF NetTypeOK, Links
<1>7. NetTypeOK' /\ SubTypeOK'
  <2>1. up' \in [Conns -> Seq(Texts)]
    <3>1. <<>> \in Seq(Texts) /\ up \in [Conns -> Seq(Texts)]
      BY <1>0, EmptySeq DEF NetTypeOK
    <3> QED BY <1>1, <3>1
  <2> QED BY <1>0, <1>1, <1>6, <2>1 DEF NetTypeOK, SubTypeOK
<1>8. BrokerTypeOK'
  BY <1>0, <1>1, <1>2, <1>3, <1>4, <1>5 DEF BrokerTypeOK, ServerStates
<1>9. LoopOK'
  <2>1. CASE server' = "flush"
    <3>1. sock_to_id'[newsockfd'] = n /\ sf_messages'[n] \in Seq(1..MaxMsgs) /\ sf_messages'[n] # <<>>
          /\ it' = 1
      BY <1>0, <1>1, <1>2, <1>3, <1>4, <1>5, <2>1 DEF BrokerTypeOK
    <3>2. it' \in 1..Len(sf_messages'[sock_to_id'[newsockfd']])
      BY <3>1, EmptySeq
    <3> QED BY <1>0, <1>1, <1>2, <1>5, <2>1, <3>2 DEF LoopOK
  <2>2. CASE server' = "running"
    BY <1>0, <1>1, <1>5, <2>2 DEF LoopOK
  <2> QED BY <1>5, <2>1, <2>2
<1>10. DescriptorsOK'
  BY <1>0, <1>1 DEF DescriptorsOK
<1>11. proc[c] \in {"running", "done"}
  <2>1. up[c] # <<>> \/ link[c] \in {"fin", "reset", "dead"}
    BY <1>1 DEF Readable
  <2> QED BY <1>0, <1>2, <2>1 DEF CommandsOnly, SubTypeOK
<1>12. CommandsOnly'
  BY <1>0, <1>1, <1>2, <1>6, <1>11 DEF CommandsOnly, Registered, NetTypeOK, SubTypeOK, DescriptorsOK, c
<1> QED BY <1>7, <1>8, <1>9, <1>10, <1>12 DEF Typed, TypeOK

(* One send on a registered connection, and what it leaves alone.          *)
LEMMA SendTyped ==
  ASSUME Typed, NEW f \in read_fds, NEW r \in Records, Send(conn_of[f], r),
         UNCHANGED <<read_fds, up, backlog, conn_of, published, handled, typed, subVars>>,
         Registered' \subseteq Registered \/ server = "flush"
  PROVE  NetTypeOK' /\ SubTypeOK' /\ DescriptorsOK' /\ CommandsOnly'
<1>0. NetTypeOK /\ BrokerTypeOK /\ SubTypeOK /\ LoopOK /\ DescriptorsOK /\ CommandsOnly
  BY DEF Typed, TypeOK
<1>1. conn_of[f] \in Conns
  BY <1>0 DEF DescriptorsOK, BrokerTypeOK, NetTypeOK
<1>2. /\ got' \in [Conns -> Seq(Records)] /\ link' \in [Conns -> Links]
      /\ \A d \in Conns : \/ link'[d] = link[d]
                          \/ link[d] \in {"fin", "reset"} /\ link'[d] = "dead"
  BY <1>0, <1>1, SendEffect DEF NetTypeOK
<1>3. NetTypeOK' /\ SubTypeOK' /\ DescriptorsOK'
  BY <1>0, <1>2 DEF NetTypeOK, SubTypeOK, DescriptorsOK, subVars
<1>4. Registered' \subseteq Registered
  BY <1>0 DEF Registered, LoopOK
<1>5. CommandsOnly'
  BY <1>0, <1>2, <1>4 DEF CommandsOnly, subVars
<1> QED BY <1>3, <1>5

(* An action after which nothing of the tables or the network has changed: *)
(* the broker has died, or the operator has typed exit.                    *)
LEMMA StopTyped ==
  ASSUME Typed, UNCHANGED subVars,
         UNCHANGED <<link, up, got, backlog, conn_of, published, handled>>,
         UNCHANGED <<read_fds, newsockfd, tables, sf_messages, owed>>,
         typed' \in BOOLEAN, it' \in Nat, tmp_fds' \subseteq tmp_fds,
         server # "login",
         server' = "died" \/ (server' \in {"exited", "broadcast"} /\ newsockfd = 0)
  PROVE  Typed'
<1> USE DEF subVars, tables
<1>0. NetTypeOK /\ BrokerTypeOK /\ SubTypeOK /\ LoopOK /\ DescriptorsOK /\ CommandsOnly
  BY DEF Typed, TypeOK
<1>1. NetTypeOK' /\ SubTypeOK' /\ DescriptorsOK'
  BY <1>0 DEF NetTypeOK, SubTypeOK, DescriptorsOK
<1>2. BrokerTypeOK'
  BY <1>0 DEF BrokerTypeOK, ServerStates
<1>3. LoopOK'
  BY <1>0 DEF LoopOK
<1>4. CommandsOnly'
  BY <1>0 DEF CommandsOnly, Registered
<1> QED BY <1>1, <1>2, <1>3, <1>4 DEF Typed, TypeOK

LEMMA FlushTyped ==
  ASSUME Typed, flush, UNCHANGED subVars
  PROVE  Typed'
<1> DEFINE n == sock_to_id[newsockfd]
           stored == sf_messages[n]
           r == [msg |-> stored[it], on |-> n]
<1>0. NetTypeOK /\ BrokerTypeOK /\ SubTypeOK /\ LoopOK /\ DescriptorsOK /\ CommandsOnly
  BY DEF Typed, TypeOK
<1>1. /\ server = "flush" /\ newsockfd \in read_fds /\ n \in Names
      /\ stored \in Seq(1..MaxMsgs) /\ it \in 1..Len(stored) /\ r \in Records
      /\ UNCHANGED <<read_fds, tables, owed, up, backlog, conn_of, published, handled, typed>>
  BY FlushEffect
<1>2. \/ /\ server' = "died" /\ UNCHANGED <<link, got, loopVars, tmp_fds, sf_messages>>
      \/ /\ Send(conn_of[newsockfd], r)
         /\ it < Len(stored) /\ it' = it + 1 /\ UNCHANGED <<server, newsockfd, tmp_fds, sf_messages>>
      \/ /\ Send(conn_of[newsockfd], r)
         /\ it = Len(stored) /\ server' = "running" /\ it' = 0 /\ newsockfd' = 0
         /\ tmp_fds' = tmp_fds \ {sockfd_tcp}
         /\ sf_messages' = [sf_messages EXCEPT ![n] = <<>>]
  BY FlushEffect
<1> HIDE DEF n, r, stored
<1>3. CASE server' = "died" /\ UNCHANGED <<link, got, loopVars, tmp_fds, sf_messages>>
  <2>1. it' \in Nat /\ typed' \in BOOLEAN
    BY <1>0, <1>1, <1>3 DEF BrokerTypeOK, NetTypeOK, loopVars
  <2> QED BY <1>1, <1>3, <2>1, StopTyped DEF loopVars
<1>4. CASE /\ Send(conn_of[newsockfd], r)
           /\ it < Len(stored) /\ it' = it + 1 /\ UNCHANGED <<server, newsockfd, tmp_fds, sf_messages>>
  <2>1. NetTypeOK' /\ SubTypeOK' /\ DescriptorsOK' /\ CommandsOnly'
    BY <1>1, <1>4, SendTyped
  <2>2. BrokerTypeOK'
    BY <1>0, <1>1, <1>4 DEF BrokerTypeOK, tables
  <2>3. LoopOK'
    BY <1>0, <1>1, <1>2, <1>4 DEF LoopOK, tables, n, stored
  <2> QED BY <2>1, <2>2, <2>3 DEF Typed, TypeOK
<1>5. CASE /\ Send(conn_of[newsockfd], r)
           /\ server' = "running" /\ it' = 0 /\ newsockfd' = 0
           /\ tmp_fds' = tmp_fds \ {sockfd_tcp}
           /\ sf_messages' = [sf_messages EXCEPT ![n] = <<>>]
  <2>1. NetTypeOK' /\ SubTypeOK' /\ DescriptorsOK' /\ CommandsOnly'
    BY <1>1, <1>5, SendTyped
  <2>2. BrokerTypeOK'
    <3>1. sf_messages' \in [Names -> Seq(1..MaxMsgs)]
      BY <1>0, <1>5, EmptySeq DEF BrokerTypeOK
    <3>2. tmp_fds' \subseteq {STDIN_FILENO, sockfd_tcp, sockfd_udp} \cup Fds
      BY <1>0, <1>5 DEF BrokerTypeOK
    <3> QED BY <1>0, <1>1, <1>5, <3>1, <3>2 DEF BrokerTypeOK, tables, ServerStates
  <2>3. LoopOK'
    BY <1>0, <1>1, <1>5 DEF LoopOK, tables
  <2> QED BY <2>1, <2>2, <2>3 DEF Typed, TypeOK
<1> QED BY <1>2, <1>3, <1>4, <1>5

LEMMA RecvUdpTyped ==
  ASSUME Typed, recv_udp, UNCHANGED subVars
  PROVE  Typed'
<1> USE DEF subVars, tables
<1> DEFINE m == handled + 1
           t == published[m]
<1>0. NetTypeOK /\ BrokerTypeOK /\ SubTypeOK /\ LoopOK /\ DescriptorsOK /\ CommandsOnly
  BY DEF Typed, TypeOK
<1>1. /\ server = "running" /\ sockfd_udp \in tmp_fds /\ \A j \in tmp_fds : sockfd_udp <= j
      /\ handled' = m
      /\ owed' = owed \cup {<<m, n>> : n \in Recipients(t)}
      /\ \/ /\ tmp_fds' = tmp_fds \ {sockfd_udp} /\ UNCHANGED <<server, it>>
         \/ /\ topics[t] # <<>> /\ server' = "fanout" /\ it' = 1 /\ UNCHANGED tmp_fds
      /\ UNCHANGED <<read_fds, newsockfd, tables, sf_messages, link, up, got,
                     backlog, conn_of, published, typed>>
  BY DEF recv_udp, At
<1>2. handled < Len(published) /\ Len(published) \in Nat /\ handled \in Nat /\ newsockfd = 0
      /\ Len(published) <= MaxMsgs /\ sockfd_tcp \notin tmp_fds
  BY <1>0, <1>1 DEF LoopOK, NetTypeOK, DescriptorsOK, sockfd_tcp, sockfd_udp
<1>3. m \in 1..MaxMsgs /\ m <= Len(published) /\ t \in Topics
  <2>1. m \in 1..Len(published)
    BY <1>2
  <2>2. t \in Topics
    BY <1>0, <2>1, ElementOfSeq DEF NetTypeOK
  <2> QED BY <1>2, <2>1, <2>2, Numbers
<1>4. topics[t] \in Seq(Names) /\ Recipients(t) \subseteq Names
  BY <1>0, <1>3 DEF BrokerTypeOK, Recipients, ToSet
<1> HIDE DEF t, m
<1>5. NetTypeOK' /\ SubTypeOK' /\ DescriptorsOK'
  BY <1>0, <1>1, <1>3, Numbers DEF NetTypeOK, SubTypeOK, DescriptorsOK
<1>6. BrokerTypeOK'
  BY <1>0, <1>1, <1>3, <1>4 DEF BrokerTypeOK, ServerStates
<1>7. LoopOK'
  <2>1. CASE server' = "fanout"
    <3>1. Len(topics[t]) \in Nat \ {0} /\ handled' # 0 /\ handled' = m /\ it' = 1
      BY <1>1, <1>3, <1>4, <2>1, EmptySeq
    <3> QED BY <1>0, <1>1, <1>2, <2>1, <3>1 DEF LoopOK, t
  <2>2. CASE server' = "running" /\ tmp_fds' = tmp_fds \ {sockfd_udp}
    BY <1>0, <1>1, <1>2, <2>2 DEF LoopOK
  <2> QED BY <1>1, <2>1, <2>2
<1>8. CommandsOnly'
  BY <1>0, <1>1 DEF CommandsOnly, Registered
<1> QED BY <1>5, <1>6, <1>7, <1>8 DEF Typed, TypeOK

LEMMA FanoutTyped ==
  ASSUME Typed, fanout, UNCHANGED subVars
  PROVE  Typed'
<1> DEFINE t == published[handled]
           n == topics[t][it]
           r == [msg |-> handled, on |-> n]
<1>0. NetTypeOK /\ BrokerTypeOK /\ SubTypeOK /\ LoopOK /\ DescriptorsOK /\ CommandsOnly
  BY DEF Typed, TypeOK
<1>1. /\ server = "fanout" /\ handled \in 1..MaxMsgs /\ handled <= Len(published)
      /\ t \in Topics /\ topics[t] \in Seq(Names) /\ it \in 1..Len(topics[t]) /\ n \in Names
      /\ r \in Records
      /\ UNCHANGED <<read_fds, tables, owed, up, backlog, conn_of, published, handled, typed>>
  BY FanoutEffect
<1>2. \/ /\ server' = "died" /\ UNCHANGED <<link, got, loopVars, tmp_fds, sf_messages>>
      \/ /\ Online(n) /\ Send(conn_of[id_to_sock[n]], r)
         /\ NextSubscriber(t) /\ UNCHANGED sf_messages
      \/ /\ ~Online(n) /\ Store(n, t) /\ NextSubscriber(t) /\ UNCHANGED <<link, got>>
  BY FanoutEffect
<1> HIDE DEF t, n, r
<1>3. CASE server' = "died" /\ UNCHANGED <<link, got, loopVars, tmp_fds, sf_messages>>
  <2>1. it' \in Nat /\ typed' \in BOOLEAN
    BY <1>0, <1>1, <1>3 DEF BrokerTypeOK, NetTypeOK, loopVars
  <2> QED BY <1>1, <1>3, <2>1, StopTyped DEF loopVars
<1>4. CASE NextSubscriber(t)
  <2>1. \/ /\ it < Len(topics[t]) /\ it' = it + 1 /\ UNCHANGED <<server, newsockfd, tmp_fds>>
        \/ /\ server' = "running" /\ it' = 0 /\ UNCHANGED newsockfd
           /\ tmp_fds' = tmp_fds \ {sockfd_udp}
    BY <1>4 DEF NextSubscriber
  <2>2. sf_messages' \in [Names -> Seq(1..MaxMsgs)]
    <3>1. sf_messages \in [Names -> Seq(1..MaxMsgs)]
      BY <1>0 DEF BrokerTypeOK
    <3>2. CASE UNCHANGED sf_messages
      BY <3>1, <3>2
    <3>3. CASE sf_messages' = [sf_messages EXCEPT ![n] = Append(@, handled)]
      BY <1>1, <3>1, <3>3
    <3>4. UNCHANGED sf_messages \/ Store(n, t)
      BY <1>2 DEF loopVars
    <3> QED BY <3>2, <3>3, <3>4 DEF Store
  <2>3. BrokerTypeOK'
    <3>1. server' \in ServerStates /\ newsockfd' = newsockfd /\ tmp_fds' \subseteq tmp_fds
      BY <1>1, <2>1 DEF ServerStates
    <3>2. it' \in Nat
      BY <1>0, <2>1 DEF BrokerTypeOK
    <3> QED BY <1>0, <1>1, <2>2, <3>1, <3>2 DEF BrokerTypeOK, tables
  <2>4. LoopOK'
    BY <1>0, <1>1, <2>1 DEF LoopOK, tables, t
  <2>5. Registered' \subseteq Registered
    BY <1>1, <2>1 DEF Registered
  <2>6. NetTypeOK' /\ SubTypeOK' /\ DescriptorsOK' /\ CommandsOnly'
    <3>1. CASE Online(n) /\ Send(conn_of[id_to_sock[n]], r)
      BY <1>1, <2>5, <3>1, SendTyped DEF Online
    <3>2. CASE UNCHANGED <<link, got>>
      BY <1>0, <1>1, <2>5, <3>2 DEF NetTypeOK, SubTypeOK, DescriptorsOK, CommandsOnly, subVars
    <3> QED BY <1>2, <3>1, <3>2
  <2> QED BY <2>3, <2>4, <2>6 DEF Typed, TypeOK
<1> QED BY <1>2, <1>3, <1>4

LEMMA BroadcastTyped ==
  ASSUME Typed, type_exit \/ broadcast, UNCHANGED subVars
  PROVE  Typed'
<1>0. NetTypeOK /\ BrokerTypeOK /\ SubTypeOK /\ LoopOK /\ DescriptorsOK /\ CommandsOnly
  BY DEF Typed, TypeOK
<1>1. CASE type_exit
  <2>1. server = "running" /\ newsockfd = 0
    BY <1>0, <1>1 DEF type_exit, At, LoopOK
  <2>2. it' \in Nat /\ typed' \in BOOLEAN
    <3>1. it' \in Nat
      BY <1>0, <1>1 DEF type_exit, BrokerTypeOK
    <3>2. typed' \in BOOLEAN
      BY <1>1, Zenon DEF type_exit
    <3> QED BY <3>1, <3>2
  <2> QED BY <1>1, <2>1, <2>2, StopTyped DEF type_exit
<1>2. CASE broadcast /\ server' \in {"exited", "died"} /\ UNCHANGED <<link, got, it>>
  <2>1. server = "broadcast" /\ newsockfd = 0
    BY <1>0, <1>2 DEF LoopOK, broadcast
  <2>2. it' \in Nat /\ typed' \in BOOLEAN
    BY <1>0, <1>2 DEF broadcast, BrokerTypeOK, NetTypeOK
  <2> QED BY <1>2, <2>1, <2>2, StopTyped DEF broadcast
<1>3. ASSUME NEW f \in ToldNext, broadcast, Send(conn_of[f], ExitRecord), it' = f, UNCHANGED server
      PROVE  Typed'
  <2>1. f \in read_fds /\ f \in Nat /\ server = "broadcast" /\ newsockfd = 0
    BY <1>0, <1>3, Numbers DEF ToldNext, BrokerTypeOK, broadcast, LoopOK
  <2>2. /\ UNCHANGED <<read_fds, tmp_fds, newsockfd, tables, sf_messages, owed, up,
                       backlog, conn_of, published, handled, typed>>
    BY <1>3 DEF broadcast
  <2>3. Registered' \subseteq Registered
    BY <1>3, <2>2 DEF Registered
  <2>4. NetTypeOK' /\ SubTypeOK' /\ DescriptorsOK' /\ CommandsOnly'
    BY <1>3, <2>1, <2>2, <2>3, SendTyped, ExitRecordTyped
  <2>5. BrokerTypeOK'
    BY <1>0, <1>3, <2>1, <2>2 DEF BrokerTypeOK, tables
  <2>6. LoopOK'
    BY <1>0, <1>3, <2>1, <2>2 DEF LoopOK, tables
  <2> QED BY <2>4, <2>5, <2>6 DEF Typed, TypeOK
<1> QED BY <1>1, <1>2, <1>3, BroadcastEffect

LEMMA RecvCommandTyped ==
  ASSUME Typed, NEW f \in Fds, recv_command(f), UNCHANGED subVars
  PROVE  Typed'
<1> USE DEF subVars, loopVars
<1> DEFINE c == conn_of[f]
<1>0. NetTypeOK /\ BrokerTypeOK /\ SubTypeOK /\ LoopOK /\ DescriptorsOK /\ CommandsOnly
  BY DEF Typed, TypeOK
<1>1. /\ server = "running"
      /\ up' = [up EXCEPT ![c] = <<>>]
      /\ tmp_fds' = tmp_fds \ {f}
      /\ UNCHANGED <<server, read_fds, loopVars, sock_to_id, id_to_sock, sf_messages, owed,
                     link, got, backlog, conn_of, published, handled, typed>>
  BY RecvCommandEffect
<1>2. f \in read_fds /\ c \in Conns
  BY RecvCommandEffect
<1>3. topics' \in [Topics -> Seq(Names)] /\ sf_clients' \in [Topics -> SUBSET Names]
  <2>1. CASE UNCHANGED <<topics, sf_clients>>
    BY <1>0, <2>1 DEF BrokerTypeOK
  <2>2. CASE \E t \in Topics : unsubscribe(sock_to_id[f], t)
    BY <1>0, <2>2, UnsubscribeTyped
  <2>3. ASSUME NEW t \in Topics,
               topics' = [topics EXCEPT ![t] = Append(@, sock_to_id[f])],
               \/ sf_clients' = [sf_clients EXCEPT ![t] = @ \cup {sock_to_id[f]}]
               \/ sf_clients' = sf_clients
        PROVE  topics' \in [Topics -> Seq(Names)] /\ sf_clients' \in [Topics -> SUBSET Names]
    <3>1. sock_to_id[f] \in Names /\ topics \in [Topics -> Seq(Names)]
          /\ sf_clients \in [Topics -> SUBSET Names]
      BY <1>0 DEF BrokerTypeOK
    <3>2. topics' \in [Topics -> Seq(Names)]
      BY <2>3, <3>1
    <3>3. sf_clients' \in [Topics -> SUBSET Names]
      BY <2>3, <3>1
    <3> QED BY <3>2, <3>3
  <2> QED BY <2>1, <2>2, <2>3, RecvCommandEffect
<1> HIDE DEF c
<1>4. NetTypeOK' /\ SubTypeOK'
  <2>1. up' \in [Conns -> Seq(Texts)]
    <3>1. <<>> \in Seq(Texts) /\ up \in [Conns -> Seq(Texts)]
      BY <1>0, EmptySeq DEF NetTypeOK
    <3> QED BY <1>1, <3>1
  <2> QED BY <1>0, <1>1, <2>1 DEF NetTypeOK, SubTypeOK
<1>5. BrokerTypeOK'
  BY <1>0, <1>1, <1>3 DEF BrokerTypeOK
<1>6. LoopOK' /\ DescriptorsOK'
  BY <1>0, <1>1 DEF LoopOK, DescriptorsOK
<1>7. CommandsOnly'
  BY <1>0, <1>1, <1>2 DEF CommandsOnly, Registered, NetTypeOK, DescriptorsOK
<1> QED BY <1>4, <1>5, <1>6, <1>7 DEF Typed, TypeOK

LEMMA ClientClosedTyped ==
  ASSUME Typed, NEW f \in Fds, client_closed(f), UNCHANGED subVars
  PROVE  Typed'
<1> USE DEF subVars, loopVars, tables
<1> DEFINE c == conn_of[f]
<1>0. NetTypeOK /\ BrokerTypeOK /\ SubTypeOK /\ LoopOK /\ DescriptorsOK /\ CommandsOnly
  BY DEF Typed, TypeOK
<1>1. /\ server = "running" /\ link[c] \in {"fin", "dead"}
      /\ link' = [link EXCEPT ![c] = "gone"]
      /\ conn_of' = [conn_of EXCEPT ![f] = NoConn]
      /\ read_fds' = read_fds \ {f}
      /\ tmp_fds' = tmp_fds \ {f}
      /\ UNCHANGED <<server, loopVars, tables, sf_messages, owed, up, got, backlog,
                     published, handled, typed>>
  BY ClientClosedEffect
<1>2. f \in read_fds /\ c \in Conns
  BY ClientClosedEffect
<1> HIDE DEF c
<1>3. NetTypeOK' /\ SubTypeOK'
  BY <1>0, <1>1 DEF NetTypeOK, SubTypeOK, Links
<1>4. BrokerTypeOK'
  BY <1>0, <1>1 DEF BrokerTypeOK
<1>5. LoopOK' /\ DescriptorsOK'
  BY <1>0, <1>1 DEF LoopOK, DescriptorsOK, NetTypeOK
<1>6. \A g \in Registered' : g \in Registered /\ conn_of'[g] = conn_of[g]
  BY <1>0, <1>1 DEF Registered, BrokerTypeOK, NetTypeOK
<1>7. CommandsOnly'
  BY <1>0, <1>1, <1>2, <1>6 DEF CommandsOnly, NetTypeOK
<1> QED BY <1>3, <1>4, <1>5, <1>7 DEF Typed, TypeOK

LEMMA StutterTyped ==
  ASSUME Typed, UNCHANGED pubsubVars
  PROVE  Typed'
<1> USE DEF pubsubVars, netVars, brokerVars, subVars, loopVars, tables
<1>1. NetTypeOK' /\ BrokerTypeOK' /\ SubTypeOK'
  BY DEF Typed, TypeOK, NetTypeOK, BrokerTypeOK, SubTypeOK
<1>2. LoopOK' /\ DescriptorsOK' /\ CommandsOnly'
  BY DEF Typed, LoopOK, DescriptorsOK, CommandsOnly, Registered
<1> QED BY <1>1, <1>2 DEF Typed, TypeOK

LEMMA FailureTyped ==
  ASSUME Typed, accept_fails \/ \E f \in Fds : recv_error(f), UNCHANGED subVars
  PROVE  Typed'
<1>1. /\ server = "running" /\ server' = "died"
      /\ UNCHANGED <<read_fds, tmp_fds, loopVars, tables, sf_messages, owed, netVars>>
  BY DEF accept_fails, recv_error, At
<1>2. it' \in Nat /\ typed' \in BOOLEAN
  BY <1>1 DEF Typed, TypeOK, BrokerTypeOK, NetTypeOK, loopVars, netVars
<1> QED BY <1>1, <1>2, StopTyped DEF loopVars, netVars

LEMMA NextTyped ==
  ASSUME Typed, [Next]_pubsubVars
  PROVE  Typed'
<1>1. CASE BrokerNext
  BY <1>1, SelectTyped, AcceptTyped, FailureTyped, LoginTyped, FlushTyped, RecvUdpTyped,
     FanoutTyped, BroadcastTyped, RecvCommandTyped, ClientClosedTyped
     DEF BrokerNext, BrokerStep
<1>2. CASE \E c \in Conns : SubscriberNext(c)
  BY <1>2, SubscriberTyped
<1>3. CASE Publish \/ TypeExit
  BY <1>3, EnvironmentTyped
<1>4. CASE UNCHANGED pubsubVars
  BY <1>4, StutterTyped
<1> QED BY <1>1, <1>2, <1>3, <1>4 DEF Next

LEMMA TypedAlways == Spec => []Typed
<1>1. Init => Typed
  BY InitTyped
<1>2. Typed /\ [Next]_pubsubVars => Typed'
  BY NextTyped
<1> QED BY <1>1, <1>2, PTL DEF Spec

(* The state keeps its types, whatever clients, publishers and the broker  *)
(* do: no handler indexes a table with a descriptor or an id it has not.   *)
THEOREM TypeCorrect == Spec => []TypeOK
<1>1. Typed => TypeOK
  BY DEF Typed
<1> QED BY <1>1, TypedAlways, PTL
-----------------------------------------------------------------------------
(* Every other step leaves both alone.                                     *)
LEMMA OtherSteps ==
  ASSUME Typed, [Next]_pubsubVars
  PROVE  \/ accept_client /\ UNCHANGED subVars
         \/ login(id) /\ UNCHANGED subVars
         \/ (\E f \in Fds : recv_command(f) \/ client_closed(f)) /\ UNCHANGED subVars
         \/ UNCHANGED <<tables, read_fds, conn_of>> /\ Registered' \subseteq Registered
<1>1. CASE BrokerNext
  <2>1. CASE Select \/ accept_fails \/ recv_udp \/ type_exit \/ \E f \in Fds : recv_error(f)
    BY <2>1 DEF Select, accept_fails, recv_udp, type_exit, recv_error, Registered, loopVars, netVars, At
  <2>2. CASE flush
    <3>1. UNCHANGED <<tables, read_fds, conn_of>> /\ server = "flush"
      BY <2>2 DEF flush
    <3> QED BY <3>1 DEF Registered
  <2>3. CASE fanout
    <3>1. UNCHANGED <<tables, read_fds, conn_of>> /\ server = "fanout"
      BY <2>3 DEF fanout
    <3> QED BY <3>1 DEF Registered
  <2>4. CASE broadcast
    <3>1. UNCHANGED <<tables, read_fds, conn_of>> /\ server = "broadcast"
      BY <2>4 DEF broadcast
    <3> QED BY <3>1 DEF Registered
  <2> QED BY <1>1, <2>1, <2>2, <2>3, <2>4 DEF BrokerNext, BrokerStep
<1>2. CASE (\E c \in Conns : SubscriberNext(c)) \/ Publish \/ TypeExit \/ UNCHANGED pubsubVars
  <2>1. UNCHANGED <<tables, read_fds, conn_of, server, newsockfd>>
    BY <1>2 DEF SubscriberNext, SubNext, Connect, SendId, TypeCommand, Leave, ReceiveExit,
       ConnectionLost, Publish, TypeExit, pubsubVars, brokerVars, netVars, loopVars
  <2> QED BY <2>1 DEF Registered
<1> QED BY <1>1, <1>2 DEF Next
-----------------------------------------------------------------------------
(* The tables of subscriptions.                                            *)

LEMMA TablesKept ==
  ASSUME TablesOK, UNCHANGED tables, Registered' \subseteq Registered
  PROVE  TablesOK'
BY DEF TablesOK, tables

LEMMA LoginKeepsTables ==
  ASSUME Typed, TablesOK, login(id)
  PROVE  TablesOK'
<1> DEFINE n == ReceivedId(conn_of[newsockfd], id)
<1>1. /\ newsockfd \in Fds /\ n \in Names /\ server = "login"
      /\ sock_to_id' = [sock_to_id EXCEPT ![newsockfd] = n]
      /\ id_to_sock' = [id_to_sock EXCEPT ![n] = newsockfd]
      /\ UNCHANGED <<read_fds, topics, sf_clients>>
  BY LoginEffect
<1> HIDE DEF n
<1>2. id_to_sock'[n] \in Fds /\ \A k \in Names : id_to_sock[k] \in Fds => id_to_sock'[k] \in Fds
  BY <1>1 DEF Typed, TypeOK, BrokerTypeOK
<1>3. \A f \in Registered' : id_to_sock'[sock_to_id'[f]] \in Fds
  <2> TAKE f \in Registered'
  <2>1. f \in Fds /\ sock_to_id[f] \in Names
    BY <1>1 DEF Registered, Typed, TypeOK, BrokerTypeOK
  <2>2. CASE f = newsockfd
    BY <1>1, <1>2, <2>1, <2>2 DEF Typed, TypeOK, BrokerTypeOK
  <2>3. CASE f # newsockfd
    <3>1. f \in Registered /\ sock_to_id'[f] = sock_to_id[f]
      BY <1>1, <2>1, <2>3 DEF Registered, Typed, TypeOK, BrokerTypeOK
    <3> QED BY <1>2, <2>1, <3>1 DEF TablesOK
  <2> QED BY <2>2, <2>3
<1>4. \A t \in Topics : ToSet(topics[t]) \subseteq Names
  BY DEF ToSet, Typed, TypeOK, BrokerTypeOK
<1> QED BY <1>1, <1>2, <1>3, <1>4 DEF TablesOK

LEMMA CommandKeepsTables ==
  ASSUME Typed, TablesOK, NEW f \in Fds, recv_command(f)
  PROVE  TablesOK'
<1> DEFINE n == sock_to_id[f]
<1>0. /\ topics \in [Topics -> Seq(Names)] /\ sf_clients \in [Topics -> SUBSET Names]
      /\ \A t \in Topics : topics[t] \in Seq(Names)
  BY DEF Typed, TypeOK, BrokerTypeOK
<1>1. /\ f \in Registered /\ n \in Names
      /\ UNCHANGED <<server, read_fds, newsockfd, sock_to_id, id_to_sock>>
  BY RecvCommandEffect DEF loopVars
<1>2. \A g \in Registered' : id_to_sock'[sock_to_id'[g]] \in Fds
  BY <1>1 DEF Registered, TablesOK
<1>3. id_to_sock[n] \in Fds
  BY <1>1 DEF TablesOK
<1> HIDE DEF n
<1> DEFINE Good(tops, sfs) ==
             /\ sfs \subseteq ToSet(tops) /\ NoRepeats(tops)
             /\ \A k \in ToSet(tops) : id_to_sock[k] \in Fds
<1>4. \A t \in Topics : Good(topics[t], sf_clients[t])
  BY DEF TablesOK, NoRepeats
<1>5. \A t \in Topics : Good(topics'[t], sf_clients'[t])
  <2>1. CASE UNCHANGED <<topics, sf_clients>>
    BY <1>4, <2>1
  <2>2. ASSUME NEW t \in Topics, unsubscribe(n, t)
        PROVE  \A u \in Topics : Good(topics'[u], sf_clients'[u])
    <3>1. /\ topics' = [topics EXCEPT ![t] = RemoveFirst(@, n)]
          /\ sf_clients' = [sf_clients EXCEPT ![t] = @ \ {n}]
      BY <2>2 DEF unsubscribe
    <3>2. /\ NoRepeats(RemoveFirst(topics[t], n))
          /\ ToSet(RemoveFirst(topics[t], n)) = ToSet(topics[t]) \ {n}
      BY <1>0, <1>4, RemoveFirstFromList
    <3>3. Good(RemoveFirst(topics[t], n), sf_clients[t] \ {n})
      BY <1>4, <3>2
    <3> HIDE DEF Good
    <3> QED BY <1>0, <1>4, <3>1, <3>3
  <2>3. ASSUME NEW t \in Topics, NEW sf \in BOOLEAN,
               ~Contains(topics[t], n),
               topics' = [topics EXCEPT ![t] = Append(@, n)],
               sf_clients' = IF sf THEN [sf_clients EXCEPT ![t] = @ \cup {n}] ELSE sf_clients
        PROVE  \A u \in Topics : Good(topics'[u], sf_clients'[u])
    <3>1. /\ NoRepeats(Append(topics[t], n))
          /\ ToSet(Append(topics[t], n)) = ToSet(topics[t]) \cup {n}
      BY <1>0, <1>1, <1>4, <2>3, AppendToList
    <3>2. /\ Good(Append(topics[t], n), sf_clients[t])
          /\ Good(Append(topics[t], n), sf_clients[t] \cup {n})
      BY <1>3, <1>4, <3>1
    <3> HIDE DEF Good
    <3> QED BY <1>0, <1>4, <2>3, <3>2
  <2> HIDE DEF Good
  <2>4. \/ UNCHANGED <<topics, sf_clients>>
        \/ \E t \in Topics : unsubscribe(n, t)
        \/ \E t \in Topics, sf \in BOOLEAN :
             /\ ~Contains(topics[t], n)
             /\ topics' = [topics EXCEPT ![t] = Append(@, n)]
             /\ sf_clients' = IF sf THEN [sf_clients EXCEPT ![t] = @ \cup {n}]
                              ELSE sf_clients
    BY RecvCommandEffect DEF n
  <2> QED BY <2>1, <2>2, <2>3, <2>4
<1> QED BY <1>1, <1>2, <1>5 DEF TablesOK, NoRepeats

LEMMA TablesAlways == Spec => []TablesOK
<1>1. Init => TablesOK
  <2> SUFFICES ASSUME Init PROVE TablesOK
    OBVIOUS
  <2>1. read_fds = {} /\ topics = [t \in Topics |-> <<>>] /\ sf_clients = [t \in Topics |-> {}]
    BY DEF Init, BrokerInit
  <2>2. ToSet(<<>>) = {} /\ DOMAIN <<>> = {}
    BY DEF ToSet
  <2> QED BY <2>1, <2>2 DEF TablesOK, Registered
<1>2. Typed /\ TablesOK /\ [Next]_pubsubVars => TablesOK'
  <2> SUFFICES ASSUME Typed, TablesOK, [Next]_pubsubVars PROVE TablesOK'
    OBVIOUS
  <2>1. CASE accept_client
    <3>1. UNCHANGED tables /\ Registered' \subseteq Registered
      BY <2>1, AcceptEffect DEF Registered
    <3> QED BY <3>1, TablesKept
  <2>2. CASE \E f \in Fds : client_closed(f)
    <3>1. UNCHANGED tables /\ Registered' \subseteq Registered
      BY <2>2, ClientClosedEffect DEF Registered, loopVars
    <3> QED BY <3>1, TablesKept
  <2> QED BY <2>1, <2>2, OtherSteps, TablesKept, LoginKeepsTables, CommandKeepsTables
<1> QED BY <1>1, <1>2, TypedAlways, PTL DEF Spec

(* Whatever commands arrive glued and however often an id logs in, what    *)
(* is stored is stored for subscribers: sf_clients is within topics, no id *)
(* is there twice, and each has a descriptor on record.                    *)
THEOREM StoringIsForSubscribers == Spec => []StoreForSubscribersOnly
<1>1. TablesOK => StoreForSubscribersOnly
  BY DEF TablesOK, StoreForSubscribersOnly
<1> QED BY <1>1, TablesAlways, PTL
=============================================================================
