----------------------------- MODULE Mdns_proofs -----------------------------
(***************************************************************************)
(* For any number of hosts, descriptors, packets, records and STARTs, and  *)
(* for every size of the buffers that the assumption allows: as long as    *)
(* its socket is open the thread uses no other descriptor                  *)
(* (SessionDescriptor); every variable has its type, node_array included   *)
(* (TypeOK); names are read and written as the standard spells them        *)
(* (NamesRead, QueryAsks); and an address that is reported is that of a    *)
(* host which offered the instance, but for what namebuffer was left with  *)
(* (Reported).                                                             *)
(*                                                                         *)
(* SessionDescriptor is not inductive: that no thread wakes up beside a    *)
(* new socket with an old descriptor depends on the group, which is joined *)
(* before the thread takes its first one.                                  *)
(*                                                                         *)
(* What a loop of mdns.c computes is shown in three steps: the recursive   *)
(* function that models it exists, by induction on its argument            *)
(* (SetInduction); it satisfies the equation of each pass; and each pass   *)
(* keeps the invariant of the loop (Reads, MakeInv, CheckInv).             *)
(***************************************************************************)
EXTENDS Mdns, WellFoundedInduction, TLAPS

(* Which fields the record of the thread has.                              *)
DiscFields ==
  /\ DOMAIN disc = {"pc", "susp", "fd", "list"}
  /\ disc.susp \in BOOLEAN

(* Before the group is joined there is no socket and the thread has taken  *)
(* no descriptor; a socket that is open is the thread's, which runs.       *)
OwnSocket ==
  /\ ~joined => sock = -1 /\ disc.pc = "sleep"
  /\ sock # -1 => sock \in Fds /\ fds[sock] = "mdns" /\ disc.susp = FALSE
  /\ sock # -1 /\ disc.pc \in {"sendto", "poll", "recvfrom"} => disc.fd = sock

SocketInv ==
  /\ DiscFields
  /\ DOMAIN fds = Fds
  /\ joined \in BOOLEAN
  /\ OwnSocket

(* What the invariant is for.                                              *)
LEMMA SocketInvImplies == SocketInv => SessionDescriptor
  BY DEF SocketInv, DiscFields, OwnSocket, SessionDescriptor

(* At power-up the socket is closed and the thread suspended.              *)
LEMMA SocketInit == Init => SocketInv
<1> SUFFICES ASSUME Init PROVE SocketInv
  OBVIOUS
<1>1. /\ disc = [pc |-> "sleep", susp |-> TRUE, fd |-> -1, list |-> <<>>]
      /\ sock = -1 /\ joined = FALSE
      /\ fds = [f \in Fds |-> "free"]
  BY DEF Init, Sleeping
<1>2. DiscFields /\ disc.pc = "sleep"
  BY <1>1 DEF DiscFields
<1> QED BY <1>1, <1>2 DEF SocketInv, OwnSocket

(* The lowest of the free descriptors is one of them.                      *)
LEMMA LowestFree ==
  ASSUME FreeFds # {}
  PROVE  Lowest \in FreeFds
<1>1. FreeFds \subseteq Nat
  BY MdnsAssumption DEF FreeFds, Fds
<1>2. \E f \in FreeFds : \A g \in FreeFds : ~(<<g, f>> \in OpToRel(<, Nat))
  BY <1>1, WFMin, NatLessThanWellFounded, Zenon
<1>3. \E f \in FreeFds : \A g \in FreeFds : f <= g
  <2>1. \A f, g \in Nat : g < f => <<g, f>> \in OpToRel(<, Nat)
    BY DEF OpToRel
  <2>2. \A f, g \in Nat : ~(g < f) => f <= g
    OBVIOUS
  <2> QED BY <1>1, <1>2, <2>1, <2>2, Zenon
<1> QED BY <1>3, Zenon DEF Lowest

(* tcp_discovery_start: a socket is opened only before the group was ever  *)
(* joined, when the thread still sleeps; otherwise there is none.          *)
LEMMA StartKeeps ==
  ASSUME SocketInv, tcp_discovery_start
  PROVE  SocketInv'
<1>1. DiscFields' /\ disc'.susp = FALSE /\ disc'.pc = disc.pc /\ disc'.fd = disc.fd
  BY DEF SocketInv, DiscFields, tcp_discovery_start
<1>2. CASE /\ FreeFds # {} /\ ~joined
           /\ Opened(Lowest, "mdns") /\ sock' = Lowest /\ joined' = TRUE
  <2>1. Lowest \in Fds /\ fds' = [fds EXCEPT ![Lowest] = "mdns"]
    BY <1>2, LowestFree DEF FreeFds, Opened
  <2>2. fds'[Lowest] = "mdns" /\ DOMAIN fds' = Fds
    BY <2>1 DEF SocketInv
  <2>3. disc'.pc = "sleep"
    BY <1>1, <1>2 DEF SocketInv, OwnSocket
  <2> QED BY <1>1, <1>2, <2>1, <2>2, <2>3 DEF SocketInv, OwnSocket
<1>3. CASE sock' = -1 /\ joined' \in {joined, TRUE} /\ UNCHANGED sockets
  BY <1>1, <1>3 DEF SocketInv, OwnSocket, sockets
<1> QED BY <1>2, <1>3 DEF tcp_discovery_start, mdns_socket_open_ipv6

(* tcp_discovery_stop suspends the thread and closes the socket together.  *)
LEMMA StopKeeps ==
  ASSUME SocketInv, tcp_discovery_stop
  PROVE  SocketInv'
<1>1. DiscFields' /\ disc'.susp = TRUE /\ disc'.pc = disc.pc /\ disc'.fd = disc.fd
  BY DEF SocketInv, DiscFields, tcp_discovery_stop
<1>2. DOMAIN fds' = Fds /\ joined' = joined
  BY DEF SocketInv, tcp_discovery_stop, Closed, Opened, sockets
<1>3. sock' = -1
  <2>1. sock < 0 => sock = -1
    BY MdnsAssumption DEF SocketInv, OwnSocket, Fds
  <2> QED BY <2>1 DEF tcp_discovery_stop
<1> QED BY <1>1, <1>2, <1>3 DEF SocketInv, OwnSocket

(* The connections of nodes use descriptors that are free, and close only  *)
(* their own.                                                              *)
LEMMA NodeSocketKeeps ==
  ASSUME SocketInv, node_socket_open \/ node_socket_close
  PROVE  SocketInv'
<1>1. PICK f \in Fds, kind \in {"free", "node"} :
        /\ fds' = [fds EXCEPT ![f] = kind]
        /\ fds[f] # "mdns"
        /\ UNCHANGED <<sock, disc, joined>>
  <2>1. CASE node_socket_open
    <3>1. FreeFds # {} /\ fds' = [fds EXCEPT ![Lowest] = "node"]
      BY <2>1 DEF node_socket_open, Opened
    <3>2. Lowest \in Fds /\ fds[Lowest] = "free"
      BY <3>1, LowestFree DEF FreeFds
    <3> QED BY <2>1, <3>1, <3>2 DEF node_socket_open
  <2>2. CASE node_socket_close
    <3>1. PICK f \in Fds : fds[f] = "node" /\ fds' = [fds EXCEPT ![f] = "free"]
      BY <2>2 DEF node_socket_close, Closed, Opened
    <3> QED BY <2>2, <3>1 DEF node_socket_close
  <2> QED BY <2>1, <2>2
<1>2. \A g \in Fds : fds[g] = "mdns" => fds'[g] = "mdns"
  BY <1>1 DEF SocketInv
<1> QED BY <1>1, <1>2 DEF SocketInv, OwnSocket, DiscFields

(* The steps of the thread, which runs: they leave the sockets alone and   *)
(* remember no descriptor but that of sock; it wakes up only to a socket.  *)
LEMMA ThreadKeeps ==
  ASSUME SocketInv, Discovery
  PROVE  SocketInv'
<1>1. ~disc.susp /\ UNCHANGED <<fds, sock, joined>>
  BY DEF Discovery, At, handler, mdns_query_send, mdns_multicast_send, mdns_send_fails,
         mdns_query_recv, poll_event, poll_ends, mdns_query_recv_internal, recvfrom_fails,
         node_filter, sockets
<1>2. /\ DiscFields'
      /\ disc'.susp = disc.susp
      /\ disc.pc = "sleep" => sock >= 0
      /\ \/ disc'.pc \notin {"sendto", "poll", "recvfrom"}
         \/ disc'.fd = sock
         \/ disc.pc \in {"sendto", "poll", "recvfrom"} /\ disc'.fd = disc.fd
  <2>0. DiscFields
    BY DEF SocketInv
  <2>1. CASE handler \/ poll_ends
    BY <2>0, <2>1 DEF handler, poll_ends, Goto, At, DiscFields
  <2>2. CASE mdns_query_send \/ mdns_query_recv
    BY <2>0, <2>2 DEF mdns_query_send, mdns_query_recv, At, DiscFields
  <2>3. CASE mdns_multicast_send
    BY <2>0, <2>3 DEF mdns_multicast_send, Goto, At, DiscFields
  <2>4. CASE mdns_send_fails \/ node_filter
    <3>1. disc' = [pc |-> "sleep", susp |-> FALSE, fd |-> -1, list |-> <<>>]
      BY <2>4 DEF mdns_send_fails, node_filter, Sleeping
    <3> QED BY <1>1, <2>0, <2>4, <3>1 DEF DiscFields, mdns_send_fails, node_filter, At
  <2>5. CASE poll_event \/ recvfrom_fails
    BY <2>0, <2>5 DEF poll_event, recvfrom_fails, Goto, At, DiscFields
  <2>6. CASE mdns_query_recv_internal
    <3>1. PICK l : disc' = [disc EXCEPT !.pc = "poll", !.list = l]
      BY <2>6 DEF mdns_query_recv_internal
    <3> QED BY <2>0, <2>6, <3>1 DEF mdns_query_recv_internal, At, DiscFields
  <2> QED BY <2>1, <2>2, <2>3, <2>4, <2>5, <2>6 DEF Discovery
<1> QED BY <1>1, <1>2 DEF SocketInv, OwnSocket, DiscFields

(* A packet of the group concerns none of this.                            *)
LEMMA OthersKeep ==
  ASSUME SocketInv, UNCHANGED <<fds, sock, disc, joined>>
  PROVE  SocketInv'
  BY DEF SocketInv, DiscFields, OwnSocket

(* Every step keeps the invariant: one case per action.                    *)
LEMMA SocketNext == SocketInv /\ [Next]_vars => SocketInv'
<1> SUFFICES ASSUME SocketInv, [Next]_vars PROVE SocketInv'
  OBVIOUS
<1>1. CASE Control
  BY <1>1, StartKeeps, StopKeeps, NodeSocketKeeps DEF Control
<1>2. CASE Discovery
  BY <1>2, ThreadKeeps
<1>3. CASE \E h \in Hosts, m \in Messages : group_send(h, m)
  <2>1. UNCHANGED <<fds, sock, disc, joined>>
    BY <1>3 DEF group_send
  <2> QED BY <2>1, OthersKeep
<1>4. CASE UNCHANGED vars
  BY <1>4, OthersKeep DEF vars, sockets
<1> QED BY <1>1, <1>2, <1>3, <1>4 DEF Next

(* As long as the socket is open, the descriptor that the discovery thread *)
(* uses in mdns_multicast_send and in mdns_query_recv is that of its own   *)
(* socket, whatever STARTs, STOPs and connections of nodes came before:    *)
(* tcp_discovery_start cannot open a second one.                           *)
THEOREM DescriptorCorrect == Spec => []SessionDescriptor
<1>1. Init => SocketInv
  BY SocketInit
<1>2. SocketInv /\ [Next]_vars => SocketInv'
  BY SocketNext
<1>3. SocketInv => SessionDescriptor
  BY SocketInvImplies
<1> QED BY <1>1, <1>2, <1>3, PTL DEF Spec

-----------------------------------------------------------------------------
(* Types.                                                                  *)
Datagrams == [from : Hosts, msg : Messages]
Threads   == [pc : {"sleep", "send", "sendto", "recv", "poll", "recvfrom", "filter"},
              susp : BOOLEAN, fd : Fds \cup {-1}, list : Seq(Hosts)]

(* The sockets, with queues that are sequences.                            *)
SocketTypes ==
  /\ fds \in [Fds -> {"free", "mdns", "node"}]
  /\ rxq \in [Fds -> Seq(Datagrams)]
  /\ \A f \in Fds : Len(rxq[f]) <= MaxQueue
  /\ sock \in Fds \cup {-1}

(* node_array has room whenever the thread is about to receive, and its    *)
(* descriptor was one that poll had an event of.                           *)
ThreadTypes ==
  /\ disc \in Threads
  /\ Len(disc.list) <= MAX_GREYBUS_NODES
  /\ disc.pc = "recvfrom" => disc.fd \in Fds /\ Len(disc.list) < MAX_GREYBUS_NODES

(* What was sent and what was found.                                       *)
HistoryTypes ==
  /\ filtered \subseteq Hosts
  /\ said \in [Hosts -> SUBSET {"offer", "no name"}]
  /\ packets \in 0..MaxPackets
  /\ records \in 0..MaxRecords
  /\ starts \in 0..MaxStarts
  /\ joined \in BOOLEAN

MdnsInv == SocketTypes /\ ThreadTypes /\ HistoryTypes

(* The bounds are numbers.                                                 *)
LEMMA BoundsNat ==
  MaxPackets \in Nat /\ MaxRecords \in Nat /\ MaxStarts \in Nat
  BY MdnsAssumption, Zenon

(* What the types are for.                                                 *)
LEMMA MdnsInvImplies == MdnsInv => TypeOK
<1> SUFFICES ASSUME MdnsInv PROVE TypeOK
  OBVIOUS
<1>1. \A f \in Fds : /\ Len(rxq[f]) <= MaxQueue
                     /\ \A i \in DOMAIN rxq[f] : rxq[f][i] \in Datagrams
  BY DEF MdnsInv, SocketTypes
<1>2. disc.list \in UNION {[1..n -> Hosts] : n \in 0..MAX_GREYBUS_NODES}
  <2>1. disc.list \in Seq(Hosts) /\ Len(disc.list) <= MAX_GREYBUS_NODES
    BY DEF MdnsInv, ThreadTypes, Threads
  <2>2. PICK n : n = Len(disc.list)
    OBVIOUS
  <2>3. n \in 0..MAX_GREYBUS_NODES /\ disc.list \in [1..n -> Hosts]
    BY <2>1, <2>2, MdnsAssumption
  <2> QED BY <2>3
<1>3. disc \in Threads
  BY DEF MdnsInv, ThreadTypes
<1> QED BY <1>1, <1>2, <1>3 DEF MdnsInv, SocketTypes, HistoryTypes, TypeOK, Threads, Datagrams

(* At power-up.                                                            *)
LEMMA MdnsInit == Init => MdnsInv
<1> SUFFICES ASSUME Init PROVE MdnsInv
  OBVIOUS
<1>1. SocketTypes
  BY MdnsAssumption DEF Init, SocketTypes
<1>2. ThreadTypes
  BY MdnsAssumption DEF Init, Sleeping, ThreadTypes, Threads
<1>3. HistoryTypes
  <2>1. joined \in BOOLEAN
    BY Zenon DEF Init
  <2> QED BY <2>1, MdnsAssumption DEF Init, HistoryTypes
<1> QED BY <1>1, <1>2, <1>3 DEF MdnsInv

(* A descriptor that is opened or closed gets an empty queue.              *)
LEMMA OpenedTypes ==
  ASSUME SocketTypes, NEW f \in Fds, NEW kind \in {"free", "mdns", "node"},
         Opened(f, kind), sock' \in Fds \cup {-1}
  PROVE  SocketTypes'
<1>1. fds' = [fds EXCEPT ![f] = kind] /\ rxq' = [rxq EXCEPT ![f] = <<>>]
  BY DEF Opened
<1>2. fds' \in [Fds -> {"free", "mdns", "node"}]
  BY <1>1 DEF SocketTypes
<1>3. rxq' \in [Fds -> Seq(Datagrams)]
  BY <1>1 DEF SocketTypes
<1>4. ASSUME NEW g \in Fds PROVE Len(rxq'[g]) <= MaxQueue
  BY <1>1, MdnsAssumption DEF SocketTypes
<1> QED BY <1>2, <1>3, <1>4 DEF SocketTypes

(* START, STOP and the connections of nodes.                               *)
LEMMA ControlTypes ==
  ASSUME MdnsInv, Control
  PROVE  MdnsInv'
<1> USE DEF MdnsInv
<1>1. SocketTypes'
  <2>1. CASE tcp_discovery_start
    <3>1. CASE FreeFds # {} /\ Opened(Lowest, "mdns") /\ sock' = Lowest
      <4>1. Lowest \in Fds
        BY <3>1, LowestFree DEF FreeFds
      <4> QED BY <3>1, <4>1, OpenedTypes
    <3>2. CASE sock' = -1 /\ UNCHANGED sockets
      BY <3>2 DEF sockets, SocketTypes
    <3> QED BY <2>1, <3>1, <3>2 DEF tcp_discovery_start, mdns_socket_open_ipv6
  <2>2. CASE tcp_discovery_stop
    <3>1. CASE sock >= 0 /\ Closed(sock) /\ sock' = -1
      <4>1. sock \in Fds
        BY <3>1 DEF SocketTypes
      <4> QED BY <3>1, <4>1, OpenedTypes DEF Closed
    <3>2. CASE UNCHANGED <<sockets, sock>>
      BY <3>2 DEF sockets, SocketTypes
    <3> QED BY <2>2, <3>1, <3>2 DEF tcp_discovery_stop
  <2>3. CASE node_socket_open
    <3>1. FreeFds # {} /\ Opened(Lowest, "node") /\ sock' = sock
      BY <2>3 DEF node_socket_open
    <3>2. Lowest \in Fds /\ sock' \in Fds \cup {-1}
      BY <3>1, LowestFree DEF FreeFds, SocketTypes
    <3> QED BY <3>1, <3>2, OpenedTypes
  <2>4. CASE node_socket_close
    <3>1. PICK f \in Fds : Opened(f, "free")
      BY <2>4 DEF node_socket_close, Closed
    <3>2. sock' \in Fds \cup {-1}
      BY <2>4 DEF node_socket_close, SocketTypes
    <3> QED BY <3>1, <3>2, OpenedTypes
  <2> QED BY <2>1, <2>2, <2>3, <2>4 DEF Control
<1>2. ThreadTypes'
  <2>1. PICK s \in BOOLEAN : disc' = [disc EXCEPT !.susp = s] \/ disc' = disc
    BY DEF Control, tcp_discovery_start, tcp_discovery_stop, node_socket_open, node_socket_close
  <2>2. disc' \in Threads
    BY <2>1, Zenon DEF ThreadTypes, Threads
  <2>3. disc'.pc = disc.pc /\ disc'.fd = disc.fd /\ disc'.list = disc.list
    BY <2>1 DEF ThreadTypes, Threads
  <2> QED BY <2>2, <2>3 DEF ThreadTypes
<1>3. HistoryTypes'
  <2>1. UNCHANGED <<filtered, said, packets, records>>
    BY DEF Control, tcp_discovery_start, tcp_discovery_stop, node_socket_open,
           node_socket_close, net
  <2>2. starts' \in 0..MaxStarts
    <3>1. (starts < MaxStarts /\ starts' = starts + 1) \/ starts' = starts
      BY Zenon DEF Control, tcp_discovery_start, tcp_discovery_stop, node_socket_open,
                   node_socket_close
    <3>2. starts \in 0..MaxStarts
      BY Zenon DEF HistoryTypes
    <3> QED BY <3>1, <3>2, BoundsNat
  <2>3. joined' \in BOOLEAN
    <3>1. joined \in BOOLEAN
      BY Zenon DEF HistoryTypes
    <3>2. joined' \in {joined, TRUE}
      BY DEF Control, tcp_discovery_start, mdns_socket_open_ipv6, tcp_discovery_stop,
             node_socket_open, node_socket_close
    <3> QED BY <3>1, <3>2, Zenon
  <2> QED BY <2>1, <2>2, <2>3 DEF HistoryTypes
<1> QED BY <1>1, <1>2, <1>3

(* A packet of the group.                                                  *)
LEMMA GroupTypes ==
  ASSUME MdnsInv, NEW h \in Hosts, NEW m \in Messages, group_send(h, m)
  PROVE  MdnsInv'
<1> USE DEF MdnsInv
<1>1. SocketTypes'
  <2> DEFINE d == [from |-> h, msg |-> m]
             q(f) == IF fds[f] = "mdns" /\ Len(rxq[f]) < MaxQueue
                     THEN Append(rxq[f], d) ELSE rxq[f]
  <2>1. d \in Datagrams
    BY DEF Datagrams
  <2>2. rxq' = [f \in Fds |-> q(f)]
    BY DEF group_send
  <2> HIDE DEF d
  <2>3. ASSUME NEW f \in Fds PROVE q(f) \in Seq(Datagrams) /\ Len(q(f)) <= MaxQueue
    <3>1. rxq[f] \in Seq(Datagrams) /\ Len(rxq[f]) <= MaxQueue
      BY DEF SocketTypes
    <3> QED BY <2>1, <3>1, MdnsAssumption
  <2> HIDE DEF q
  <2>4. fds' = fds /\ sock' = sock
    BY DEF group_send
  <2> QED BY <2>2, <2>3, <2>4 DEF SocketTypes
<1>2. ThreadTypes'
  BY DEF group_send, ThreadTypes
<1>3. HistoryTypes'
  <2>1. Len(m.answers) \in Nat
    <3>1. PICK n \in 0..MaxRecords : m.answers \in [1..n -> Kinds]
      BY DEF Messages
    <3> QED BY <3>1, MdnsAssumption
  <2>2. packets' \in 0..MaxPackets /\ records' \in 0..MaxRecords
    <3>1. /\ packets < MaxPackets /\ packets' = packets + 1
          /\ records + Len(m.answers) <= MaxRecords /\ records' = records + Len(m.answers)
      BY DEF group_send
    <3>2. packets \in 0..MaxPackets /\ records \in 0..MaxRecords
      BY Zenon DEF HistoryTypes
    <3> QED BY <2>1, <3>1, <3>2, BoundsNat
  <2>3. said' \in [Hosts -> SUBSET {"offer", "no name"}]
    <3>1. Says(m) \subseteq {"offer", "no name"}
      BY Zenon DEF Says
    <3>2. said' = [said EXCEPT ![h] = @ \cup Says(m)]
      BY DEF group_send
    <3> QED BY <3>1, <3>2 DEF HistoryTypes
  <2> QED BY <2>2, <2>3 DEF group_send, HistoryTypes
<1> QED BY <1>1, <1>2, <1>3

(* The thread: it receives only after poll_event found room in node_array. *)
LEMMA DiscoveryTypes ==
  ASSUME MdnsInv, Discovery
  PROVE  MdnsInv'
<1> USE DEF MdnsInv
<1>1. disc \in Threads /\ Len(disc.list) \in Nat /\ MAX_GREYBUS_NODES \in Nat
  BY MdnsAssumption DEF ThreadTypes, Threads
<1>2. ASSUME NEW pc \in {"send", "recv", "poll", "filter"},
             NEW fd \in Fds \cup {-1}, NEW list \in Seq(Hosts),
             Len(list) <= MAX_GREYBUS_NODES,
             disc' = [disc EXCEPT !.pc = pc, !.fd = fd, !.list = list]
      PROVE  ThreadTypes'
  <2>1. disc' \in Threads
    BY <1>1, <1>2, Zenon DEF Threads
  <2>2. disc'.pc = pc /\ disc'.list = list
    BY <1>1, <1>2 DEF Threads
  <2> QED BY <1>2, <2>1, <2>2 DEF ThreadTypes
<1>3. SocketTypes'
  <2>1. CASE mdns_query_recv_internal
    <3>1. /\ fds' = fds /\ sock' = sock /\ rxq' = [rxq EXCEPT ![disc.fd] = Tail(@)]
          /\ rxq[disc.fd] # <<>> /\ disc.fd \in Fds
      BY <2>1 DEF mdns_query_recv_internal, At, ThreadTypes
    <3>2. rxq[disc.fd] \in Seq(Datagrams) /\ Len(rxq[disc.fd]) <= MaxQueue
      BY <3>1 DEF SocketTypes
    <3>3. Tail(rxq[disc.fd]) \in Seq(Datagrams) /\ Len(Tail(rxq[disc.fd])) <= MaxQueue
      BY <3>1, <3>2, MdnsAssumption
    <3> QED BY <3>1, <3>3 DEF SocketTypes
  <2>2. CASE ~mdns_query_recv_internal
    <3>1. UNCHANGED <<fds, rxq, sock>>
      BY <2>2 DEF Discovery, handler, mdns_query_send, mdns_multicast_send, mdns_send_fails,
                  mdns_query_recv, poll_event, poll_ends, recvfrom_fails, node_filter, sockets
    <3> QED BY <3>1 DEF SocketTypes
  <2> QED BY <2>1, <2>2
<1>4. HistoryTypes'
  <2>1. UNCHANGED <<said, packets, records, starts, joined>>
    BY DEF Discovery, handler, mdns_query_send, mdns_multicast_send, mdns_send_fails,
           mdns_query_recv, poll_event, poll_ends, mdns_query_recv_internal, recvfrom_fails,
           node_filter, net
  <2>2. CASE node_filter
    <3>1. \A i \in DOMAIN disc.list : disc.list[i] \in Hosts
      BY <1>1 DEF Threads
    <3>2. filtered' \subseteq Hosts
      BY <2>2, <3>1 DEF node_filter, HistoryTypes
    <3> QED BY <2>1, <3>2 DEF HistoryTypes
  <2>3. CASE ~node_filter
    <3>1. filtered' = filtered
      BY <2>3 DEF Discovery, handler, mdns_query_send, mdns_multicast_send, mdns_send_fails,
                  mdns_query_recv, poll_event, poll_ends, mdns_query_recv_internal,
                  recvfrom_fails
    <3> QED BY <2>1, <3>1 DEF HistoryTypes
  <2> QED BY <2>2, <2>3
<1>5. ThreadTypes'
  <2>1. disc.fd \in Fds \cup {-1} /\ disc.list \in Seq(Hosts)
        /\ Len(disc.list) <= MAX_GREYBUS_NODES
    BY <1>1 DEF Threads, ThreadTypes
  <2>2. CASE handler \/ mdns_multicast_send \/ poll_ends \/ recvfrom_fails
    <3>1. PICK pc \in {"send", "recv", "poll", "filter"} : disc' = [disc EXCEPT !.pc = pc]
      BY <2>2 DEF handler, mdns_multicast_send, poll_ends, recvfrom_fails, Goto
    <3>2. disc' \in Threads
      BY <1>1, <3>1, Zenon DEF Threads
    <3>3. disc'.pc = pc /\ disc'.list = disc.list
      BY <1>1, <3>1 DEF Threads
    <3> QED BY <2>1, <3>2, <3>3 DEF ThreadTypes
  <2>3. CASE mdns_query_send
    <3>1. disc' = [disc EXCEPT !.pc = "sendto", !.fd = sock] /\ sock \in Fds \cup {-1}
      BY <2>3 DEF mdns_query_send, SocketTypes
    <3>2. disc' \in Threads
      BY <1>1, <3>1, Zenon DEF Threads
    <3>3. disc'.pc = "sendto" /\ disc'.list = disc.list
      BY <1>1, <3>1 DEF Threads
    <3> QED BY <2>1, <3>2, <3>3 DEF ThreadTypes
  <2>4. CASE mdns_send_fails \/ node_filter
    <3>1. disc' = [pc |-> "sleep", susp |-> FALSE, fd |-> -1, list |-> <<>>]
      BY <2>4 DEF mdns_send_fails, node_filter, Sleeping
    <3> QED BY <1>1, <3>1 DEF ThreadTypes, Threads
  <2>5. CASE mdns_query_recv
    <3>1. /\ disc' = [disc EXCEPT !.pc = "poll", !.fd = sock, !.list = <<>>]
          /\ sock \in Fds \cup {-1} /\ <<>> \in Seq(Hosts) /\ Len(<<>>) <= MAX_GREYBUS_NODES
      BY <1>1, <2>5 DEF mdns_query_recv, SocketTypes
    <3> QED BY <3>1, <1>2
  <2>6. CASE poll_event
    <3>1. disc' = [disc EXCEPT !.pc = "recvfrom"] /\ Len(disc.list) < MAX_GREYBUS_NODES
          /\ TRUE \in Ready
      BY <2>6 DEF poll_event, Goto
    <3>2. disc.fd \in Fds
      BY <2>1, <3>1 DEF Ready
    <3>3. disc' \in Threads
      BY <1>1, <3>1, Zenon DEF Threads
    <3>4. disc'.pc = "recvfrom" /\ disc'.list = disc.list /\ disc'.fd = disc.fd
      BY <1>1, <3>1 DEF Threads
    <3> QED BY <2>1, <3>1, <3>2, <3>3, <3>4 DEF ThreadTypes
  <2>7. CASE mdns_query_recv_internal
    <3>1. disc.fd \in Fds /\ rxq[disc.fd] # <<>> /\ Len(disc.list) < MAX_GREYBUS_NODES
      BY <2>7 DEF mdns_query_recv_internal, At, ThreadTypes
    <3>2. PICK h : h = Head(rxq[disc.fd]).from
      OBVIOUS
    <3>3. h \in Hosts
      <4>1. rxq[disc.fd] \in Seq(Datagrams)
        BY <3>1 DEF SocketTypes
      <4>2. Head(rxq[disc.fd]) \in Datagrams
        BY <3>1, <4>1
      <4> QED BY <3>2, <4>2 DEF Datagrams
    <3>4. PICK list \in {disc.list, Append(disc.list, h)} :
            disc' = [disc EXCEPT !.pc = "poll", !.list = list]
      <4>1. PICK o \in Outcomes :
              disc' = [disc EXCEPT !.pc = "poll",
                         !.list = IF o.result.match THEN Append(@, h) ELSE @]
        BY <2>7, <3>2, Zenon DEF mdns_query_recv_internal
      <4>2. CASE o.result.match
        BY <4>1, <4>2, Zenon
      <4>3. CASE ~o.result.match
        BY <4>1, <4>3, Zenon
      <4> QED BY <4>2, <4>3, Zenon
    <3>5. list \in Seq(Hosts) /\ Len(list) <= MAX_GREYBUS_NODES
      BY <1>1, <2>1, <3>1, <3>3, <3>4
    <3>6. disc' \in Threads
      BY <1>1, <3>4, <3>5, Zenon DEF Threads
    <3>7. disc'.pc = "poll" /\ disc'.list = list
      BY <1>1, <3>4 DEF Threads
    <3> QED BY <3>5, <3>6, <3>7 DEF ThreadTypes
  <2> QED BY <2>2, <2>3, <2>4, <2>5, <2>6, <2>7 DEF Discovery
<1> QED BY <1>3, <1>4, <1>5

(* Type correctness.  The part that is not obvious: node_array is never    *)
(* overrun, whatever arrives and wherever STOP and START find the thread,  *)
(* since mdns_query_recv tests for room before each packet it takes.       *)
THEOREM MdnsTyped == Spec => []TypeOK
<1>1. MdnsInv /\ [Next]_vars => MdnsInv'
  <2> SUFFICES ASSUME MdnsInv, [Next]_vars PROVE MdnsInv'
    OBVIOUS
  <2>1. CASE UNCHANGED vars
    BY <2>1 DEF vars, sockets, net, MdnsInv, SocketTypes, ThreadTypes, HistoryTypes
  <2> QED BY <2>1, ControlTypes, DiscoveryTypes, GroupTypes DEF Next
<1> QED BY <1>1, MdnsInit, MdnsInvImplies, PTL DEF Spec

-----------------------------------------------------------------------------
(* Induction, stated for a set so that it can be used with any property.   *)
LEMMA SetInduction ==
  ASSUME NEW S, 0 \in S, \A n \in Nat : n \in S => n + 1 \in S
  PROVE  \A n \in Nat : n \in S
<1> SUFFICES ASSUME NEW k \in Nat, k \notin S PROVE FALSE
  OBVIOUS
<1> DEFINE T == {n \in Nat : n \notin S}
<1>1. T \subseteq Nat /\ T # {}
  OBVIOUS
<1>2. PICK n \in T : \A i \in T : ~(<<i, n>> \in OpToRel(<, Nat))
  BY <1>1, WFMin, NatLessThanWellFounded, Zenon
<1>3. n \in Nat /\ n \notin S /\ n # 0
  BY <1>2
<1>4. n - 1 \in Nat /\ n - 1 < n /\ (n - 1) + 1 = n
  BY <1>3
<1>5. n - 1 \in T
  BY <1>3, <1>4
<1>6. <<n - 1, n>> \in OpToRel(<, Nat)
  BY <1>3, <1>4 DEF OpToRel
<1> QED BY <1>2, <1>5, <1>6

-----------------------------------------------------------------------------
(* The loop over references.                                               *)
Nowhere == [o \in Nat |-> MDNS_INVALID_POS]

(* The recursion of mdns_get_next_substring over the references as a       *)
(* function of the references still allowed, and that function.            *)
IsRefs(b, size, k, f) ==
  f = [n \in 0..k |-> IF n = 0 THEN Nowhere ELSE follow_ref(b, size, f[n - 1])]

Refs(b, size) == CHOOSE f : IsRefs(b, size, MAX_RECURSION + 1, f)

(* There is one: extended by one argument at a time.                       *)
LEMMA RefsExist ==
  ASSUME NEW b, NEW size
  PROVE  \A k \in Nat : \E f : IsRefs(b, size, k, f)
<1> DEFINE S == {k \in Nat : \E f : IsRefs(b, size, k, f)}
<1>1. 0 \in S
  <2>1. IsRefs(b, size, 0, [n \in 0..0 |-> Nowhere])
    BY DEF IsRefs
  <2> QED BY <2>1
<1>2. ASSUME NEW k \in Nat, k \in S PROVE k + 1 \in S
  <2>1. PICK f : IsRefs(b, size, k, f)
    BY <1>2
  <2> DEFINE g == [n \in 0..(k + 1) |-> IF n <= k THEN f[n] ELSE follow_ref(b, size, f[k])]
  <2>2. ASSUME NEW n \in 0..(k + 1)
        PROVE  g[n] = IF n = 0 THEN Nowhere ELSE follow_ref(b, size, g[n - 1])
    <3>1. CASE n <= k
      BY <2>1, <3>1 DEF IsRefs
    <3>2. CASE n = k + 1
      BY <3>2
    <3> QED BY <3>1, <3>2
  <2>3. IsRefs(b, size, k + 1, g)
    <3> HIDE DEF g
    <3>1. DOMAIN g = 0..(k + 1) /\ g = [n \in 0..(k + 1) |-> g[n]]
      BY DEF g
    <3> QED BY <2>2, <3>1 DEF IsRefs
  <2> QED BY <2>3
<1> HIDE DEF S
<1>3. \A k \in Nat : k \in S
  BY <1>1, <1>2, SetInduction
<1> QED BY <1>3 DEF S

(* What Refs satisfies, and that follow_refs is its last element.          *)
LEMMA RefsEquations ==
  ASSUME NEW b, NEW size
  PROVE  /\ \A n \in 1..(MAX_RECURSION + 1) :
              Refs(b, size)[n] = follow_ref(b, size, Refs(b, size)[n - 1])
         /\ \A o : follow_refs(b, size, o) = Refs(b, size)[MAX_RECURSION + 1][o]
<1>1. IsRefs(b, size, MAX_RECURSION + 1, Refs(b, size))
  <2>1. MAX_RECURSION + 1 \in Nat
    BY DEF MAX_RECURSION
  <2> QED BY <2>1, RefsExist, Zenon DEF Refs
<1>2. MAX_RECURSION + 1 = 17
  BY DEF MAX_RECURSION
<1>3. ASSUME NEW o PROVE follow_refs(b, size, o) = Refs(b, size)[MAX_RECURSION + 1][o]
  BY DEF follow_refs, Refs, IsRefs, Nowhere
<1>4. ASSUME NEW n \in 1..(MAX_RECURSION + 1)
      PROVE  Refs(b, size)[n] = follow_ref(b, size, Refs(b, size)[n - 1])
  BY <1>1, <1>2 DEF IsRefs
<1> QED BY <1>3, <1>4

(* A label that is no reference stays where it is.                         *)
LEMMA NoRef ==
  ASSUME NEW b, NEW size, NEW o \in Nat, ~mdns_is_string_ref(Octet(b, o))
  PROVE  follow_refs(b, size, o) = o
<1>1. MAX_RECURSION + 1 \in 1..(MAX_RECURSION + 1)
  BY DEF MAX_RECURSION
<1>2. PICK f : follow_refs(b, size, o) = follow_ref(b, size, f)[o]
  <2>1. /\ follow_refs(b, size, o) = Refs(b, size)[MAX_RECURSION + 1][o]
        /\ \A n \in 1..(MAX_RECURSION + 1) :
             Refs(b, size)[n] = follow_ref(b, size, Refs(b, size)[n - 1])
    BY RefsEquations, Zenon
  <2> QED BY <1>1, <2>1, Zenon
<1> QED BY <1>2 DEF follow_ref

(* A reference to such a label.                                            *)
LEMMA OneRef ==
  ASSUME NEW b, NEW size \in Nat, NEW o \in Nat, NEW t \in Nat,
         mdns_is_string_ref(Octet(b, o)), o + 2 <= size, t = Target(b, o), t < size,
         ~mdns_is_string_ref(Octet(b, t))
  PROVE  follow_refs(b, size, o) = t
<1>1. MAX_RECURSION + 1 = 17 /\ MAX_RECURSION = 16
  BY DEF MAX_RECURSION
<1>2. /\ Refs(b, size)[17] = follow_ref(b, size, Refs(b, size)[16])
      /\ Refs(b, size)[16] = follow_ref(b, size, Refs(b, size)[15])
      /\ follow_refs(b, size, o) = Refs(b, size)[17][o]
  BY <1>1, RefsEquations
<1>3. Refs(b, size)[17][o] = Refs(b, size)[16][t]
  BY <1>2 DEF follow_ref
<1>4. Refs(b, size)[16][t] = t
  BY <1>2 DEF follow_ref
<1> QED BY <1>2, <1>3, <1>4

(* A reference that is cut off, or that leads outside the packet.          *)
LEMMA BadRef ==
  ASSUME NEW b, NEW size \in Nat, NEW o \in Nat,
         mdns_is_string_ref(Octet(b, o)), size < o + 2 \/ Target(b, o) >= size
  PROVE  follow_refs(b, size, o) = MDNS_INVALID_POS
<1>1. MAX_RECURSION + 1 \in 1..(MAX_RECURSION + 1)
  BY DEF MAX_RECURSION
<1>2. PICK f : follow_refs(b, size, o) = follow_ref(b, size, f)[o]
  <2>1. /\ follow_refs(b, size, o) = Refs(b, size)[MAX_RECURSION + 1][o]
        /\ \A n \in 1..(MAX_RECURSION + 1) :
             Refs(b, size)[n] = follow_ref(b, size, Refs(b, size)[n - 1])
    BY RefsEquations, Zenon
  <2> QED BY <1>1, <2>1, Zenon
<1> QED BY <1>2 DEF follow_ref

-----------------------------------------------------------------------------
(* The label at o is one letter, or the zero that ends a name, or a        *)
(* reference to a label at t.                                              *)
Letter(b, o) == o \in Nat /\ o + 2 <= Len(b) /\ Octet(b, o) = 1

(* What can stand at an offset besides a letter: the end of a name, or a   *)
(* reference to a letter.                                                  *)
Ending(b, o) == o \in Nat /\ o + 1 <= Len(b) /\ Octet(b, o) = 0

RefTo(b, o, t) ==
  /\ o \in Nat /\ o + 2 <= Len(b)
  /\ mdns_is_string_ref(Octet(b, o))
  /\ Target(b, o) = t /\ Letter(b, t)

(* What mdns_get_next_substring makes of each of the three.                *)
LEMMA LetterLabel ==
  ASSUME NEW b \in Seq(Nat), NEW o, Letter(b, o)
  PROVE  mdns_get_next_substring(b, Len(b), o) = Label(o + 1, 1, FALSE)
<1>1. ~mdns_is_string_ref(Octet(b, o)) /\ o \in Nat
  BY DEF Letter, mdns_is_string_ref
<1>2. follow_refs(b, Len(b), o) = o
  BY <1>1, NoRef
<1>3. Len(b) \in Nat
  OBVIOUS
<1>4. ~(o >= Len(b)) /\ Octet(b, o) # 0 /\ o # MDNS_INVALID_POS
      /\ ~(Len(b) < o + 1 + 1) /\ Octet(b, o) = 1
  BY <1>1, <1>3 DEF Letter, MDNS_INVALID_POS
<1>5. mdns_is_string_ref(Octet(b, o)) = FALSE
  BY <1>1 DEF mdns_is_string_ref
<1> QED BY <1>2, <1>4, <1>5, Zenon DEF mdns_get_next_substring

LEMMA EndingLabel ==
  ASSUME NEW b \in Seq(Nat), NEW o, Ending(b, o)
  PROVE  mdns_get_next_substring(b, Len(b), o) = Label(o, 0, FALSE)
<1>1. Len(b) \in Nat
  OBVIOUS
<1>2. ~(o >= Len(b)) /\ Octet(b, o) = 0
  BY <1>1 DEF Ending
<1> QED BY <1>2, Zenon DEF mdns_get_next_substring

LEMMA RefLabel ==
  ASSUME NEW b \in Seq(Nat), NEW o, NEW t, RefTo(b, o, t)
  PROVE  mdns_get_next_substring(b, Len(b), o) = Label(t + 1, 1, TRUE)
<1>1. Len(b) \in Nat /\ o \in Nat /\ t \in Nat /\ t < Len(b) /\ o < Len(b)
  BY DEF RefTo, Letter
<1>2. ~mdns_is_string_ref(Octet(b, t))
  BY DEF RefTo, Letter, mdns_is_string_ref
<1>3. follow_refs(b, Len(b), o) = t
  BY <1>1, <1>2, OneRef DEF RefTo
<1>4. Octet(b, o) # 0 /\ Octet(b, t) = 1 /\ t + 2 <= Len(b)
  BY DEF RefTo, Letter, mdns_is_string_ref
<1>5. mdns_is_string_ref(Octet(b, o)) = TRUE
  BY Zenon DEF RefTo, mdns_is_string_ref
<1>6. ~(o >= Len(b)) /\ t # MDNS_INVALID_POS /\ ~(Len(b) < t + 1 + 1)
  BY <1>1, <1>4 DEF MDNS_INVALID_POS
<1> QED BY <1>3, <1>4, <1>5, <1>6, Zenon DEF mdns_get_next_substring

-----------------------------------------------------------------------------
(* The loops over the labels of a name.                                    *)
IsSkip(b, size, k, f) ==
  f = [n \in 0..k |-> IF n = 0 THEN Nowhere ELSE skip_label(b, size, f[n - 1])]

(* The function that mdns_string_skip computes.                            *)
Skip(b) == CHOOSE f : IsSkip(b, Len(b), MDNS_MAX_SUBSTRINGS + 1, f)

(* There is one.                                                           *)
LEMMA SkipExists ==
  ASSUME NEW b, NEW size
  PROVE  \A k \in Nat : \E f : IsSkip(b, size, k, f)
<1> DEFINE S == {k \in Nat : \E f : IsSkip(b, size, k, f)}
<1>1. 0 \in S
  <2>1. IsSkip(b, size, 0, [n \in 0..0 |-> Nowhere])
    BY DEF IsSkip
  <2> QED BY <2>1
<1>2. ASSUME NEW k \in Nat, k \in S PROVE k + 1 \in S
  <2>1. PICK f : IsSkip(b, size, k, f)
    BY <1>2
  <2> DEFINE g == [n \in 0..(k + 1) |-> IF n <= k THEN f[n] ELSE skip_label(b, size, f[k])]
  <2>2. ASSUME NEW n \in 0..(k + 1)
        PROVE  g[n] = IF n = 0 THEN Nowhere ELSE skip_label(b, size, g[n - 1])
    <3>1. CASE n <= k
      BY <2>1, <3>1 DEF IsSkip
    <3>2. CASE n = k + 1
      BY <3>2
    <3> QED BY <3>1, <3>2
  <2>3. IsSkip(b, size, k + 1, g)
    <3> HIDE DEF g
    <3>1. DOMAIN g = 0..(k + 1) /\ g = [n \in 0..(k + 1) |-> g[n]]
      BY DEF g
    <3> QED BY <2>2, <3>1 DEF IsSkip
  <2> QED BY <2>3
<1> HIDE DEF S
<1>3. \A k \in Nat : k \in S
  BY <1>1, <1>2, SetInduction
<1> QED BY <1>3 DEF S

(* Each of its steps skips a label, and the last is the result.            *)
LEMMA SkipEquations ==
  ASSUME NEW b
  PROVE  /\ \A n \in 1..65 : Skip(b)[n] = skip_label(b, Len(b), Skip(b)[n - 1])
         /\ \A o : mdns_string_skip(b, Len(b), o) = Skip(b)[65][o]
<1>1. MDNS_MAX_SUBSTRINGS + 1 = 65
  BY DEF MDNS_MAX_SUBSTRINGS
<1>2. IsSkip(b, Len(b), 65, Skip(b))
  BY <1>1, SkipExists, Zenon DEF Skip
<1>3. ASSUME NEW o PROVE mdns_string_skip(b, Len(b), o) = Skip(b)[65][o]
  BY <1>1 DEF mdns_string_skip, Skip, IsSkip, Nowhere
<1>4. ASSUME NEW n \in 1..65
      PROVE  Skip(b)[n] = skip_label(b, Len(b), Skip(b)[n - 1])
  <2>1. PICK f : f = Skip(b)
    OBVIOUS
  <2>2. IsSkip(b, Len(b), 65, f)
    BY <1>2, <2>1, Zenon
  <2>3. PICK k \in Nat : k = 65
    OBVIOUS
  <2>4. IsSkip(b, Len(b), k, f) /\ n \in 1..k
    BY <2>2, <2>3
  <2>5. f[n] = skip_label(b, Len(b), f[n - 1])
    BY <2>4 DEF IsSkip
  <2> QED BY <2>1, <2>5, Zenon
<1> QED BY <1>3, <1>4

(* With no label left nothing is skipped.                                  *)
LEMMA SkipStart ==
  ASSUME NEW b
  PROVE  Skip(b)[0] = Nowhere
<1>1. MDNS_MAX_SUBSTRINGS + 1 \in Nat
  BY DEF MDNS_MAX_SUBSTRINGS
<1>2. PICK k \in Nat : k = MDNS_MAX_SUBSTRINGS + 1
  BY <1>1
<1>3. IsSkip(b, Len(b), k, Skip(b))
  BY <1>2, SkipExists, Zenon DEF Skip
<1>4. PICK f : f = Skip(b)
  OBVIOUS
<1>5. IsSkip(b, Len(b), k, f)
  BY <1>3, <1>4, Zenon
<1>6. f[0] = Nowhere
  BY <1>5 DEF IsSkip
<1> QED BY <1>4, <1>6, Zenon

(* The same for mdns_string_extract: no text with no label left.           *)
NoText == [cur \in Nat |-> <<>>]

IsExtract(b, size, k, f) ==
  f = [n \in 0..k |-> IF n = 0 THEN NoText ELSE extract_label(b, size, f[n - 1])]

Extract(b) == CHOOSE f : IsExtract(b, Len(b), MDNS_MAX_SUBSTRINGS + 1, f)

(* There is one.                                                           *)
LEMMA ExtractExists ==
  ASSUME NEW b, NEW size
  PROVE  \A k \in Nat : \E f : IsExtract(b, size, k, f)
<1> DEFINE S == {k \in Nat : \E f : IsExtract(b, size, k, f)}
<1>1. 0 \in S
  <2>1. IsExtract(b, size, 0, [n \in 0..0 |-> NoText])
    BY DEF IsExtract
  <2> QED BY <2>1
<1>2. ASSUME NEW k \in Nat, k \in S PROVE k + 1 \in S
  <2>1. PICK f : IsExtract(b, size, k, f)
    BY <1>2
  <2> DEFINE g == [n \in 0..(k + 1) |-> IF n <= k THEN f[n] ELSE extract_label(b, size, f[k])]
  <2>2. ASSUME NEW n \in 0..(k + 1)
        PROVE  g[n] = IF n = 0 THEN NoText ELSE extract_label(b, size, g[n - 1])
    <3>1. CASE n <= k
      BY <2>1, <3>1 DEF IsExtract
    <3>2. CASE n = k + 1
      BY <3>2
    <3> QED BY <3>1, <3>2
  <2>3. IsExtract(b, size, k + 1, g)
    <3> HIDE DEF g
    <3>1. DOMAIN g = 0..(k + 1) /\ g = [n \in 0..(k + 1) |-> g[n]]
      BY DEF g
    <3> QED BY <2>2, <3>1 DEF IsExtract
  <2> QED BY <2>3
<1> HIDE DEF S
<1>3. \A k \in Nat : k \in S
  BY <1>1, <1>2, SetInduction
<1> QED BY <1>3 DEF S

(* Each step copies a label, and what fits is the result.                  *)
LEMMA ExtractEquations ==
  ASSUME NEW b
  PROVE  /\ \A n \in 1..65 : Extract(b)[n] = extract_label(b, Len(b), Extract(b)[n - 1])
         /\ \A o, c : mdns_string_extract(b, Len(b), o, c) = UpTo(Extract(b)[65][o], c)
<1>1. MDNS_MAX_SUBSTRINGS + 1 = 65
  BY DEF MDNS_MAX_SUBSTRINGS
<1>2. IsExtract(b, Len(b), 65, Extract(b))
  BY <1>1, ExtractExists, Zenon DEF Extract
<1>3. ASSUME NEW o, NEW c PROVE mdns_string_extract(b, Len(b), o, c) = UpTo(Extract(b)[65][o], c)
  BY <1>1 DEF mdns_string_extract, Extract, IsExtract, NoText
<1>4. ASSUME NEW n \in 1..65
      PROVE  Extract(b)[n] = extract_label(b, Len(b), Extract(b)[n - 1])
  <2>1. PICK f : f = Extract(b)
    OBVIOUS
  <2>2. IsExtract(b, Len(b), 65, f)
    BY <1>2, <2>1, Zenon
  <2>3. PICK k \in Nat : k = 65
    OBVIOUS
  <2>4. IsExtract(b, Len(b), k, f) /\ n \in 1..k
    BY <2>2, <2>3
  <2>5. f[n] = extract_label(b, Len(b), f[n - 1])
    BY <2>4 DEF IsExtract
  <2> QED BY <2>1, <2>5, Zenon
<1> QED BY <1>3, <1>4

-----------------------------------------------------------------------------
(* The name at o ends at end and reads as name, with a pass to spare for   *)
(* each label that could stand in front of it.                             *)
Reads(b, o, end, name) ==
  /\ o \in Nat
  /\ \A n \in (Len(name) + 1)..65 :
       Skip(b)[n][o] = end /\ Extract(b)[n][o] = Text(name)

(* The text of a name, and of one that has a label more in front.          *)
LEMMA TextLen ==
  ASSUME NEW name \in Seq(Nat)
  PROVE  /\ Text(name) \in Seq(Nat) /\ Len(Text(name)) = 2 * Len(name)
         /\ \A i \in 1..(2 * Len(name)) :
              Text(name)[i] = IF i % 2 = 0 THEN DOT ELSE name[(i + 1) \div 2]
<1>1. PICK k \in Nat : k = Len(name)
  OBVIOUS
<1>2. \A i \in 1..(2 * k) : i % 2 # 0 => (i + 1) \div 2 \in 1..k
  OBVIOUS
<1>3. \A i \in 1..k : name[i] \in Nat
  BY <1>1
<1>4. DOT \in Nat
  BY DEF DOT
<1> DEFINE T(i) == IF i % 2 = 0 THEN DOT ELSE name[(i + 1) \div 2]
<1>5. \A i \in 1..(2 * k) : T(i) \in Nat
  BY <1>2, <1>3, <1>4
<1>6. Text(name) = [i \in 1..(2 * k) |-> T(i)]
  BY <1>1 DEF Text
<1> HIDE DEF T
<1>7. Text(name) \in Seq(Nat) /\ Len(Text(name)) = 2 * k
      /\ \A i \in 1..(2 * k) : Text(name)[i] = T(i)
  BY <1>5, <1>6
<1> QED BY <1>1, <1>7 DEF T

(* The text of a name with a label in front.                               *)
LEMMA TextCons ==
  ASSUME NEW name \in Seq(Nat), NEW c \in Nat
  PROVE  Text(<<c>> \o name) = <<c>> \o <<DOT>> \o Text(name)
<1>1. PICK k \in Nat : k = Len(name)
  OBVIOUS
<1>2. PICK more : more = <<c>> \o name
  OBVIOUS
<1>3. more \in Seq(Nat) /\ Len(more) = k + 1 /\ more[1] = c
      /\ \A i \in 1..k : more[i + 1] = name[i]
  BY <1>1, <1>2
<1>4. PICK t \in Seq(Nat) : t = Text(name)
  BY TextLen
<1>5. Len(t) = 2 * k /\ \A i \in 1..(2 * k) : t[i] = IF i % 2 = 0 THEN DOT ELSE name[(i + 1) \div 2]
  BY <1>1, <1>4, TextLen
<1>6. PICK u : u = <<c>> \o <<DOT>> \o t
  OBVIOUS
<1>7. u \in Seq(Nat) /\ Len(u) = 2 * k + 2 /\ u[1] = c /\ u[2] = DOT
      /\ \A i \in 1..(2 * k) : u[i + 2] = t[i]
  BY <1>5, <1>6 DEF DOT
<1>8. PICK v \in Seq(Nat) : v = Text(more)
  BY <1>3, TextLen
<1>9. Len(v) = 2 * (k + 1)
      /\ \A i \in 1..(2 * (k + 1)) : v[i] = IF i % 2 = 0 THEN DOT ELSE more[(i + 1) \div 2]
  BY <1>3, <1>8, TextLen
<1>10. ASSUME NEW i \in 1..(2 * k + 2) PROVE v[i] = u[i]
  <2>1. CASE i = 1
    BY <1>3, <1>7, <1>9, <2>1
  <2>2. CASE i = 2
    BY <1>3, <1>7, <1>9, <2>2
  <2>3. CASE i > 2
    <3>1. PICK j \in 1..(2 * k) : i = j + 2
      BY <2>3
    <3>2. i % 2 = j % 2 /\ (i + 1) \div 2 = ((j + 1) \div 2) + 1
      BY <3>1
    <3>3. j % 2 # 0 => (j + 1) \div 2 \in 1..k
      BY <3>1
    <3>4. v[i] = IF j % 2 = 0 THEN DOT ELSE more[((j + 1) \div 2) + 1]
      <4>1. i \in 1..(2 * (k + 1))
        OBVIOUS
      <4>2. v[i] = IF i % 2 = 0 THEN DOT ELSE more[(i + 1) \div 2]
        BY <1>9, <4>1, Zenon
      <4> QED BY <3>2, <4>2, Zenon
    <3>5. u[i] = IF j % 2 = 0 THEN DOT ELSE name[(j + 1) \div 2]
      BY <1>5, <1>7, <3>1
    <3> QED BY <1>3, <3>3, <3>4, <3>5
  <2> QED BY <2>1, <2>2, <2>3
<1>11. v = u
  BY <1>7, <1>8, <1>9, <1>10
<1> QED BY <1>2, <1>4, <1>6, <1>8, <1>11

(* A name that only ends reads as the empty name.                          *)
LEMMA ReadsEnding ==
  ASSUME NEW b \in Seq(Nat), NEW o, Ending(b, o)
  PROVE  Reads(b, o, o + 1, <<>>)
<1>1. mdns_get_next_substring(b, Len(b), o) = Label(o, 0, FALSE)
  BY EndingLabel
<1>2. o \in Nat /\ o # MDNS_INVALID_POS /\ Text(<<>>) = <<>>
  BY DEF Ending, MDNS_INVALID_POS, Text
<1>3. ASSUME NEW n \in 1..65 PROVE Skip(b)[n][o] = o + 1 /\ Extract(b)[n][o] = <<>>
  <2>1. Skip(b)[n] = skip_label(b, Len(b), Skip(b)[n - 1])
    BY SkipEquations
  <2>2. Extract(b)[n] = extract_label(b, Len(b), Extract(b)[n - 1])
    BY ExtractEquations
  <2>3. skip_label(b, Len(b), Skip(b)[n - 1])[o] = o + 1
    BY <1>1, <1>2 DEF skip_label, Label
  <2>4. extract_label(b, Len(b), Extract(b)[n - 1])[o] = <<>>
    BY <1>1, <1>2 DEF extract_label, Label
  <2> QED BY <2>1, <2>2, <2>3, <2>4
<1>4. Len(<<>>) + 1 = 1
  OBVIOUS
<1> QED BY <1>2, <1>3, <1>4, Zenon DEF Reads

(* A piece of one octet.                                                   *)
LEMMA OneOctet ==
  ASSUME NEW b \in Seq(Nat), NEW i \in 1..Len(b)
  PROVE  SubSeq(b, i, i) = <<b[i]>>
<1>1. PICK s : s = SubSeq(b, i, i)
  OBVIOUS
<1>2. s \in Seq(Nat) /\ Len(s) = 1 /\ s[1] = b[i]
  BY <1>1
<1>3. s = <<b[i]>>
  BY <1>2
<1> QED BY <1>1, <1>3

(* A label in front of a name that reads.                                  *)
LEMMA ReadsLetter ==
  ASSUME NEW b \in Seq(Nat), NEW o, NEW end, NEW name \in Seq(Nat),
         Letter(b, o), Reads(b, o + 2, end, name)
  PROVE  Reads(b, o, end, <<Octet(b, o + 1)>> \o name)
<1>1. mdns_get_next_substring(b, Len(b), o) = Label(o + 1, 1, FALSE)
  BY LetterLabel
<1>2. o \in Nat /\ o + 1 # MDNS_INVALID_POS /\ o + 2 \in 1..Len(b)
  BY DEF Letter, MDNS_INVALID_POS
<1>3. PICK c \in Nat : c = Octet(b, o + 1) /\ SubSeq(b, o + 2, o + 2) = <<c>>
  <2>1. (o + 1) + 1 = o + 2 /\ b[o + 2] \in Nat
    BY <1>2
  <2> QED BY <1>2, <2>1, OneOctet DEF Octet
<1>4. Len(<<c>> \o name) = Len(name) + 1 /\ Len(name) \in Nat
  OBVIOUS
<1>5. ASSUME NEW n \in (Len(name) + 2)..65
      PROVE  Skip(b)[n][o] = end /\ Extract(b)[n][o] = Text(<<c>> \o name)
  <2>1. n \in 1..65 /\ n - 1 \in (Len(name) + 1)..65
    BY <1>4
  <2>2. Skip(b)[n] = skip_label(b, Len(b), Skip(b)[n - 1])
    BY <2>1, SkipEquations
  <2>3. Extract(b)[n] = extract_label(b, Len(b), Extract(b)[n - 1])
    BY <2>1, ExtractEquations
  <2>4. Skip(b)[n - 1][o + 2] = end /\ Extract(b)[n - 1][o + 2] = Text(name)
    BY <2>1 DEF Reads
  <2>5. skip_label(b, Len(b), Skip(b)[n - 1])[o] = Skip(b)[n - 1][o + 2]
    BY <1>1, <1>2 DEF skip_label, Label
  <2>6. extract_label(b, Len(b), Extract(b)[n - 1])[o]
          = <<c>> \o <<DOT>> \o Extract(b)[n - 1][o + 2]
    <3>1. PICK l : l = Label(o + 1, 1, FALSE)
      OBVIOUS
    <3>2. l.offset = o + 1 /\ l.length = 1 /\ (o + 1) + 1 = o + 2
      BY <1>2, <3>1 DEF Label
    <3>3. extract_label(b, Len(b), Extract(b)[n - 1])[o]
            = SubSeq(b, l.offset + 1, l.offset + l.length) \o <<DOT>>
                \o Extract(b)[n - 1][l.offset + l.length]
      <4>1. l.offset # MDNS_INVALID_POS /\ l.length # 0
        BY <1>2, <3>2
      <4> QED BY <1>1, <1>2, <3>1, <4>1, Zenon DEF extract_label
    <3> QED BY <1>3, <3>2, <3>3
  <2>7. Text(<<c>> \o name) = <<c>> \o <<DOT>> \o Text(name)
    BY TextCons
  <2> QED BY <2>2, <2>3, <2>4, <2>5, <2>6, <2>7
<1>6. (Len(name) + 1) + 1 = Len(name) + 2
  BY <1>4
<1> QED BY <1>2, <1>3, <1>4, <1>5, <1>6 DEF Reads

(* A reference to a name that reads, and starts with a letter, reads as    *)
(* that name.                                                              *)
LEMMA ReadsRef ==
  ASSUME NEW b \in Seq(Nat), NEW o, NEW t, NEW end, NEW name \in Seq(Nat),
         RefTo(b, o, t), Reads(b, t, end, name)
  PROVE  Reads(b, o, o + 2, name)
<1>1. /\ mdns_get_next_substring(b, Len(b), o) = Label(t + 1, 1, TRUE)
      /\ mdns_get_next_substring(b, Len(b), t) = Label(t + 1, 1, FALSE)
  BY RefLabel, LetterLabel DEF RefTo
<1>2. o \in Nat /\ t \in Nat /\ t + 1 # MDNS_INVALID_POS
  BY DEF RefTo, Letter, MDNS_INVALID_POS
<1>3. ASSUME NEW n \in (Len(name) + 1)..65
      PROVE  Skip(b)[n][o] = o + 2 /\ Extract(b)[n][o] = Text(name)
  <2>1. n \in 1..65
    <3>1. Len(name) \in Nat
      OBVIOUS
    <3> QED BY <3>1
  <2>2. Skip(b)[n] = skip_label(b, Len(b), Skip(b)[n - 1])
    BY <2>1, SkipEquations
  <2>3. Extract(b)[n] = extract_label(b, Len(b), Extract(b)[n - 1])
    BY <2>1, ExtractEquations
  <2>4. Extract(b)[n][t] = Text(name)
    BY DEF Reads
  <2>5. skip_label(b, Len(b), Skip(b)[n - 1])[o] = o + 2
    BY <1>1, <1>2 DEF skip_label, Label
  <2>6. extract_label(b, Len(b), Extract(b)[n - 1])[o]
          = extract_label(b, Len(b), Extract(b)[n - 1])[t]
    BY <1>1, <1>2 DEF extract_label, Label
  <2> QED BY <2>2, <2>3, <2>4, <2>5, <2>6
<1> QED BY <1>2, <1>3 DEF Reads

-----------------------------------------------------------------------------
(* The octets s stand in b from o on.                                      *)
Stands(b, o, s) ==
  /\ o \in Nat /\ o + Len(s) <= Len(b)
  /\ \A i \in 1..Len(s) : b[o + i] = s[i]

(* The octets of a name.                                                   *)
LEMMA EncodedLen ==
  ASSUME NEW name \in Seq(Nat)
  PROVE  /\ Encoded(name) \in Seq(Nat) /\ Len(Encoded(name)) = 2 * Len(name) + 1
         /\ Encoded(name)[2 * Len(name) + 1] = 0
         /\ \A i \in 1..(2 * Len(name)) :
              Encoded(name)[i] = IF i % 2 = 1 THEN 1 ELSE name[i \div 2]
<1>1. PICK k \in Nat : k = Len(name)
  OBVIOUS
<1>2. \A i \in 1..(2 * k) : i % 2 # 1 => i \div 2 \in 1..k
  OBVIOUS
<1>3. \A i \in 1..k : name[i] \in Nat
  BY <1>1
<1> DEFINE E(i) == IF i % 2 = 1 THEN 1 ELSE name[i \div 2]
<1>4. \A i \in 1..(2 * k) : E(i) \in Nat
  BY <1>2, <1>3
<1>5. PICK f : f = [i \in 1..(2 * k) |-> E(i)]
  OBVIOUS
<1>6. Encoded(name) = f \o <<0>>
  BY <1>1, <1>5 DEF Encoded
<1> HIDE DEF E
<1>7. f \in Seq(Nat) /\ Len(f) = 2 * k /\ \A i \in 1..(2 * k) : f[i] = E(i)
  BY <1>4, <1>5
<1>8. /\ Encoded(name) \in Seq(Nat) /\ Len(Encoded(name)) = 2 * k + 1
      /\ Encoded(name)[2 * k + 1] = 0
      /\ \A i \in 1..(2 * k) : Encoded(name)[i] = E(i)
  BY <1>6, <1>7
<1> QED BY <1>1, <1>8 DEF E

(* A name with a label in front of others: that label, and the others      *)
(* behind it.                                                              *)
LEMMA EncodedSplits ==
  ASSUME NEW b \in Seq(Nat), NEW o, NEW name \in Seq(Nat), name # <<>>,
         Stands(b, o, Encoded(name))
  PROVE  /\ Letter(b, o) /\ Octet(b, o + 1) = Head(name)
         /\ Stands(b, o + 2, Encoded(Tail(name)))
<1>1. /\ Tail(name) \in Seq(Nat) /\ Len(Tail(name)) = Len(name) - 1
      /\ Len(name) \in Nat /\ Len(name) >= 1 /\ Head(name) = name[1]
      /\ \A i \in 1..(Len(name) - 1) : Tail(name)[i] = name[i + 1]
  OBVIOUS
<1>2. PICK k \in Nat : Len(name) = k + 1
  <2>1. Len(name) - 1 \in Nat /\ Len(name) = (Len(name) - 1) + 1
    BY <1>1
  <2> QED BY <2>1, Zenon
<1>3. PICK e \in Seq(Nat) : e = Encoded(name)
  BY EncodedLen
<1>4. /\ Len(e) = 2 * k + 3 /\ e[2 * k + 3] = 0
      /\ \A i \in 1..(2 * k + 2) : e[i] = IF i % 2 = 1 THEN 1 ELSE name[i \div 2]
  <2>1. 2 * (k + 1) = 2 * k + 2 /\ 2 * (k + 1) + 1 = 2 * k + 3
    OBVIOUS
  <2>2. /\ Len(e) = 2 * (k + 1) + 1 /\ e[2 * (k + 1) + 1] = 0
        /\ \A i \in 1..(2 * (k + 1)) : e[i] = IF i % 2 = 1 THEN 1 ELSE name[i \div 2]
    BY <1>2, <1>3, EncodedLen, Zenon
  <2> QED BY <2>1, <2>2, Zenon
<1>5. PICK f \in Seq(Nat) : f = Encoded(Tail(name))
  BY <1>1, EncodedLen
<1>6. /\ Len(f) = 2 * k + 1 /\ f[2 * k + 1] = 0
      /\ \A i \in 1..(2 * k) : f[i] = IF i % 2 = 1 THEN 1 ELSE Tail(name)[i \div 2]
  <2>1. Len(Tail(name)) = k
    BY <1>1, <1>2
  <2> QED BY <1>1, <1>5, <2>1, EncodedLen
<1>7. e[1] = 1 /\ e[2] = Head(name)
  <2>1. 1 % 2 = 1 /\ 2 % 2 # 1 /\ 2 \div 2 = 1 /\ 1 \in 1..(2 * k + 2) /\ 2 \in 1..(2 * k + 2)
    OBVIOUS
  <2> QED BY <1>1, <1>4, <2>1
<1>8. ASSUME NEW i \in 1..(2 * k + 1) PROVE e[2 + i] = f[i]
  <2>1. CASE i = 2 * k + 1
    BY <1>4, <1>6, <2>1
  <2>2. CASE i # 2 * k + 1
    <3>1. i \in 1..(2 * k) /\ 2 + i \in 1..(2 * k + 2)
      BY <2>2
    <3>2. (2 + i) % 2 = i % 2 /\ (2 + i) \div 2 = (i \div 2) + 1
      OBVIOUS
    <3>3. i % 2 # 1 => i \div 2 \in 1..k
      BY <3>1
    <3>4. e[2 + i] = IF i % 2 = 1 THEN 1 ELSE name[(i \div 2) + 1]
      BY <1>4, <3>1, <3>2
    <3>5. f[i] = IF i % 2 = 1 THEN 1 ELSE Tail(name)[i \div 2]
      BY <1>6, <3>1
    <3>6. i % 2 # 1 => Tail(name)[i \div 2] = name[(i \div 2) + 1]
      BY <1>1, <1>2, <3>3
    <3> QED BY <3>4, <3>5, <3>6
  <2> QED BY <2>1, <2>2
<1>9. o \in Nat /\ o + (2 * k + 3) <= Len(b) /\ \A i \in 1..(2 * k + 3) : b[o + i] = e[i]
  BY <1>3, <1>4 DEF Stands
<1>10. Letter(b, o) /\ Octet(b, o + 1) = Head(name)
  <2>1. b[o + 1] = 1 /\ b[o + 2] = Head(name) /\ (o + 1) + 1 = o + 2
    <3>1. 1 \in 1..(2 * k + 3) /\ 2 \in 1..(2 * k + 3)
      OBVIOUS
    <3>2. b[o + 1] = e[1] /\ b[o + 2] = e[2] /\ (o + 1) + 1 = o + 2
      BY <1>9, <3>1
    <3> QED BY <1>7, <3>2, Zenon
  <2> QED BY <1>9, <2>1 DEF Letter, Octet
<1>11. ASSUME NEW i \in 1..(2 * k + 1) PROVE b[(o + 2) + i] = f[i]
  <2>1. 2 + i \in 1..(2 * k + 3) /\ o + (2 + i) = (o + 2) + i
    BY <1>9
  <2> QED BY <1>8, <1>9, <2>1
<1>12. Stands(b, o + 2, f)
  BY <1>6, <1>9, <1>11 DEF Stands
<1> QED BY <1>5, <1>10, <1>12

(* A sequence is its head and its tail.                                    *)
LEMMA HeadTail ==
  ASSUME NEW s \in Seq(Nat), s # <<>>
  PROVE  <<Head(s)>> \o Tail(s) = s
<1>1. PICK t : t = <<Head(s)>> \o Tail(s)
  OBVIOUS
<1>2. t \in Seq(Nat) /\ Len(t) = Len(s) /\ \A i \in 1..Len(s) : t[i] = s[i]
  BY <1>1
<1>3. t = s
  BY <1>2
<1> QED BY <1>1, <1>3

(* A name that is spelled out is read, whatever the number of its labels.  *)
LEMMA EncodedReads ==
  ASSUME NEW b \in Seq(Nat), NEW o, NEW name \in Seq(Nat), Stands(b, o, Encoded(name))
  PROVE  Reads(b, o, o + 2 * Len(name) + 1, name)
<1> DEFINE Fine(at, s) == Stands(b, at, Encoded(s)) => Reads(b, at, at + 2 * Len(s) + 1, s)
           S == {k \in Nat : \A s \in Seq(Nat), at \in Nat : Len(s) = k => Fine(at, s)}
<1>1. 0 \in S
  <2> SUFFICES ASSUME NEW s \in Seq(Nat), NEW at \in Nat, Len(s) = 0, Stands(b, at, Encoded(s))
               PROVE  Reads(b, at, at + 2 * Len(s) + 1, s)
    OBVIOUS
  <2>1. s = <<>> /\ at + 2 * Len(s) + 1 = at + 1
    OBVIOUS
  <2>2. Len(Encoded(s)) = 1 /\ Encoded(s)[1] = 0
    <3>1. 2 * Len(s) + 1 = 1
      OBVIOUS
    <3> QED BY <3>1, EncodedLen
  <2>3. Ending(b, at)
    BY <2>2 DEF Stands, Ending, Octet
  <2> QED BY <2>1, <2>3, ReadsEnding
<1>2. ASSUME NEW k \in Nat, k \in S PROVE k + 1 \in S
  <2> SUFFICES ASSUME NEW s \in Seq(Nat), NEW at \in Nat, Len(s) = k + 1,
                      Stands(b, at, Encoded(s))
               PROVE  Reads(b, at, at + 2 * Len(s) + 1, s)
    OBVIOUS
  <2>1. /\ s # <<>> /\ Tail(s) \in Seq(Nat) /\ Len(Tail(s)) = k /\ at + 2 \in Nat
        /\ (at + 2) + 2 * Len(Tail(s)) + 1 = at + 2 * Len(s) + 1
        /\ s = <<Head(s)>> \o Tail(s)
    <3>1. /\ s # <<>> /\ Tail(s) \in Seq(Nat) /\ Len(Tail(s)) = k /\ at + 2 \in Nat
      OBVIOUS
    <3>2. s = <<Head(s)>> \o Tail(s)
      BY <3>1, HeadTail
    <3>5. (at + 2) + 2 * Len(Tail(s)) + 1 = at + 2 * Len(s) + 1
      <4>1. (at + 2) + 2 * k + 1 = at + 2 * (k + 1) + 1
        OBVIOUS
      <4> QED BY <3>1, <4>1, Zenon
    <3> QED BY <3>1, <3>2, <3>5
  <2>2. /\ Letter(b, at) /\ Octet(b, at + 1) = Head(s)
        /\ Stands(b, at + 2, Encoded(Tail(s)))
    BY <2>1, EncodedSplits
  <2>3. Reads(b, at + 2, (at + 2) + 2 * Len(Tail(s)) + 1, Tail(s))
    BY <1>2, <2>1, <2>2
  <2>4. Reads(b, at, at + 2 * Len(s) + 1, <<Head(s)>> \o Tail(s))
    BY <2>1, <2>2, <2>3, ReadsLetter
  <2> QED BY <2>1, <2>4
<1> HIDE DEF S
<1>3. \A k \in Nat : k \in S
  BY <1>1, <1>2, SetInduction
<1>4. Len(name) \in S /\ o \in Nat
  BY <1>3 DEF Stands
<1> QED BY <1>4 DEF S

-----------------------------------------------------------------------------
(* Packets under construction.  A buffer of at most 2^14 octets holds as   *)
(* much of the packet as it has room for.                                  *)
MaxOffset == 16384
RefBits   == 49152

(* The names of the packets have at most three labels.                     *)
Names == {s \in Seq(Nat) : 1 <= Len(s) /\ Len(s) <= 3}

(* A buffer holds a sequence as far as it goes.                            *)
Agrees(b, s) == \A i \in 1..Len(s) : i <= Len(b) => b[i] = s[i]

(* Buffers that agree with s and hold n octets or more.                    *)
Holding(s, n) == {b \in Seq(Nat) : Len(b) \in n..MaxOffset /\ Agrees(b, s)}

(* The first spelling of a name, which later ones refer to, starts with a  *)
(* label, and can be read once the packet so far was stored.               *)
AtInv(p) ==
  \A name \in DOMAIN p.at :
    /\ p.at[name] \in Nat
    /\ \A b \in Holding(p.octets, Len(p.octets)) :
         Letter(b, p.at[name]) /\ \E end : Reads(b, p.at[name], end, name)

(* Each name can be read once it was stored.                               *)
NamesInv(p) ==
  \A n \in p.names :
    /\ n.name \in Names /\ n.at \in Nat /\ n.end \in Nat
    /\ \A b \in Holding(p.octets, n.end) : Reads(b, n.at, n.end, n.name)

(* The invariant of a packet under construction.                           *)
PacketInv(p) ==
  /\ DOMAIN p = {"octets", "at", "names"}
  /\ p.octets \in Seq(Nat)
  /\ DOMAIN p.at \subseteq Names
  /\ AtInv(p)
  /\ NamesInv(p)

(* The octets of two sequences put together.                               *)
LEMMA ConcatLen ==
  ASSUME NEW s \in Seq(Nat), NEW t \in Seq(Nat)
  PROVE  /\ s \o t \in Seq(Nat) /\ Len(s \o t) = Len(s) + Len(t)
         /\ \A i \in 1..Len(s) : (s \o t)[i] = s[i]
         /\ \A i \in 1..Len(t) : (s \o t)[Len(s) + i] = t[i]
  OBVIOUS

(* A buffer that holds two sequences holds the first, and the second       *)
(* behind it if it goes so far.                                            *)
LEMMA AgreesPrefix ==
  ASSUME NEW b \in Seq(Nat), NEW s \in Seq(Nat), NEW t \in Seq(Nat), Agrees(b, s \o t)
  PROVE  Agrees(b, s) /\ (Len(s) + Len(t) <= Len(b) => Stands(b, Len(s), t))
<1>1. /\ Len(s) \in Nat /\ Len(t) \in Nat /\ Len(s \o t) = Len(s) + Len(t)
      /\ \A i \in 1..Len(s) : (s \o t)[i] = s[i]
      /\ \A i \in 1..Len(t) : (s \o t)[Len(s) + i] = t[i]
  OBVIOUS
<1>2. PICK u : u = s \o t
  OBVIOUS
<1>3. \A i \in 1..(Len(s) + Len(t)) : i <= Len(b) => b[i] = u[i]
  BY <1>1, <1>2 DEF Agrees
<1>4. Agrees(b, s)
  BY <1>1, <1>2, <1>3 DEF Agrees
<1>5. ASSUME Len(s) + Len(t) <= Len(b), NEW i \in 1..Len(t) PROVE b[Len(s) + i] = t[i]
  <2>1. Len(s) + i \in 1..(Len(s) + Len(t)) /\ Len(s) + i <= Len(b)
    BY <1>1, <1>5
  <2> QED BY <1>1, <1>2, <1>3, <2>1
<1> QED BY <1>1, <1>4, <1>5 DEF Stands

(* What holds a longer packet holds the shorter one.                       *)
LEMMA HoldingPrefix ==
  ASSUME NEW s \in Seq(Nat), NEW t \in Seq(Nat), NEW n \in Nat, NEW k \in Nat, k <= n
  PROVE  Holding(s \o t, n) \subseteq Holding(s, k)
<1> SUFFICES ASSUME NEW b \in Holding(s \o t, n) PROVE b \in Holding(s, k)
  OBVIOUS
<1>1. b \in Seq(Nat) /\ Len(b) \in n..MaxOffset /\ Agrees(b, s \o t)
  BY DEF Holding
<1>2. Agrees(b, s) /\ Len(b) \in k..MaxOffset
  BY <1>1, AgreesPrefix DEF MaxOffset
<1> QED BY <1>1, <1>2 DEF Holding

(* A 16-bit number is its two octets.                                      *)
LEMMA TwoOctets ==
  ASSUME NEW v \in Nat
  PROVE  \E d, r \in Nat : mdns_htons(v) = <<d, r>> /\ v = 256 * d + r /\ r < 256
<1>1. \E d, r \in Nat : d = v \div 256 /\ r = v % 256 /\ v = 256 * d + r /\ r < 256
  OBVIOUS
<1> QED BY <1>1, Zenon DEF mdns_htons

(* The two octets of a reference.                                          *)
LEMMA PointerOctets ==
  ASSUME NEW t \in Nat
  PROVE  \E d, r \in Nat : Pointer(t) = <<d, r>> /\ RefBits + t = 256 * d + r /\ r < 256
<1>1. PICK v \in Nat : v = RefBits + t /\ v = 192 * 256 + t
  BY DEF RefBits
<1>2. \E d, r \in Nat : mdns_htons(v) = <<d, r>> /\ v = 256 * d + r /\ r < 256
  BY TwoOctets
<1>3. Pointer(t) = mdns_htons(v)
  BY <1>1 DEF Pointer
<1> QED BY <1>1, <1>2, <1>3, Zenon

(* A reference to a label.                                                 *)
LEMMA PointerRefs ==
  ASSUME NEW b \in Seq(Nat), Len(b) <= MaxOffset, NEW o, NEW t \in Nat,
         Stands(b, o, Pointer(t)), Letter(b, t)
  PROVE  RefTo(b, o, t)
<1>2. PICK d \in Nat, r \in Nat :
        Pointer(t) = <<d, r>> /\ RefBits + t = 256 * d + r /\ r < 256
  BY PointerOctets, Zenon
<1>3. o \in Nat /\ o + 2 <= Len(b) /\ b[o + 1] = d /\ b[o + 2] = r
  BY <1>2 DEF Stands
<1>4. d >= 192 /\ (256 * d + r) % 2^14 = t
  <2>1. t < 16384
    BY DEF Letter, MaxOffset
  <2>2. 49152 + t = 256 * d + r
    BY <1>2 DEF RefBits
  <2>3. r < 256
    BY <1>2
  <2>4. d >= 192
    BY <2>2, <2>3
  <2>5. (49152 + t) % 2^14 = t
    BY <2>1
  <2> QED BY <2>2, <2>4, <2>5
<1>5. (o + 1) + 1 = o + 2
  BY <1>3
<1>6. Target(b, o) = t
  <2>1. Target(b, o) = (256 * b[o + 1] + b[(o + 1) + 1]) % 2^14
    BY Zenon DEF Target, mdns_ntohs, Octet
  <2> QED BY <1>3, <1>4, <1>5, <2>1
<1>7. mdns_is_string_ref(Octet(b, o))
  BY <1>3, <1>4 DEF Octet, mdns_is_string_ref
<1> QED BY <1>3, <1>6, <1>7, Zenon DEF RefTo

(* What WithName puts in the packet: some octets, a letter first if the    *)
(* name is a new one.                                                      *)
LEMMA SpelledType ==
  ASSUME NEW p, PacketInv(p), NEW name \in Names, NEW compressed \in BOOLEAN
  PROVE  /\ Spelled(p, name, compressed) \in Seq(Nat)
         /\ 2 <= Len(Spelled(p, name, compressed)) /\ Len(Spelled(p, name, compressed)) <= 7
<1>1. Encoded(name) \in Seq(Nat) /\ 2 <= Len(Encoded(name)) /\ Len(Encoded(name)) <= 7
  <2>1. name \in Seq(Nat) /\ 1 <= Len(name) /\ Len(name) <= 3
    BY DEF Names
  <2>2. Encoded(name) \in Seq(Nat) /\ Len(Encoded(name)) = 2 * Len(name) + 1
    BY <2>1, EncodedLen
  <2> QED BY <2>1, <2>2
<1>2. ASSUME NEW n \in DOMAIN p.at
      PROVE  Pointer(p.at[n]) \in Seq(Nat) /\ Len(Pointer(p.at[n])) = 2
  <2>1. p.at[n] \in Nat
    BY DEF PacketInv, AtInv
  <2>2. PICK d \in Nat, r \in Nat : Pointer(p.at[n]) = <<d, r>>
    BY <2>1, PointerOctets, Zenon
  <2>3. <<d, r>> \in Seq(Nat) /\ Len(<<d, r>>) = 2
    OBVIOUS
  <2> QED BY <2>2, <2>3, Zenon
<1>3. ASSUME Tail(name) \in DOMAIN p.at
      PROVE  /\ <<1, Head(name)>> \o Pointer(p.at[Tail(name)]) \in Seq(Nat)
             /\ Len(<<1, Head(name)>> \o Pointer(p.at[Tail(name)])) = 4
  <2>1. Head(name) \in Nat
    BY DEF Names
  <2>2. PICK u : u = <<1, Head(name)>>
    OBVIOUS
  <2>3. u \in Seq(Nat) /\ Len(u) = 2
    BY <2>1, <2>2
  <2>4. PICK v : v = Pointer(p.at[Tail(name)])
    OBVIOUS
  <2>5. v \in Seq(Nat) /\ Len(v) = 2
    BY <1>2, <1>3, <2>4
  <2>6. u \o v \in Seq(Nat) /\ Len(u \o v) = Len(u) + Len(v)
    BY <2>3, <2>5, ConcatLen
  <2>7. Len(u \o v) = 4
    BY <2>3, <2>5, <2>6
  <2> QED BY <2>2, <2>4, <2>6, <2>7, Zenon
<1>4. PICK s : s = Spelled(p, name, compressed)
  OBVIOUS
<1>5. \/ s = Encoded(name)
      \/ name \in DOMAIN p.at /\ s = Pointer(p.at[name])
      \/ Tail(name) \in DOMAIN p.at /\ s = <<1, Head(name)>> \o Pointer(p.at[Tail(name)])
  BY <1>4, Zenon DEF Spelled
<1>6. s \in Seq(Nat) /\ ((2 <= Len(s) /\ Len(s) <= 7) \/ Len(s) = 2 \/ Len(s) = 4)
  BY <1>1, <1>2, <1>3, <1>5, Zenon
<1>7. 2 <= 2 /\ 2 <= 7 /\ 2 <= 4 /\ 4 <= 7
  OBVIOUS
<1> QED BY <1>4, <1>6, <1>7, Zenon

(* A name that is added, with references or without, reads as itself in    *)
(* every buffer that holds it; when it is new, a later reference to it     *)
(* finds a letter.                                                         *)
LEMMA SpelledReads ==
  ASSUME NEW p, PacketInv(p), NEW name \in Names, NEW compressed \in BOOLEAN,
         NEW s, s = Spelled(p, name, compressed),
         NEW b \in Holding(p.octets \o s, Len(p.octets) + Len(s))
  PROVE  /\ Reads(b, Len(p.octets), Len(p.octets) + Len(s), name)
         /\ name \notin DOMAIN p.at => Letter(b, Len(p.octets))
<1>1. s \in Seq(Nat) /\ 2 <= Len(s) /\ Len(s) <= 7 /\ p.octets \in Seq(Nat) /\ Len(p.octets) \in Nat
  BY SpelledType DEF PacketInv
<1>2. PICK o \in Nat : o = Len(p.octets)
  BY <1>1
<1>3. name \in Seq(Nat) /\ name # <<>>
  BY DEF Names
<1>4. b \in Seq(Nat) /\ Len(b) \in (o + Len(s))..MaxOffset /\ Stands(b, o, s)
  <2>1. b \in Seq(Nat) /\ Len(b) \in (o + Len(s))..MaxOffset /\ Agrees(b, p.octets \o s)
    BY <1>2 DEF Holding
  <2> QED BY <1>1, <1>2, <2>1, AgreesPrefix
<1>5. b \in Holding(p.octets, o)
  <2>1. o + Len(s) \in Nat /\ o <= o + Len(s)
    BY <1>1
  <2> QED BY <1>1, <1>2, <2>1, HoldingPrefix
<1>6. ASSUME NEW n \in DOMAIN p.at
      PROVE  Letter(b, p.at[n]) /\ p.at[n] \in Nat /\ \E end : Reads(b, p.at[n], end, n)
  BY <1>2, <1>5 DEF PacketInv, AtInv
<1>7. CASE s = Encoded(name)
  <2>1. Len(s) = 2 * Len(name) + 1 /\ o + 2 * Len(name) + 1 = o + (2 * Len(name) + 1)
    BY <1>3, <1>7, EncodedLen
  <2>2. Reads(b, o, o + 2 * Len(name) + 1, name)
    BY <1>3, <1>4, <1>7, EncodedReads
  <2>3. Letter(b, o)
    BY <1>3, <1>4, <1>7, EncodedSplits, Zenon
  <2> QED BY <1>2, <2>1, <2>2, <2>3
<1>8. CASE name \in DOMAIN p.at /\ s = Pointer(p.at[name])
  <2>1. RefTo(b, o, p.at[name])
    BY <1>4, <1>6, <1>8, PointerRefs
  <2>2. PICK end : Reads(b, p.at[name], end, name)
    BY <1>6, <1>8
  <2>3. Reads(b, o, o + 2, name)
    BY <1>3, <1>4, <2>1, <2>2, ReadsRef
  <2>4. Len(s) = 2
    <3>1. p.at[name] \in Nat
      BY <1>6, <1>8
    <3>2. PICK d \in Nat, r \in Nat : Pointer(p.at[name]) = <<d, r>>
      BY <3>1, PointerOctets, Zenon
    <3> QED BY <1>8, <3>2
  <2> QED BY <1>2, <1>8, <2>3, <2>4
<1>9. CASE Tail(name) \in DOMAIN p.at /\ s = <<1, Head(name)>> \o Pointer(p.at[Tail(name)])
  <2>1. PICK t \in Nat : t = p.at[Tail(name)]
    BY <1>6, <1>9
  <2>3. PICK d \in Nat, r \in Nat : Pointer(t) = <<d, r>>
    BY PointerOctets, Zenon
  <2>4. Head(name) \in Nat /\ Tail(name) \in Seq(Nat)
    BY <1>3
  <2>5. Len(s) = 4 /\ s[1] = 1 /\ s[2] = Head(name) /\ s[3] = d /\ s[4] = r
    <3>1. PICK u : u = <<1, Head(name)>>
      OBVIOUS
    <3>2. PICK v : v = <<d, r>>
      OBVIOUS
    <3>3. s = u \o v
      BY <1>9, <2>1, <2>3, <3>1, <3>2, Zenon
    <3>4. /\ u \in Seq(Nat) /\ Len(u) = 2 /\ u[1] = 1 /\ u[2] = Head(name)
          /\ v \in Seq(Nat) /\ Len(v) = 2 /\ v[1] = d /\ v[2] = r
      BY <2>4, <3>1, <3>2
    <3>5. /\ Len(s) = Len(u) + Len(v)
          /\ \A i \in 1..Len(u) : s[i] = u[i]
          /\ \A i \in 1..Len(v) : s[Len(u) + i] = v[i]
      <4>1. u \in Seq(Nat) /\ v \in Seq(Nat)
        BY <3>4
      <4> QED BY <3>3, <4>1
    <3>6. \A i \in 1..2 : s[i] = u[i] /\ s[2 + i] = v[i]
      BY <3>4, <3>5
    <3>7. s[1] = u[1] /\ s[2] = u[2] /\ s[3] = v[1] /\ s[4] = v[2]
      BY <3>6
    <3> QED BY <3>4, <3>5, <3>7
  <2>6. /\ o + 4 <= Len(b) /\ b[o + 1] = 1 /\ b[o + 2] = Head(name)
        /\ b[o + 3] = d /\ b[o + 4] = r
    BY <1>4, <2>5 DEF Stands
  <2>7. Letter(b, o) /\ Octet(b, o + 1) = Head(name)
    BY <1>4, <2>6 DEF Letter, Octet
  <2>8. Stands(b, o + 2, Pointer(t))
    <3>1. Len(<<d, r>>) = 2 /\ <<d, r>>[1] = d /\ <<d, r>>[2] = r
          /\ b[(o + 2) + 1] = d /\ b[(o + 2) + 2] = r /\ o + 2 \in Nat /\ (o + 2) + 2 <= Len(b)
      BY <1>4, <2>6
    <3>2. \A i \in 1..2 : b[(o + 2) + i] = <<d, r>>[i]
      BY <3>1
    <3> QED BY <2>3, <3>1, <3>2 DEF Stands
  <2>9. RefTo(b, o + 2, t)
    BY <1>4, <1>6, <1>9, <2>1, <2>8, PointerRefs
  <2>10. PICK end : Reads(b, t, end, Tail(name))
    BY <1>6, <1>9, <2>1
  <2>11. Reads(b, o + 2, (o + 2) + 2, Tail(name))
    BY <1>4, <2>4, <2>9, <2>10, ReadsRef
  <2>12. Reads(b, o, (o + 2) + 2, <<Head(name)>> \o Tail(name))
    BY <1>4, <2>4, <2>7, <2>11, ReadsLetter
  <2>13. <<Head(name)>> \o Tail(name) = name /\ (o + 2) + 2 = o + 4
    BY <1>3, HeadTail
  <2> QED BY <1>2, <2>5, <2>7, <2>12, <2>13
<1> QED BY <1>7, <1>8, <1>9 DEF Spelled

(* More octets behind the packet change nothing in front.                  *)
LEMMA GrowInv ==
  ASSUME NEW p, PacketInv(p), NEW s \in Seq(Nat), NEW q,
         DOMAIN q = {"octets", "at", "names"},
         q.octets = p.octets \o s, q.at = p.at, q.names = p.names
  PROVE  PacketInv(q)
<1>1. /\ p.octets \in Seq(Nat) /\ q.octets \in Seq(Nat) /\ Len(q.octets) = Len(p.octets) + Len(s)
      /\ Len(p.octets) \in Nat /\ Len(s) \in Nat
  BY DEF PacketInv
<1>2. AtInv(q)
  <2> SUFFICES ASSUME NEW name \in DOMAIN p.at
               PROVE  /\ p.at[name] \in Nat
                      /\ \A b \in Holding(q.octets, Len(q.octets)) :
                           Letter(b, p.at[name]) /\ \E end : Reads(b, p.at[name], end, name)
    BY DEF AtInv
  <2>1. Holding(q.octets, Len(q.octets)) \subseteq Holding(p.octets, Len(p.octets))
    <3>1. Len(q.octets) \in Nat /\ Len(p.octets) <= Len(q.octets)
      BY <1>1
    <3> QED BY <1>1, <3>1, HoldingPrefix
  <2> QED BY <2>1 DEF PacketInv, AtInv
<1>3. NamesInv(q)
  <2> SUFFICES ASSUME NEW n \in p.names
               PROVE  /\ n.name \in Names /\ n.at \in Nat /\ n.end \in Nat
                      /\ \A b \in Holding(q.octets, n.end) : Reads(b, n.at, n.end, n.name)
    BY DEF NamesInv
  <2>1. n.name \in Names /\ n.at \in Nat /\ n.end \in Nat
    BY DEF PacketInv, NamesInv
  <2>2. Holding(q.octets, n.end) \subseteq Holding(p.octets, n.end)
    BY <1>1, <2>1, HoldingPrefix
  <2> QED BY <2>1, <2>2 DEF PacketInv, NamesInv
<1> QED BY <1>1, <1>2, <1>3 DEF PacketInv

(* A packet to which octets were added that are no name.                   *)
Grown(p, q, s) ==
  PacketInv(q) /\ q.octets = p.octets \o s /\ q.at = p.at /\ q.names = p.names

(* WithOctets keeps the invariant of the packet.                           *)
LEMMA WithOctetsInv ==
  ASSUME NEW p, PacketInv(p), NEW s \in Seq(Nat)
  PROVE  Grown(p, WithOctets(p, s), s)
<1>1. PICK q : q = WithOctets(p, s)
  OBVIOUS
<1>2. DOMAIN q = {"octets", "at", "names"} /\ q.octets = p.octets \o s /\ q.at = p.at
      /\ q.names = p.names
  BY <1>1 DEF WithOctets, PacketInv
<1> QED BY <1>1, <1>2, GrowInv DEF Grown

(* A name at the end of the packet.                                        *)
NameAdded(p, q, name, s) ==
  /\ PacketInv(q)
  /\ q.octets = p.octets \o s
  /\ q.names = p.names \cup
       {[at |-> Len(p.octets), end |-> Len(p.octets) + Len(s), name |-> name]}

(* WithName keeps it too, with one name more.                              *)
LEMMA WithNameInv ==
  ASSUME NEW p, PacketInv(p), NEW name \in Names, NEW compressed \in BOOLEAN
  PROVE  NameAdded(p, WithName(p, name, compressed), name, Spelled(p, name, compressed))
<1>0. PICK s, q : s = Spelled(p, name, compressed) /\ q = WithName(p, name, compressed)
  OBVIOUS
<1>1. PICK o : o = Len(p.octets)
  OBVIOUS
<1>2. PICK new : new = [at |-> o, end |-> o + Len(s), name |-> name]
  OBVIOUS
<1>3. /\ DOMAIN q = {"octets", "at", "names"}
      /\ q.octets = p.octets \o s
      /\ q.at = [n \in DOMAIN p.at \cup {name} |-> IF n \in DOMAIN p.at THEN p.at[n] ELSE o]
      /\ q.names = p.names \cup {new}
  BY <1>0, <1>1, <1>2 DEF WithName
<1>4. /\ p.octets \in Seq(Nat) /\ s \in Seq(Nat) /\ o \in Nat /\ Len(s) \in Nat
      /\ q.octets \in Seq(Nat) /\ Len(q.octets) = o + Len(s)
  <2>1. p.octets \in Seq(Nat) /\ s \in Seq(Nat)
    BY <1>0, SpelledType DEF PacketInv
  <2> QED BY <1>1, <1>3, <2>1
<1>5. ASSUME NEW b \in Holding(q.octets, o + Len(s))
      PROVE  Reads(b, o, o + Len(s), name) /\ (name \notin DOMAIN p.at => Letter(b, o))
  BY <1>0, <1>1, <1>3, <1>5, SpelledReads
<1>6. AtInv(q)
  <2> SUFFICES ASSUME NEW n \in DOMAIN p.at \cup {name}
               PROVE  /\ q.at[n] \in Nat
                      /\ \A b \in Holding(q.octets, o + Len(s)) :
                           Letter(b, q.at[n]) /\ \E end : Reads(b, q.at[n], end, n)
    BY <1>3, <1>4 DEF AtInv
  <2>1. CASE n \in DOMAIN p.at
    <3>1. q.at[n] = p.at[n]
      BY <1>3, <2>1
    <3>2. Holding(q.octets, o + Len(s)) \subseteq Holding(p.octets, o)
      <4>1. o + Len(s) \in Nat /\ o <= o + Len(s)
        BY <1>4
      <4> QED BY <1>3, <1>4, <4>1, HoldingPrefix
    <3> QED BY <1>1, <2>1, <3>1, <3>2 DEF PacketInv, AtInv
  <2>2. CASE n \notin DOMAIN p.at
    <3>1. n = name /\ q.at[n] = o
      BY <1>3, <2>2
    <3> QED BY <1>4, <1>5, <2>2, <3>1
  <2> QED BY <2>1, <2>2
<1>7. NamesInv(q)
  <2> SUFFICES ASSUME NEW n \in p.names \cup {new}
               PROVE  /\ n.name \in Names /\ n.at \in Nat /\ n.end \in Nat
                      /\ \A b \in Holding(q.octets, n.end) : Reads(b, n.at, n.end, n.name)
    BY <1>3 DEF NamesInv
  <2>1. CASE n \in p.names
    <3>1. n.name \in Names /\ n.at \in Nat /\ n.end \in Nat
      BY <2>1 DEF PacketInv, NamesInv
    <3>2. Holding(q.octets, n.end) \subseteq Holding(p.octets, n.end)
      BY <1>3, <1>4, <3>1, HoldingPrefix
    <3> QED BY <2>1, <3>1, <3>2 DEF PacketInv, NamesInv
  <2>2. CASE n = new
    <3>1. n.name = name /\ n.at = o /\ n.end = o + Len(s)
      BY <1>2, <2>2
    <3>2. o + Len(s) \in Nat
      BY <1>4
    <3> QED BY <1>4, <1>5, <3>1, <3>2
  <2> QED BY <2>1, <2>2
<1>8. DOMAIN q.at \subseteq Names
  BY <1>3 DEF PacketInv
<1>9. PacketInv(q)
  BY <1>3, <1>4, <1>6, <1>7, <1>8 DEF PacketInv
<1> QED BY <1>0, <1>1, <1>2, <1>3, <1>9, Zenon DEF NameAdded

(* Zeros are octets.                                                       *)
LEMMA ZerosLen ==
  ASSUME NEW n \in Nat
  PROVE  Zeros(n) \in Seq(Nat) /\ Len(Zeros(n)) = n
  BY DEF Zeros

(* The name that a record is about, and its fixed part.                    *)
Owner(kind) == IF kind \in {"ptr", "other"} THEN Service
               ELSE IF kind = "addr" THEN <<H, L>> ELSE Instance("ptr")

Fixed(length) == Zeros(FixedSize - 2) \o mdns_htons(length)

(* The names in use have at most three labels.                             *)
LEMMA NamesUsed ==
  /\ Service \in Names /\ <<H, L>> \in Names
  /\ \A kind \in Kinds : Instance(kind) \in Names /\ Owner(kind) \in Names
<1>1. Service \in Names /\ <<H, L>> \in Names
  BY DEF Service, Names, G, H, L
<1>2. ASSUME NEW kind PROVE Instance(kind) \in Names
  <2>1. Instance(kind) = <<Z, G, L>> \/ Instance(kind) = <<X, G, L>>
    <3>1. \A a, b, c \in Nat : <<a>> \o <<b, c>> = <<a, b, c>>
      <4> SUFFICES ASSUME NEW a \in Nat, NEW b \in Nat, NEW c \in Nat
                   PROVE  <<a>> \o <<b, c>> = <<a, b, c>>
        OBVIOUS
      <4>1. PICK t : t = <<a>> \o <<b, c>>
        OBVIOUS
      <4>2. t \in Seq(Nat) /\ Len(t) = 3 /\ t[1] = a /\ t[2] = b /\ t[3] = c
        BY <4>1
      <4>3. t = <<a, b, c>>
        BY <4>2
      <4> QED BY <4>1, <4>3
    <3>2. Z \in Nat /\ X \in Nat /\ G \in Nat /\ L \in Nat
      BY DEF Z, X, G, L
    <3> QED BY <3>1, <3>2 DEF Instance, Service
  <2>2. <<Z, G, L>> \in Names /\ <<X, G, L>> \in Names
    BY DEF Names, Z, X, G, L
  <2> QED BY <2>1, <2>2
<1> QED BY <1>1, <1>2 DEF Owner

(* The fixed part has ten octets, the last two of which are the length.    *)
LEMMA FixedLen ==
  ASSUME NEW v \in Nat
  PROVE  Fixed(v) \in Seq(Nat) /\ Len(Fixed(v)) = 10
         /\ 256 * Fixed(v)[9] + Fixed(v)[10] = v
<1>1. PICK d \in Nat, r \in Nat : mdns_htons(v) = <<d, r>> /\ v = 256 * d + r
  BY TwoOctets
<1>2. PICK z : z = Zeros(8)
  OBVIOUS
<1>3. z \in Seq(Nat) /\ Len(z) = 8
  BY <1>2, ZerosLen
<1>4. Fixed(v) = z \o <<d, r>>
  BY <1>1, <1>2 DEF Fixed, FixedSize
<1>5. PICK f : f = z \o <<d, r>>
  OBVIOUS
<1>6. f \in Seq(Nat) /\ Len(f) = 10 /\ f[9] = d /\ f[10] = r
  <2>1. PICK t : t = <<d, r>>
    OBVIOUS
  <2>2. t \in Seq(Nat) /\ Len(t) = 2 /\ t[1] = d /\ t[2] = r
    BY <2>1
  <2>3. /\ f \in Seq(Nat) /\ Len(f) = 8 + 2
        /\ \A i \in 1..2 : f[8 + i] = t[i]
    <3>1. z \in Seq(Nat) /\ t \in Seq(Nat) /\ f = z \o t
      BY <1>3, <1>5, <2>1, <2>2, Zenon
    <3>2. /\ f \in Seq(Nat) /\ Len(f) = Len(z) + Len(t)
          /\ \A i \in 1..Len(t) : f[Len(z) + i] = t[i]
      BY <3>1
    <3> QED BY <1>3, <2>2, <3>2
  <2>4. f[8 + 1] = t[1] /\ f[8 + 2] = t[2]
    BY <2>3
  <2> QED BY <2>2, <2>3, <2>4
<1> QED BY <1>1, <1>4, <1>5, <1>6

(* Sequences with the same octets are the same.                            *)
LEMMA SameOctets ==
  ASSUME NEW u \in Seq(Nat), NEW v \in Seq(Nat), Len(u) = Len(v),
         \A i \in 1..Len(u) : u[i] = v[i]
  PROVE  u = v
  OBVIOUS

(* Putting together is associative.                                        *)
LEMMA ConcatAssoc ==
  ASSUME NEW r \in Seq(Nat), NEW s \in Seq(Nat), NEW t \in Seq(Nat)
  PROVE  (r \o s) \o t = r \o (s \o t)
<1>1. PICK u : u = (r \o s) \o t
  OBVIOUS
<1>2. PICK v : v = r \o (s \o t)
  OBVIOUS
<1>3. u \in Seq(Nat) /\ v \in Seq(Nat) /\ Len(u) = Len(v)
  BY <1>1, <1>2
<1>4. ASSUME NEW i \in 1..Len(u) PROVE u[i] = v[i]
  BY <1>1, <1>2
<1>5. u = v
  BY <1>3, <1>4, SameOctets
<1> QED BY <1>1, <1>2, <1>5

(* A record of length d behind a packet: where the owner's name and the    *)
(* data are.                                                               *)
RecordAt(p, q, kind, s, d) ==
  /\ s \in Seq(Nat) /\ 2 <= Len(s) /\ Len(s) <= 7
  /\ d \in Seq(Nat)
  /\ q.octets = ((p.octets \o s) \o Fixed(Len(d))) \o d
  /\ [at |-> Len(p.octets), end |-> Len(p.octets) + Len(s), name |-> Owner(kind)] \in q.names
  /\ kind \in {"ptr", "other"} =>
       /\ 2 <= Len(d)
       /\ [at |-> Len(p.octets) + Len(s) + 10, end |-> Len(p.octets) + Len(s) + 10 + Len(d),
           name |-> Instance(kind)] \in q.names
  /\ kind = "addr" => Len(d) = 16 /\ d[1] = 254 /\ d[2] = 128
  /\ kind = "text" => Len(d) = 1

(* A record whose data is a name keeps the invariant of the packet.        *)
LEMMA NameRecord ==
  ASSUME NEW p, PacketInv(p), NEW kind \in {"ptr", "other"}, NEW compressed \in BOOLEAN,
         NEW q, q = WithRecord(p, kind, compressed)
  PROVE  PacketInv(q) /\ \E s, d : RecordAt(p, q, kind, s, d)
<1>1. PICK name \in Names : name = Instance(kind)
  BY NamesUsed DEF Kinds
<1>2. PICK s : s = Spelled(p, Service, compressed)
  OBVIOUS
<1>3. PICK owner : owner = WithName(p, Service, compressed)
  OBVIOUS
<1>4. Service \in Names /\ Owner(kind) = Service
  BY NamesUsed DEF Owner
<1>5. PICK o : o = Len(p.octets)
  OBVIOUS
<1>6. PICK first : first = [at |-> o, end |-> o + Len(s), name |-> Service]
  OBVIOUS
<1>7. PacketInv(owner) /\ owner.octets = p.octets \o s /\ first \in owner.names
  <2>1. /\ PacketInv(owner) /\ owner.octets = p.octets \o s
        /\ owner.names = p.names \cup
             {[at |-> Len(p.octets), end |-> Len(p.octets) + Len(s), name |-> Service]}
    BY <1>2, <1>3, <1>4, WithNameInv, Zenon DEF NameAdded
  <2> QED BY <1>5, <1>6, <2>1, Zenon
<1>8. PICK room : room = WithOctets(owner, Zeros(FixedSize))
  OBVIOUS
<1>9. PICK d : d = Spelled(owner, name, compressed)
  OBVIOUS
<1>10. d \in Seq(Nat) /\ 2 <= Len(d) /\ Len(d) \in Nat
  BY <1>7, <1>9, SpelledType
<1>11. PICK fixed : fixed = WithOctets(owner, Fixed(Len(d)))
  OBVIOUS
<1>12. /\ PacketInv(fixed) /\ fixed.octets = owner.octets \o Fixed(Len(d))
       /\ fixed.at = owner.at /\ fixed.names = owner.names
  BY <1>7, <1>10, <1>11, WithOctetsInv, FixedLen DEF Grown
<1>13. room.at = owner.at
  <2>1. Zeros(FixedSize) \in Seq(Nat)
    BY ZerosLen DEF FixedSize
  <2> QED BY <1>7, <1>8, <2>1, WithOctetsInv DEF Grown
<1>14. Spelled(room, name, compressed) = d /\ Spelled(fixed, name, compressed) = d
  BY <1>9, <1>12, <1>13 DEF Spelled
<1>15. q = WithName(fixed, name, compressed)
  BY <1>1, <1>3, <1>8, <1>11, <1>14 DEF WithRecord, Fixed
<1>16. PICK second :
         second = [at |-> Len(fixed.octets), end |-> Len(fixed.octets) + Len(d), name |-> name]
  OBVIOUS
<1>17. PacketInv(q) /\ q.octets = fixed.octets \o d /\ q.names = fixed.names \cup {second}
  <2>1. /\ PacketInv(q) /\ q.octets = fixed.octets \o d
        /\ q.names = fixed.names \cup
             {[at |-> Len(fixed.octets), end |-> Len(fixed.octets) + Len(d), name |-> name]}
    <3>1. NameAdded(fixed, WithName(fixed, name, compressed), name, Spelled(fixed, name, compressed))
      BY <1>12, WithNameInv
    <3>2. NameAdded(fixed, q, name, d)
      BY <1>14, <1>15, <3>1, Zenon
    <3> QED BY <3>2, Zenon DEF NameAdded
  <2> QED BY <1>16, <2>1, Zenon
<1>18. s \in Seq(Nat) /\ 2 <= Len(s) /\ Len(s) <= 7
  BY <1>2, <1>4, SpelledType
<1>19. Len(fixed.octets) = o + Len(s) + 10
  <2>1. p.octets \in Seq(Nat) /\ Fixed(Len(d)) \in Seq(Nat) /\ Len(Fixed(Len(d))) = 10
    BY <1>10, FixedLen DEF PacketInv
  <2>2. p.octets \o s \in Seq(Nat) /\ Len(p.octets \o s) = o + Len(s)
    BY <1>5, <1>18, <2>1
  <2>3. PICK u : u = p.octets \o s
    OBVIOUS
  <2>4. PICK v : v = Fixed(Len(d))
    OBVIOUS
  <2>5. u \in Seq(Nat) /\ Len(u) = o + Len(s) /\ v \in Seq(Nat) /\ Len(v) = 10
    BY <2>1, <2>2, <2>3, <2>4
  <2>6. fixed.octets = u \o v
    BY <1>7, <1>12, <2>3, <2>4, Zenon
  <2>7. Len(u \o v) = Len(u) + Len(v)
    BY <2>5, ConcatLen
  <2> QED BY <2>5, <2>6, <2>7
<1>20. RecordAt(p, q, kind, s, d)
  BY <1>1, <1>4, <1>5, <1>6, <1>7, <1>10, <1>12, <1>16, <1>17, <1>18, <1>19 DEF RecordAt
<1> QED BY <1>17, <1>20

(* The data of the other records.                                          *)
LEMMA DataRecord ==
  ASSUME NEW p, PacketInv(p), NEW kind \in {"addr", "text"}, NEW compressed \in BOOLEAN,
         NEW d \in Seq(Nat), NEW q,
         q = WithOctets(WithName(p, Owner(kind), compressed), Fixed(Len(d)) \o d),
         kind = "addr" => Len(d) = 16 /\ d[1] = 254 /\ d[2] = 128,
         kind = "text" => Len(d) = 1
  PROVE  PacketInv(q) /\ \E s, e : RecordAt(p, q, kind, s, e)
<1>1. PICK s : s = Spelled(p, Owner(kind), compressed)
  OBVIOUS
<1>2. PICK owner : owner = WithName(p, Owner(kind), compressed)
  OBVIOUS
<1>3. Owner(kind) \in Names
  BY NamesUsed DEF Kinds
<1>4. PICK first : first = [at |-> Len(p.octets), end |-> Len(p.octets) + Len(s),
                           name |-> Owner(kind)]
  OBVIOUS
<1>5. PacketInv(owner) /\ owner.octets = p.octets \o s /\ first \in owner.names
  <2>1. /\ PacketInv(owner) /\ owner.octets = p.octets \o s
        /\ owner.names = p.names \cup
             {[at |-> Len(p.octets), end |-> Len(p.octets) + Len(s), name |-> Owner(kind)]}
    <3>1. NameAdded(p, WithName(p, Owner(kind), compressed), Owner(kind),
                    Spelled(p, Owner(kind), compressed))
      BY <1>3, WithNameInv
    <3>2. NameAdded(p, owner, Owner(kind), s)
      BY <1>1, <1>2, <3>1, Zenon
    <3> QED BY <3>2, Zenon DEF NameAdded
  <2> QED BY <1>4, <2>1, Zenon
<1>6. s \in Seq(Nat) /\ 2 <= Len(s) /\ Len(s) <= 7
  BY <1>1, <1>3, SpelledType
<1>7. Fixed(Len(d)) \in Seq(Nat) /\ Fixed(Len(d)) \o d \in Seq(Nat)
  <2>1. Len(d) \in Nat
    OBVIOUS
  <2>2. Fixed(Len(d)) \in Seq(Nat)
    BY <2>1, FixedLen
  <2> QED BY <2>2, ConcatLen
<1>8. PacketInv(q) /\ q.octets = owner.octets \o (Fixed(Len(d)) \o d) /\ q.names = owner.names
  <2>1. Grown(owner, WithOctets(owner, Fixed(Len(d)) \o d), Fixed(Len(d)) \o d)
    <3>1. PacketInv(owner) /\ Fixed(Len(d)) \o d \in Seq(Nat)
      BY <1>5, <1>7, Zenon
    <3> QED BY <3>1, WithOctetsInv, Zenon
  <2>2. Grown(owner, q, Fixed(Len(d)) \o d)
    BY <1>2, <2>1, Zenon
  <2> QED BY <2>2, Zenon DEF Grown
<1>9. q.octets = ((p.octets \o s) \o Fixed(Len(d))) \o d
  <2>1. p.octets \o s \in Seq(Nat)
    BY <1>6, ConcatLen DEF PacketInv
  <2>2. ((p.octets \o s) \o Fixed(Len(d))) \o d = (p.octets \o s) \o (Fixed(Len(d)) \o d)
    BY <1>7, <2>1, ConcatAssoc, Zenon
  <2> QED BY <1>5, <1>8, <2>2, Zenon
<1>10. RecordAt(p, q, kind, s, d)
  BY <1>4, <1>5, <1>6, <1>8, <1>9 DEF RecordAt
<1> QED BY <1>8, <1>10

(* So does every record.                                                   *)
LEMMA RecordInv ==
  ASSUME NEW p, PacketInv(p), NEW kind \in Kinds, NEW compressed \in BOOLEAN,
         NEW q, q = WithRecord(p, kind, compressed)
  PROVE  PacketInv(q) /\ \E s, d : RecordAt(p, q, kind, s, d)
<1>1. CASE kind \in {"ptr", "other"}
  BY <1>1, NameRecord
<1>2. CASE kind = "addr"
  <2>1. PICK a : a = <<254, 128>>
    OBVIOUS
  <2>2. PICK z : z = Zeros(14)
    OBVIOUS
  <2>3. /\ a \in Seq(Nat) /\ Len(a) = 2 /\ a[1] = 254 /\ a[2] = 128
        /\ z \in Seq(Nat) /\ Len(z) = 14
    <3>1. a \in Seq(Nat) /\ Len(a) = 2 /\ a[1] = 254 /\ a[2] = 128
      BY <2>1
    <3>2. 14 \in Nat
      OBVIOUS
    <3>3. z \in Seq(Nat) /\ Len(z) = 14
      BY <2>2, <3>2, ZerosLen, Zenon
    <3> QED BY <3>1, <3>3
  <2>4. PICK d : d = a \o z
    OBVIOUS
  <2>5. d \in Seq(Nat) /\ Len(d) = 16 /\ d[1] = 254 /\ d[2] = 128
    <3>1. /\ d \in Seq(Nat) /\ Len(d) = Len(a) + Len(z)
          /\ \A i \in 1..Len(a) : d[i] = a[i]
      <4>1. a \in Seq(Nat) /\ z \in Seq(Nat)
        BY <2>3
      <4> QED BY <2>4, <4>1
    <3>2. \A i \in 1..2 : d[i] = a[i]
      BY <2>3, <3>1
    <3> QED BY <2>3, <3>1, <3>2
  <2>6. q = WithOctets(WithName(p, Owner(kind), compressed),
                       ((Zeros(FixedSize - 2) \o mdns_htons(16)) \o a) \o z)
    BY <1>2, <2>1, <2>2 DEF WithRecord, Owner
  <2>7. ((Zeros(FixedSize - 2) \o mdns_htons(16)) \o a) \o z = Fixed(Len(d)) \o d
    <3>1. Fixed(16) \in Seq(Nat)
      BY FixedLen
    <3>2. (Fixed(16) \o a) \o z = Fixed(16) \o (a \o z)
      BY <2>3, <3>1, ConcatAssoc
    <3> QED BY <2>4, <2>5, <3>2, Zenon DEF Fixed
  <2>8. q = WithOctets(WithName(p, Owner(kind), compressed), Fixed(Len(d)) \o d)
    BY <2>6, <2>7, Zenon
  <2>9. kind \in {"addr", "text"} /\ kind # "text"
    BY <1>2
  <2> QED BY <2>5, <2>8, <2>9, DataRecord, Zenon
<1>3. CASE kind = "text"
  <2>1. PICK d : d = <<0>>
    OBVIOUS
  <2>2. d \in Seq(Nat) /\ Len(d) = 1
    BY <2>1
  <2>3. q = WithOctets(WithName(p, Owner(kind), compressed), Fixed(Len(d)) \o d)
    BY <1>3, <2>1, <2>2 DEF WithRecord, Owner, Fixed
  <2> QED BY <1>3, <2>2, <2>3, DataRecord
<1> QED BY <1>1, <1>2, <1>3 DEF Kinds

-----------------------------------------------------------------------------
(* The records of a message, one after the other.                          *)
IsBuilt(m, k, f) ==
  f = [n \in 0..k |-> IF n = 0 THEN Opening(m)
                     ELSE WithRecord(f[n - 1], m.answers[n], m.compressed)]

(* The recursion of Built has a solution.                                  *)
LEMMA BuiltExists ==
  ASSUME NEW m
  PROVE  \A k \in Nat : \E f : IsBuilt(m, k, f)
<1> DEFINE S == {k \in Nat : \E f : IsBuilt(m, k, f)}
<1>1. 0 \in S
  <2>1. IsBuilt(m, 0, [n \in 0..0 |-> Opening(m)])
    BY DEF IsBuilt
  <2> QED BY <2>1
<1>2. ASSUME NEW k \in Nat, k \in S PROVE k + 1 \in S
  <2>1. PICK f : IsBuilt(m, k, f)
    BY <1>2
  <2> DEFINE g == [n \in 0..(k + 1) |-> IF n <= k THEN f[n]
                      ELSE WithRecord(f[k], m.answers[k + 1], m.compressed)]
  <2>2. ASSUME NEW n \in 0..(k + 1)
        PROVE  g[n] = IF n = 0 THEN Opening(m)
                      ELSE WithRecord(g[n - 1], m.answers[n], m.compressed)
    <3>1. CASE n <= k
      BY <2>1, <3>1 DEF IsBuilt
    <3>2. CASE n = k + 1
      BY <3>2
    <3> QED BY <3>1, <3>2
  <2>3. IsBuilt(m, k + 1, g)
    <3> HIDE DEF g
    <3>1. DOMAIN g = 0..(k + 1) /\ g = [n \in 0..(k + 1) |-> g[n]]
      BY DEF g
    <3> QED BY <2>2, <3>1 DEF IsBuilt
  <2> QED BY <2>3
<1> HIDE DEF S
<1>3. \A k \in Nat : k \in S
  BY <1>1, <1>2, SetInduction
<1> QED BY <1>3 DEF S

(* How far it is continued makes no difference.                            *)
LEMMA BuiltUnique ==
  ASSUME NEW m, NEW k \in Nat, NEW j \in Nat, NEW f, NEW g,
         IsBuilt(m, k, f), IsBuilt(m, j, g)
  PROVE  \A n \in Nat : n <= k /\ n <= j => f[n] = g[n]
<1> DEFINE S == {n \in Nat : n <= k /\ n <= j => f[n] = g[n]}
<1>1. 0 \in S
  BY DEF IsBuilt
<1>2. ASSUME NEW n \in Nat, n \in S PROVE n + 1 \in S
  <2> SUFFICES ASSUME n + 1 <= k, n + 1 <= j PROVE f[n + 1] = g[n + 1]
    OBVIOUS
  <2>1. f[n] = g[n] /\ (n + 1) - 1 = n /\ n + 1 # 0 /\ n + 1 \in 0..k /\ n + 1 \in 0..j
    BY <1>2
  <2>2. f[n + 1] = WithRecord(f[n], m.answers[n + 1], m.compressed)
    BY <2>1 DEF IsBuilt
  <2>3. g[n + 1] = WithRecord(g[n], m.answers[n + 1], m.compressed)
    BY <2>1 DEF IsBuilt
  <2> QED BY <2>1, <2>2, <2>3
<1> HIDE DEF S
<1>3. \A n \in Nat : n \in S
  BY <1>1, <1>2, SetInduction
<1> QED BY <1>3 DEF S

(* Built adds the records one by one.                                      *)
LEMMA BuiltSteps ==
  ASSUME NEW m
  PROVE  /\ Built(m, 0) = Opening(m)
         /\ \A n \in Nat :
              Built(m, n + 1) = WithRecord(Built(m, n), m.answers[n + 1], m.compressed)
<1>1. ASSUME NEW k \in Nat PROVE \E f : IsBuilt(m, k, f) /\ Built(m, k) = f[k]
  <2>1. \E f : IsBuilt(m, k, f)
    BY BuiltExists
  <2> QED BY <2>1 DEF Built, IsBuilt
<1>2. Built(m, 0) = Opening(m)
  <2>1. PICK f : IsBuilt(m, 0, f) /\ Built(m, 0) = f[0]
    BY <1>1
  <2> QED BY <2>1 DEF IsBuilt
<1>3. ASSUME NEW n \in Nat
      PROVE  Built(m, n + 1) = WithRecord(Built(m, n), m.answers[n + 1], m.compressed)
  <2>0. n + 1 \in Nat /\ n <= n + 1 /\ n <= n /\ (n + 1) - 1 = n /\ n + 1 # 0
        /\ n + 1 \in 0..(n + 1)
    OBVIOUS
  <2>1. PICK f : IsBuilt(m, n + 1, f) /\ Built(m, n + 1) = f[n + 1]
    BY <1>1, <2>0
  <2>2. PICK g : IsBuilt(m, n, g) /\ Built(m, n) = g[n]
    BY <1>1
  <2>3. f[n] = g[n]
    BY <2>0, <2>1, <2>2, BuiltUnique
  <2>4. f[n + 1] = WithRecord(f[n], m.answers[n + 1], m.compressed)
    BY <2>0, <2>1 DEF IsBuilt
  <2> QED BY <2>1, <2>2, <2>3, <2>4
<1> QED BY <1>2, <1>3

(* The parts of a message.                                                 *)
LEMMA MessageParts ==
  ASSUME NEW m \in Messages
  PROVE  /\ m.response \in BOOLEAN /\ m.compressed \in BOOLEAN
         /\ Len(m.answers) \in Nat
         /\ \A n \in 1..Len(m.answers) : m.answers[n] \in Kinds
<1>1. m.response \in BOOLEAN /\ m.compressed \in BOOLEAN
  BY DEF Messages
<1>2. PICK n \in 0..MaxRecords : m.answers \in [1..n -> Kinds]
  BY DEF Messages
<1>3. n \in Nat
  BY <1>2, BoundsNat
<1>4. Len(m.answers) = n /\ \A i \in 1..n : m.answers[i] \in Kinds
  BY <1>2, <1>3
<1> QED BY <1>1, <1>3, <1>4

(* The header, with the numbers of questions and of answers.               *)
LEMMA StartedInv ==
  ASSUME NEW m \in Messages, NEW p, p = Started(m)
  PROVE  /\ PacketInv(p) /\ Len(p.octets) = HeaderSize
         /\ 256 * p.octets[5] + p.octets[6] = IF m.response THEN 0 ELSE 1
         /\ 256 * p.octets[7] + p.octets[8] = Len(m.answers)
<1>1. PICK q \in Nat : q = IF m.response THEN 0 ELSE 1
  <2>1. (IF m.response THEN 0 ELSE 1) \in Nat
    BY MessageParts
  <2> QED BY <2>1, Zenon
<1>2. PICK a \in Nat : a = Len(m.answers)
  BY MessageParts
<1>3. PICK d1 \in Nat, r1 \in Nat : mdns_htons(q) = <<d1, r1>> /\ q = 256 * d1 + r1
  BY TwoOctets
<1>4. PICK d2 \in Nat, r2 \in Nat : mdns_htons(a) = <<d2, r2>> /\ a = 256 * d2 + r2
  <2>1. a \in Nat
    OBVIOUS
  <2>2. \E d, r \in Nat : mdns_htons(a) = <<d, r>> /\ a = 256 * d + r /\ r < 256
    BY <2>1, TwoOctets
  <2> QED BY <2>2
<1>5. PICK z : z = Zeros(4)
  OBVIOUS
<1>6. z \in Seq(Nat) /\ Len(z) = 4
  BY <1>5, ZerosLen
<1>7. /\ DOMAIN p = {"octets", "at", "names"}
      /\ p.octets = ((z \o <<d1, r1>>) \o <<d2, r2>>) \o z
      /\ DOMAIN p.at = {} /\ p.names = {}
  BY <1>1, <1>2, <1>3, <1>4, <1>5 DEF Started
<1>8. PICK u : u = z \o <<d1, r1>>
  OBVIOUS
<1>9. u \in Seq(Nat) /\ Len(u) = 6 /\ u[5] = d1 /\ u[6] = r1
  <2>1. PICK t : t = <<d1, r1>>
    OBVIOUS
  <2>2. t \in Seq(Nat) /\ Len(t) = 2 /\ t[1] = d1 /\ t[2] = r1
    BY <2>1
  <2>3. u \in Seq(Nat) /\ Len(u) = Len(z) + Len(t) /\ \A i \in 1..Len(t) : u[Len(z) + i] = t[i]
    BY <1>6, <1>8, <2>1, <2>2, ConcatLen, Zenon
  <2>4. \A i \in 1..2 : u[4 + i] = t[i]
    BY <1>6, <2>2, <2>3
  <2>5. u[4 + 1] = t[1] /\ u[4 + 2] = t[2]
    BY <2>4
  <2> QED BY <1>6, <2>2, <2>3, <2>5
<1>10. PICK v : v = u \o <<d2, r2>>
  OBVIOUS
<1>11. v \in Seq(Nat) /\ Len(v) = 8 /\ v[5] = d1 /\ v[6] = r1 /\ v[7] = d2 /\ v[8] = r2
  <2>1. PICK t : t = <<d2, r2>>
    OBVIOUS
  <2>2. t \in Seq(Nat) /\ Len(t) = 2 /\ t[1] = d2 /\ t[2] = r2
    BY <2>1
  <2>3. /\ v \in Seq(Nat) /\ Len(v) = Len(u) + Len(t)
        /\ \A i \in 1..Len(u) : v[i] = u[i]
        /\ \A i \in 1..Len(t) : v[Len(u) + i] = t[i]
    BY <1>9, <1>10, <2>1, <2>2, ConcatLen, Zenon
  <2>4. (\A i \in 1..2 : v[6 + i] = t[i]) /\ (\A i \in 1..6 : v[i] = u[i])
    BY <1>9, <2>2, <2>3
  <2>5. v[6 + 1] = t[1] /\ v[6 + 2] = t[2] /\ v[5] = u[5] /\ v[6] = u[6]
    BY <2>4
  <2> QED BY <1>9, <2>2, <2>3, <2>5
<1>12. /\ p.octets \in Seq(Nat) /\ Len(p.octets) = 12
       /\ p.octets[5] = d1 /\ p.octets[6] = r1 /\ p.octets[7] = d2 /\ p.octets[8] = r2
  <2>1. p.octets = v \o z
    BY <1>7, <1>8, <1>10, Zenon
  <2>2. /\ p.octets \in Seq(Nat) /\ Len(p.octets) = Len(v) + Len(z)
        /\ \A i \in 1..Len(v) : p.octets[i] = v[i]
    <3>1. v \in Seq(Nat) /\ z \in Seq(Nat)
      BY <1>6, <1>11
    <3>2. /\ v \o z \in Seq(Nat) /\ Len(v \o z) = Len(v) + Len(z)
          /\ \A i \in 1..Len(v) : (v \o z)[i] = v[i]
      BY <3>1
    <3> QED BY <2>1, <3>2, Zenon
  <2>3. \A i \in 1..8 : p.octets[i] = v[i]
    BY <1>11, <2>2
  <2> QED BY <1>6, <1>11, <2>2, <2>3
<1>13. PacketInv(p)
  BY <1>7, <1>12 DEF PacketInv, AtInv, NamesInv
<1> QED BY <1>1, <1>2, <1>3, <1>4, <1>12, <1>13 DEF HeaderSize

(* The header of a message: the numbers of its questions and of its        *)
(* answers.                                                                *)
Header(m, s) ==
  /\ Len(s) >= 12
  /\ 256 * s[5] + s[6] = IF m.response THEN 0 ELSE 1
  /\ 256 * s[7] + s[8] = Len(m.answers)

(* What is added behind the header leaves it.                              *)
LEMMA HeaderKept ==
  ASSUME NEW m, NEW s \in Seq(Nat), NEW t \in Seq(Nat), NEW u, u = s \o t, Header(m, s)
  PROVE  Header(m, u)
<1>1. Len(u) = Len(s) + Len(t) /\ \A i \in 1..Len(s) : u[i] = s[i]
  OBVIOUS
<1>2. Len(s) >= 12 /\ Len(s) \in Nat /\ Len(t) \in Nat
  <2>1. Len(s) >= 12
    BY Zenon DEF Header
  <2> QED BY <2>1
<1>3. Len(u) >= 12 /\ u[5] = s[5] /\ u[6] = s[6] /\ u[7] = s[7] /\ u[8] = s[8]
  BY <1>1, <1>2
<1> QED BY <1>3 DEF Header

(* The header and the question, whose name is spelled as s.                *)
Opens(m, p, s) ==
  /\ PacketInv(p) /\ Header(m, p.octets)
  /\ m.response => Len(p.octets) = 12
  /\ ~m.response =>
       /\ s \in Seq(Nat) /\ 2 <= Len(s) /\ Len(s) <= 7
       /\ Len(p.octets) = 12 + Len(s) + 4
       /\ [at |-> 12, end |-> 12 + Len(s), name |-> Service] \in p.names

(* The header and the question satisfy the invariant of a packet.          *)
LEMMA OpeningInv ==
  ASSUME NEW m \in Messages, NEW p, p = Opening(m)
  PROVE  \E s : Opens(m, p, s)
<1>1. PICK h : h = Started(m)
  OBVIOUS
<1>2. PacketInv(h) /\ Len(h.octets) = 12 /\ Header(m, h.octets) /\ h.octets \in Seq(Nat)
  <2>1. PacketInv(h) /\ Len(h.octets) = HeaderSize
        /\ 256 * h.octets[5] + h.octets[6] = (IF m.response THEN 0 ELSE 1)
        /\ 256 * h.octets[7] + h.octets[8] = Len(m.answers)
    BY <1>1, StartedInv, SMT
  <2>2. Len(h.octets) = 12 /\ Len(h.octets) >= 12
    BY <2>1 DEF HeaderSize
  <2> QED BY <2>1, <2>2, Zenon DEF Header, PacketInv
<1>3. CASE m.response
  <2>1. p = h
    BY <1>1, <1>3 DEF Opening
  <2> QED BY <1>2, <1>3, <2>1 DEF Opens
<1>4. CASE ~m.response
  <2>1. PICK c \in BOOLEAN : c = m.compressed
    BY MessageParts
  <2>2. PICK s : s = Spelled(h, Service, c)
    OBVIOUS
  <2>3. PICK w : w = WithName(h, Service, c)
    OBVIOUS
  <2>4. p = WithOctets(w, Zeros(4))
    BY <1>1, <1>4, <2>1, <2>3 DEF Opening, QuestionTail
  <2>5. s \in Seq(Nat) /\ 2 <= Len(s) /\ Len(s) <= 7
    BY <1>2, <2>2, SpelledType, NamesUsed
  <2>6. NameAdded(h, w, Service, s)
    <3>1. NameAdded(h, WithName(h, Service, c), Service, Spelled(h, Service, c))
      BY <1>2, NamesUsed, WithNameInv
    <3> QED BY <2>2, <2>3, <3>1, Zenon
  <2>7. PacketInv(w) /\ w.octets = h.octets \o s
        /\ [at |-> Len(h.octets), end |-> Len(h.octets) + Len(s), name |-> Service] \in w.names
    BY <2>6, Zenon DEF NameAdded
  <2>8. Zeros(4) \in Seq(Nat) /\ Len(Zeros(4)) = 4
    BY ZerosLen
  <2>9. PacketInv(p) /\ p.octets = w.octets \o Zeros(4) /\ p.names = w.names
    <3>1. Grown(w, WithOctets(w, Zeros(4)), Zeros(4))
      BY <2>7, <2>8, WithOctetsInv
    <3> QED BY <2>4, <3>1, Zenon DEF Grown
  <2>10. w.octets \in Seq(Nat) /\ Len(w.octets) = 12 + Len(s) /\ Header(m, w.octets)
    <3>1. w.octets \in Seq(Nat) /\ Len(w.octets) = Len(h.octets) + Len(s)
      <4>1. h.octets \o s \in Seq(Nat) /\ Len(h.octets \o s) = Len(h.octets) + Len(s)
        BY <1>2, <2>5, ConcatLen
      <4> QED BY <2>7, <4>1, Zenon
    <3>2. Header(m, w.octets)
      BY <1>2, <2>5, <2>7, HeaderKept
    <3> QED BY <1>2, <3>1, <3>2
  <2>11. Len(p.octets) = 12 + Len(s) + 4 /\ Header(m, p.octets)
    <3>1. Len(p.octets) = Len(w.octets) + Len(Zeros(4))
      <4>1. Len(w.octets \o Zeros(4)) = Len(w.octets) + Len(Zeros(4))
        BY <2>8, <2>10, ConcatLen
      <4> QED BY <2>9, <4>1, Zenon
    <3>2. Header(m, p.octets)
      BY <2>8, <2>9, <2>10, HeaderKept
    <3> QED BY <2>8, <2>10, <3>1, <3>2
  <2>12. [at |-> 12, end |-> 12 + Len(s), name |-> Service] \in p.names
    BY <1>2, <2>7, <2>9, Zenon
  <2> QED BY <1>4, <2>5, <2>9, <2>11, <2>12, Zenon DEF Opens
<1> QED BY <1>3, <1>4

(* The octets of a record: u ends behind the owner's name, v behind the    *)
(* fixed part x.                                                           *)
Pieces(p, q, s, d, u, x, v) ==
  /\ p.octets \in Seq(Nat) /\ s \in Seq(Nat) /\ d \in Seq(Nat)
  /\ u \in Seq(Nat) /\ x \in Seq(Nat) /\ v \in Seq(Nat)
  /\ u = p.octets \o s /\ v = u \o x /\ q.octets = v \o d
  /\ Len(u) = Len(p.octets) + Len(s)
  /\ Len(x) = 10 /\ 256 * x[9] + x[10] = Len(d)
  /\ Len(v) = Len(u) + 10
  /\ Len(q.octets) = Len(v) + Len(d)

(* The pieces of a packet up to and with a record.                         *)
LEMMA RecordParts ==
  ASSUME NEW p, PacketInv(p), NEW q, NEW kind, NEW s, NEW d, RecordAt(p, q, kind, s, d)
  PROVE  \E u, x, v : Pieces(p, q, s, d, u, x, v)
<1>1. PICK o : o = p.octets
  OBVIOUS
<1>2. PICK x : x = Fixed(Len(d))
  OBVIOUS
<1>3. PICK u : u = o \o s
  OBVIOUS
<1>4. PICK v : v = u \o x
  OBVIOUS
<1>5. o \in Seq(Nat) /\ s \in Seq(Nat) /\ d \in Seq(Nat) /\ q.octets = v \o d
  BY <1>1, <1>2, <1>3, <1>4, Zenon DEF RecordAt, PacketInv
<1>6. x \in Seq(Nat) /\ Len(x) = 10 /\ 256 * x[9] + x[10] = Len(d)
  <2>1. Len(d) \in Nat
    BY <1>5
  <2> QED BY <1>2, <2>1, FixedLen, Zenon
<1>7. u \in Seq(Nat) /\ Len(u) = Len(o) + Len(s)
  BY <1>3, <1>5, ConcatLen, Zenon
<1>8. v \in Seq(Nat) /\ Len(v) = Len(u) + Len(x)
  BY <1>4, <1>6, <1>7, ConcatLen, Zenon
<1>9. Len(v \o d) = Len(v) + Len(d)
  BY <1>5, <1>8, ConcatLen, Zenon
<1>10. Pieces(p, q, s, d, u, x, v)
  <2>1. Len(v) = Len(u) + 10 /\ Len(q.octets) = Len(v) + Len(d)
    BY <1>5, <1>6, <1>8, <1>9, Zenon
  <2> QED BY <1>1, <1>3, <1>4, <1>5, <1>6, <1>7, <1>8, <2>1, Zenon DEF Pieces
<1> QED BY <1>10

(* A message up to each of its records.                                    *)
LEMMA BuiltInv ==
  ASSUME NEW m \in Messages
  PROVE  \A n \in Nat : n <= Len(m.answers) =>
           PacketInv(Built(m, n)) /\ Header(m, Built(m, n).octets)
<1> DEFINE P(n) == PacketInv(Built(m, n)) /\ Header(m, Built(m, n).octets)
           S == {n \in Nat : n <= Len(m.answers) => P(n)}
<1>1. 0 \in S
  <2>1. \E s : Opens(m, Built(m, 0), s)
    BY BuiltSteps, OpeningInv
  <2> QED BY <2>1, Zenon DEF Opens
<1>2. ASSUME NEW n \in Nat, n \in S PROVE n + 1 \in S
  <2> SUFFICES ASSUME n + 1 <= Len(m.answers) PROVE P(n + 1)
    OBVIOUS
  <2>1. Len(m.answers) \in Nat /\ n <= Len(m.answers) /\ n + 1 \in 1..Len(m.answers)
    BY MessageParts
  <2>2. P(n)
    BY <1>2, <2>1
  <2>3. Built(m, n + 1) = WithRecord(Built(m, n), m.answers[n + 1], m.compressed)
    BY BuiltSteps
  <2>4. m.answers[n + 1] \in Kinds /\ m.compressed \in BOOLEAN
    BY <2>1, MessageParts
  <2>5. PICK p, q : p = Built(m, n) /\ q = Built(m, n + 1)
    OBVIOUS
  <2>6. PICK s, d : RecordAt(p, q, m.answers[n + 1], s, d)
    BY <2>2, <2>3, <2>4, <2>5, RecordInv
  <2>7. PacketInv(p) /\ PacketInv(q)
    BY <2>2, <2>3, <2>4, <2>5, RecordInv
  <2>8. Header(m, q.octets)
    <3>1. Header(m, p.octets)
      BY <2>2, <2>5, Zenon
    <3>2. PICK u, x, v : Pieces(p, q, s, d, u, x, v)
      BY <2>6, <2>7, RecordParts
    <3>3. Header(m, u)
      BY <3>1, <3>2, HeaderKept, Zenon DEF Pieces
    <3>4. Header(m, v)
      BY <3>2, <3>3, HeaderKept, Zenon DEF Pieces
    <3> QED BY <3>2, <3>4, HeaderKept, Zenon DEF Pieces
  <2> QED BY <2>5, <2>7, <2>8, Zenon
<1> HIDE DEF S
<1>3. \A n \in Nat : n \in S
  BY <1>1, <1>2, SetInduction
<1> QED BY <1>3 DEF S

(* The record that is added to what was built.                             *)
LEMMA BuiltRecord ==
  ASSUME NEW m \in Messages, NEW n \in Nat, n + 1 <= Len(m.answers)
  PROVE  \E s, d : RecordAt(Built(m, n), Built(m, n + 1), m.answers[n + 1], s, d)
<1>1. Len(m.answers) \in Nat /\ n <= Len(m.answers) /\ n + 1 \in 1..Len(m.answers)
  BY MessageParts
<1>2. PacketInv(Built(m, n))
  BY <1>1, BuiltInv
<1>3. Built(m, n + 1) = WithRecord(Built(m, n), m.answers[n + 1], m.compressed)
  BY BuiltSteps
<1>4. m.answers[n + 1] \in Kinds /\ m.compressed \in BOOLEAN
  BY <1>1, MessageParts
<1> QED BY <1>2, <1>3, <1>4, RecordInv

-----------------------------------------------------------------------------
(* What recvfrom stores of a message.                                      *)
LEMMA SizesNat ==
  /\ MDNS_RESPONSE_BUFFER_SIZE \in Nat
  /\ 12 <= MDNS_RESPONSE_BUFFER_SIZE /\ MDNS_RESPONSE_BUFFER_SIZE <= AddressRef
<1>1. MDNS_RESPONSE_BUFFER_SIZE \in HeaderSize..AddressRef
  BY MdnsAssumption, Zenon
<1> QED BY <1>1 DEF HeaderSize, AddressRef

(* UpTo keeps the first octets.                                            *)
LEMMA UpToPrefix ==
  ASSUME NEW s \in Seq(Nat), NEW k \in Nat
  PROVE  /\ UpTo(s, k) \in Seq(Nat)
         /\ Len(UpTo(s, k)) = IF Len(s) < k THEN Len(s) ELSE k
         /\ \A i \in 1..Len(UpTo(s, k)) : UpTo(s, k)[i] = s[i]
<1>1. PICK j \in Nat : j = (IF Len(s) < k THEN Len(s) ELSE k) /\ j <= Len(s)
  OBVIOUS
<1>2. UpTo(s, k) = SubSeq(s, 1, j)
  BY <1>1, Zenon DEF UpTo
<1>3. SubSeq(s, 1, j) \in Seq(Nat) /\ Len(SubSeq(s, 1, j)) = j
      /\ \A i \in 1..j : SubSeq(s, 1, j)[i] = s[i]
  BY <1>1
<1> QED BY <1>1, <1>2, <1>3, Zenon

(* What is received is the start of the packet: all of it, or as much as   *)
(* the buffer holds.                                                       *)
LEMMA ReceivedPrefix ==
  ASSUME NEW m \in Messages, NEW b, b = Received(m)
  PROVE  /\ b \in Seq(Nat) /\ 12 <= Len(b) /\ Len(b) <= AddressRef
         /\ Len(b) <= MDNS_RESPONSE_BUFFER_SIZE
         /\ Len(Packet(m).octets) <= MDNS_RESPONSE_BUFFER_SIZE => Len(b) = Len(Packet(m).octets)
         /\ Len(Packet(m).octets) > MDNS_RESPONSE_BUFFER_SIZE
              => Len(b) = MDNS_RESPONSE_BUFFER_SIZE
         /\ Agrees(b, Packet(m).octets)
<1>1. PICK s : s = Packet(m).octets
  OBVIOUS
<1>2. s \in Seq(Nat) /\ Len(s) >= 12
  <2>1. Len(m.answers) \in Nat /\ Len(m.answers) <= Len(m.answers)
    BY MessageParts
  <2>2. PacketInv(Packet(m)) /\ Header(m, Packet(m).octets)
    BY <2>1, BuiltInv, Zenon DEF Packet
  <2> QED BY <1>1, <2>2, Zenon DEF PacketInv, Header
<1>3. b = UpTo(s, MDNS_RESPONSE_BUFFER_SIZE)
  BY <1>1 DEF Received
<1>4. /\ b \in Seq(Nat)
      /\ Len(b) = IF Len(s) < MDNS_RESPONSE_BUFFER_SIZE THEN Len(s) ELSE MDNS_RESPONSE_BUFFER_SIZE
      /\ \A i \in 1..Len(b) : b[i] = s[i]
  <2>1. PICK k \in Nat : k = MDNS_RESPONSE_BUFFER_SIZE
    BY SizesNat
  <2>2. b = UpTo(s, k) /\ s \in Seq(Nat)
    BY <1>2, <1>3, <2>1
  <2>3. /\ UpTo(s, k) \in Seq(Nat)
        /\ Len(UpTo(s, k)) = IF Len(s) < k THEN Len(s) ELSE k
        /\ \A i \in 1..Len(UpTo(s, k)) : UpTo(s, k)[i] = s[i]
    BY <2>2, UpToPrefix
  <2> QED BY <2>1, <2>2, <2>3
<1>5. Agrees(b, s)
  <2>1. \A i \in 1..Len(s) : i <= Len(b) => i \in 1..Len(b)
    BY <1>2, <1>4
  <2> QED BY <1>4, <2>1, Zenon DEF Agrees
<1>6. AddressRef = 16000
  BY DEF AddressRef
<1> QED BY <1>1, <1>2, <1>4, <1>5, <1>6, SizesNat

(* It agrees with the packet at every stage of its construction.           *)
LEMMA ReceivedAgrees ==
  ASSUME NEW m \in Messages, NEW b, b = Received(m)
  PROVE  \A n \in Nat : n <= Len(m.answers) => Agrees(b, Built(m, n).octets)
<1>1. PICK k \in Nat : k = Len(m.answers)
  BY MessageParts
<1> DEFINE S == {i \in Nat : i <= k => Agrees(b, Built(m, k - i).octets)}
<1>2. b \in Seq(Nat)
  BY ReceivedPrefix
<1>3. 0 \in S
  <2>1. k - 0 = k
    OBVIOUS
  <2>2. Agrees(b, Built(m, k).octets)
    BY <1>1, ReceivedPrefix, Zenon DEF Packet
  <2> QED BY <2>1, <2>2
<1>4. ASSUME NEW i \in Nat, i \in S PROVE i + 1 \in S
  <2> SUFFICES ASSUME i + 1 <= k PROVE Agrees(b, Built(m, k - (i + 1)).octets)
    OBVIOUS
  <2>1. PICK n \in Nat : n = k - (i + 1)
    OBVIOUS
  <2>2. k - i = n + 1 /\ n + 1 <= k /\ n <= k
    BY <2>1
  <2>3. Agrees(b, Built(m, n + 1).octets)
    BY <1>4, <2>2
  <2>4. PICK s, d : RecordAt(Built(m, n), Built(m, n + 1), m.answers[n + 1], s, d)
    BY <1>1, <2>2, BuiltRecord
  <2>5. PICK p, q : p = Built(m, n) /\ q = Built(m, n + 1)
    OBVIOUS
  <2>6. PacketInv(p)
    BY <1>1, <2>2, <2>5, BuiltInv
  <2>7. RecordAt(p, q, m.answers[n + 1], s, d) /\ Agrees(b, q.octets)
    BY <2>3, <2>4, <2>5, Zenon
  <2>8. PICK u, x, v : Pieces(p, q, s, d, u, x, v)
    BY <2>6, <2>7, RecordParts
  <2>9. Agrees(b, v)
    BY <1>2, <2>7, <2>8, AgreesPrefix, Zenon DEF Pieces
  <2>10. Agrees(b, u)
    BY <1>2, <2>8, <2>9, AgreesPrefix, Zenon DEF Pieces
  <2>11. Agrees(b, p.octets)
    BY <1>2, <2>8, <2>10, AgreesPrefix, Zenon DEF Pieces
  <2> QED BY <2>1, <2>5, <2>11, Zenon
<1> HIDE DEF S
<1>5. \A i \in Nat : i \in S
  BY <1>3, <1>4, SetInduction
<1>6. ASSUME NEW n \in Nat, n <= k PROVE Agrees(b, Built(m, n).octets)
  <2>1. k - n \in Nat /\ k - n <= k /\ k - (k - n) = n
    BY <1>6
  <2>2. k - n \in S
    BY <1>5, <2>1
  <2>3. Agrees(b, Built(m, k - (k - n)).octets)
    BY <2>1, <2>2 DEF S
  <2> QED BY <2>1, <2>3
<1> QED BY <1>1, <1>6

(* What was read of a name that a message holds.                           *)
LEMMA ReadName ==
  ASSUME NEW b, NEW o, NEW end, NEW name \in Names, Reads(b, o, end, name), NEW c
  PROVE  /\ mdns_string_skip(b, Len(b), o) = end
         /\ mdns_string_extract(b, Len(b), o, c) = UpTo(Text(name), c)
<1>1. 65 \in (Len(name) + 1)..65
  <2>1. Len(name) \in Nat /\ Len(name) <= 3
    BY DEF Names
  <2> QED BY <2>1
<1>2. Skip(b)[65][o] = end /\ Extract(b)[65][o] = Text(name)
  BY <1>1, Zenon DEF Reads
<1>3. mdns_string_skip(b, Len(b), o) = Skip(b)[65][o]
  BY SkipEquations, Zenon
<1>4. mdns_string_extract(b, Len(b), o, c) = UpTo(Extract(b)[65][o], c)
  BY ExtractEquations, Zenon
<1> QED BY <1>2, <1>3, <1>4, Zenon

(* Every name that was received whole reads as itself.                     *)
LEMMA ReceivedReads ==
  ASSUME NEW m \in Messages, NEW k \in Nat, k <= Len(m.answers),
         NEW n \in Built(m, k).names, n.end <= Len(Received(m))
  PROVE  /\ n.name \in Names
         /\ Reads(Received(m), n.at, n.end, n.name)
<1>1. PICK b : b = Received(m)
  OBVIOUS
<1>2. PacketInv(Built(m, k)) /\ Agrees(b, Built(m, k).octets)
  BY <1>1, BuiltInv, ReceivedAgrees
<1>3. /\ n.name \in Names /\ n.at \in Nat /\ n.end \in Nat
      /\ \A c \in Holding(Built(m, k).octets, n.end) : Reads(c, n.at, n.end, n.name)
  BY <1>2, Zenon DEF PacketInv, NamesInv
<1>4. b \in Seq(Nat) /\ Len(b) \in n.end..MaxOffset
  <2>1. b \in Seq(Nat) /\ Len(b) <= AddressRef
    BY <1>1, ReceivedPrefix
  <2> QED BY <1>1, <1>3, <2>1 DEF AddressRef, MaxOffset
<1>5. b \in Holding(Built(m, k).octets, n.end)
  BY <1>2, <1>4, Zenon DEF Holding
<1> QED BY <1>1, <1>3, <1>5, Zenon

(* All messages are read as the standard has it.                           *)
LEMMA MessagesWellRead == Messages \subseteq WellRead
<1> SUFFICES ASSUME NEW m \in Messages PROVE m \in WellRead
  OBVIOUS
<1>1. ASSUME NEW n \in Packet(m).names, n.end <= Len(Received(m))
      PROVE  /\ mdns_string_skip(Received(m), Len(Received(m)), n.at) = n.end
             /\ mdns_string_extract(Received(m), Len(Received(m)), n.at, MDNS_PTR_NAME_SIZE)
                  = UpTo(Text(n.name), MDNS_PTR_NAME_SIZE)
  <2>1. Len(m.answers) \in Nat /\ Len(m.answers) <= Len(m.answers)
    BY MessageParts
  <2>2. n \in Built(m, Len(m.answers)).names
    BY Zenon DEF Packet
  <2>3. n.name \in Names /\ Reads(Received(m), n.at, n.end, n.name)
    BY <1>1, <2>1, <2>2, ReceivedReads
  <2> QED BY <2>3, ReadName, Zenon
<1> QED BY <1>1, Zenon DEF WellRead

-----------------------------------------------------------------------------
(* Writing a name.  The first dot from a position on.                      *)
LEMMA FindsDot ==
  ASSUME NEW name \in Seq(Nat), NEW from \in Nat, NEW pos \in Nat,
         from <= pos, pos < Len(name), name[pos + 1] = DOT,
         \A i \in Nat : from <= i /\ i < pos => name[i + 1] # DOT
  PROVE  mdns_string_find(name, from) = pos
<1> DEFINE dots == {i \in from..(Len(name) - 1) : Octet(name, i) = DOT}
<1>1. Len(name) \in Nat
  OBVIOUS
<1>2. pos \in dots
  BY <1>1 DEF Octet
<1>3. \A i \in dots : i \in Nat /\ pos <= i
  BY <1>1 DEF Octet
<1>4. mdns_string_find(name, from)
        = IF dots = {} THEN MDNS_INVALID_POS ELSE CHOOSE i \in dots : \A j \in dots : i <= j
  BY Zenon DEF mdns_string_find
<1> HIDE DEF dots
<1>5. \A i \in dots : (\A j \in dots : i <= j) => i = pos
  BY <1>2, <1>3
<1>6. \A j \in dots : pos <= j
  BY <1>3
<1>7. (CHOOSE i \in dots : \A j \in dots : i <= j) = pos
  BY <1>2, <1>5, <1>6, Zenon
<1> QED BY <1>2, <1>4, <1>7, Zenon

(* No dot is found where there is none.                                    *)
LEMMA FindsNone ==
  ASSUME NEW name \in Seq(Nat), NEW from \in Nat,
         \A i \in Nat : from <= i /\ i < Len(name) => name[i + 1] # DOT
  PROVE  mdns_string_find(name, from) = MDNS_INVALID_POS
<1>1. Len(name) \in Nat
  OBVIOUS
<1>2. {i \in from..(Len(name) - 1) : Octet(name, i) = DOT} = {}
  BY <1>1 DEF Octet
<1> QED BY <1>2, Zenon DEF mdns_string_find

(* The loop of make_labels.                                                *)
NoneMade(data) == [last_pos |-> 0, data |-> data, room |-> TRUE]

(* The recursion of make_labels, which has a solution.                     *)
IsMake(data, capacity, name, k, f) ==
  f = [n \in 0..k |-> IF n = 0 THEN NoneMade(data) ELSE make_label(capacity, name, f[n - 1])]

LEMMA MakeExists ==
  ASSUME NEW data, NEW capacity, NEW name
  PROVE  \A k \in Nat : \E f : IsMake(data, capacity, name, k, f)
<1> DEFINE S == {k \in Nat : \E f : IsMake(data, capacity, name, k, f)}
<1>1. 0 \in S
  <2>1. IsMake(data, capacity, name, 0, [n \in 0..0 |-> NoneMade(data)])
    BY DEF IsMake
  <2> QED BY <2>1
<1>2. ASSUME NEW k \in Nat, k \in S PROVE k + 1 \in S
  <2>1. PICK f : IsMake(data, capacity, name, k, f)
    BY <1>2
  <2> DEFINE g == [n \in 0..(k + 1) |-> IF n <= k THEN f[n] ELSE make_label(capacity, name, f[k])]
  <2>2. ASSUME NEW n \in 0..(k + 1)
        PROVE  g[n] = IF n = 0 THEN NoneMade(data) ELSE make_label(capacity, name, g[n - 1])
    <3>1. CASE n <= k
      BY <2>1, <3>1 DEF IsMake
    <3>2. CASE n = k + 1
      BY <3>2
    <3> QED BY <3>1, <3>2
  <2>3. IsMake(data, capacity, name, k + 1, g)
    <3> HIDE DEF g
    <3>1. DOMAIN g = 0..(k + 1) /\ g = [n \in 0..(k + 1) |-> g[n]]
      BY DEF g
    <3> QED BY <2>2, <3>1 DEF IsMake
  <2> QED BY <2>3
<1> HIDE DEF S
<1>3. \A k \in Nat : k \in S
  BY <1>1, <1>2, SetInduction
<1> QED BY <1>3 DEF S

(* The result of the loop, which ends in the state w.                      *)
Made(capacity, w) == IF ~w.room \/ capacity = Len(w.data) THEN <<>> ELSE w.data \o <<0>>

(* The passes of the loop of mdns_string_make and its result.              *)
MakeRun(data, capacity, name, f) ==
  /\ f[0] = NoneMade(data)
  /\ \A n \in Nat : n + 1 <= Len(name) => f[n + 1] = make_label(capacity, name, f[n])
  /\ make_labels(data, capacity, name) = Made(capacity, f[Len(name)])

LEMMA MakeEquations ==
  ASSUME NEW data, NEW capacity, NEW name \in Seq(Nat)
  PROVE  \E f : MakeRun(data, capacity, name, f)
<1>1. PICK k \in Nat : k = Len(name)
  OBVIOUS
<1>2. PICK f : f = CHOOSE g : IsMake(data, capacity, name, k, g)
  OBVIOUS
<1>3. IsMake(data, capacity, name, k, f)
  BY <1>2, MakeExists, Zenon
<1>4. f[0] = NoneMade(data)
  BY <1>3 DEF IsMake
<1>5. ASSUME NEW n \in Nat, n + 1 <= k PROVE f[n + 1] = make_label(capacity, name, f[n])
  <2>1. n + 1 \in 0..k /\ (n + 1) - 1 = n /\ n + 1 # 0
    BY <1>5
  <2> QED BY <1>3, <2>1 DEF IsMake
<1>6. make_labels(data, capacity, name) = Made(capacity, f[k])
  BY <1>1, <1>2 DEF make_labels, Made, IsMake, NoneMade
<1> QED BY <1>1, <1>4, <1>5, <1>6 DEF MakeRun

(* The labels, with a dot between them, as mdns_string_make gets them.     *)
Plain(labels, name) ==
  /\ name \in Seq(Nat) /\ Len(name) = 2 * Len(labels) - 1
  /\ \A i \in 1..(2 * Len(labels) - 1) :
       name[i] = IF i % 2 = 0 THEN DOT ELSE labels[(i + 1) \div 2]

(* Sequences of labels that can be told apart.                             *)
LabelSeqs == {s \in Seq(Nat) : 1 <= Len(s) /\ \A i \in 1..Len(s) : s[i] # DOT}

(* A trailing dot is dropped.                                              *)
LEMMA WithoutDot ==
  ASSUME NEW labels \in LabelSeqs, NEW text, text = Text(labels),
         NEW name \in {text, SubSeq(text, 1, Len(text) - 1)}
  PROVE  Plain(labels, without_dot(name))
<1>1. PICK k \in Nat : k = Len(labels) /\ 1 <= k
  BY DEF LabelSeqs
<1>2. labels \in Seq(Nat) /\ \A i \in 1..k : labels[i] # DOT
  BY <1>1 DEF LabelSeqs
<1>3. /\ text \in Seq(Nat) /\ Len(text) = 2 * k
      /\ \A i \in 1..(2 * k) : text[i] = IF i % 2 = 0 THEN DOT ELSE labels[(i + 1) \div 2]
  BY <1>1, <1>2, TextLen, Zenon
<1>4. PICK s : s = SubSeq(text, 1, Len(text) - 1)
  OBVIOUS
<1>5. s \in Seq(Nat) /\ Len(s) = 2 * k - 1 /\ \A i \in 1..(2 * k - 1) : s[i] = text[i]
  BY <1>1, <1>3, <1>4
<1>6. Plain(labels, s)
  <2>1. \A i \in 1..(2 * k - 1) : i \in 1..(2 * k)
    BY <1>1
  <2>2. \A i \in 1..(2 * k - 1) : s[i] = IF i % 2 = 0 THEN DOT ELSE labels[(i + 1) \div 2]
    BY <1>3, <1>5, <2>1, Zenon
  <2> QED BY <1>1, <1>5, <2>2, Zenon DEF Plain
<1>7. without_dot(text) = s
  <2>1. (2 * k) \in 1..(2 * k) /\ (2 * k) % 2 = 0
    BY <1>1
  <2>2. text[2 * k] = DOT
    BY <1>3, <2>1, Zenon
  <2> QED BY <1>3, <1>4, <2>2, Zenon DEF without_dot
<1>8. without_dot(s) = s
  <2>1. (2 * k - 1) \in 1..(2 * k - 1) /\ (2 * k - 1) \in 1..(2 * k)
        /\ (2 * k - 1) % 2 # 0 /\ ((2 * k - 1) + 1) \div 2 = k /\ k \in 1..k
    BY <1>1
  <2>2. s[2 * k - 1] = text[2 * k - 1]
    BY <1>5, <2>1, Zenon
  <2>3. text[2 * k - 1] = labels[((2 * k - 1) + 1) \div 2]
    BY <1>3, <2>1, Zenon
  <2>4. s[Len(s)] # DOT
    BY <1>2, <1>5, <2>1, <2>2, <2>3, Zenon
  <2> QED BY <2>4, Zenon DEF without_dot
<1> QED BY <1>4, <1>6, <1>7, <1>8, Zenon

(* One octet added to a sequence.                                          *)
LEMMA OneMore ==
  ASSUME NEW d \in Seq(Nat), NEW c \in Nat
  PROVE  /\ d \o <<c>> \in Seq(Nat) /\ Len(d \o <<c>>) = Len(d) + 1
         /\ \A i \in 1..Len(d) : (d \o <<c>>)[i] = d[i]
         /\ (d \o <<c>>)[Len(d) + 1] = c
  OBVIOUS

(* After j passes, j labels are written behind data, or there was no room. *)
MakeInv(data, capacity, labels, j, w) ==
  \/ /\ w.room = FALSE
     /\ capacity <= Len(data) + 2 * Len(labels)
  \/ /\ w = [last_pos |-> 2 * j, data |-> w.data, room |-> TRUE]
     /\ w.room = TRUE
     /\ w.data \in Seq(Nat) /\ Len(w.data) = Len(data) + 2 * j
     /\ \A i \in 1..Len(data) : w.data[i] = data[i]
     /\ \A i \in 1..(2 * j) : w.data[Len(data) + i] = Encoded(labels)[i]
     /\ j > 0 => Len(data) + 2 * j < capacity

(* A pass of the loop adds one label, if there is room for it.             *)
LEMMA MakeStep ==
  ASSUME NEW data \in Seq(Nat), NEW capacity \in Nat, NEW labels \in LabelSeqs,
         NEW name, Plain(labels, name),
         NEW j \in Nat, NEW w, MakeInv(data, capacity, labels, j, w),
         j < Len(labels)
  PROVE  MakeInv(data, capacity, labels, j + 1, make_label(capacity, name, w))
<1>1. PICK k \in Nat : k = Len(labels) /\ 1 <= k /\ j < k
  BY DEF LabelSeqs
<1>2. labels \in Seq(Nat) /\ \A i \in 1..k : labels[i] # DOT /\ labels[i] \in Nat
  BY <1>1 DEF LabelSeqs
<1>3. /\ name \in Seq(Nat) /\ Len(name) = 2 * k - 1
      /\ \A i \in 1..(2 * k - 1) : name[i] = IF i % 2 = 0 THEN DOT ELSE labels[(i + 1) \div 2]
  BY <1>1, Zenon DEF Plain
<1>4. CASE w.room = FALSE
  <2>1. make_label(capacity, name, w) = w
    BY <1>4 DEF make_label
  <2>2. capacity <= Len(data) + 2 * Len(labels)
    BY <1>4, Zenon DEF MakeInv
  <2> QED BY <1>4, <2>1, <2>2, Zenon DEF MakeInv
<1>5. CASE w.room # FALSE
  <2>1. PICK d : d = w.data
    OBVIOUS
  <2>2. /\ w = [last_pos |-> 2 * j, data |-> d, room |-> TRUE]
        /\ d \in Seq(Nat) /\ Len(d) = Len(data) + 2 * j
        /\ \A i \in 1..Len(data) : d[i] = data[i]
        /\ \A i \in 1..(2 * j) : d[Len(data) + i] = Encoded(labels)[i]
    BY <1>5, <2>1, Zenon DEF MakeInv
  <2>3. w.last_pos = 2 * j /\ w.room = TRUE
    BY <2>2
  <2>4. name[2 * j + 1] = labels[j + 1] /\ labels[j + 1] # DOT /\ labels[j + 1] \in Nat
    <3>1. (2 * j + 1) \in 1..(2 * k - 1) /\ (2 * j + 1) % 2 # 0
          /\ ((2 * j + 1) + 1) \div 2 = j + 1 /\ j + 1 \in 1..k
      BY <1>1
    <3>2. name[2 * j + 1] = labels[((2 * j + 1) + 1) \div 2]
      BY <1>3, <3>1, Zenon
    <3> QED BY <1>2, <3>1, <3>2, Zenon
  <2>5. PICK pos : pos = mdns_string_find(name, 2 * j)
    OBVIOUS
  <2>6. (IF pos = MDNS_INVALID_POS THEN Len(name) ELSE pos) = 2 * j + 1
    <3>0. \A i \in Nat : 2 * j <= i /\ i < 2 * j + 1 => name[i + 1] # DOT
      <4>1. \A i \in Nat : 2 * j <= i /\ i < 2 * j + 1 => i + 1 = 2 * j + 1
        OBVIOUS
      <4> QED BY <2>4, <4>1
    <3>1. CASE j + 1 = k
      <4>0. Len(name) = 2 * k - 1
        BY <1>3
      <4>1. Len(name) = 2 * j + 1
        BY <1>1, <3>1, <4>0
      <4>2. pos = MDNS_INVALID_POS
        BY <1>3, <2>5, <3>0, <4>1, FindsNone
      <4> QED BY <4>1, <4>2, Zenon
    <3>2. CASE j + 1 < k
      <4>1. (2 * j + 1) + 1 \in 1..(2 * k - 1) /\ ((2 * j + 1) + 1) % 2 = 0
            /\ 2 * j + 1 < 2 * k - 1 /\ 2 * j <= 2 * j + 1 /\ 2 * j \in Nat /\ 2 * j + 1 \in Nat
        BY <1>1, <3>2
      <4>2. name[(2 * j + 1) + 1] = DOT
        BY <1>3, <4>1, Zenon
      <4>3. pos = 2 * j + 1
        BY <1>3, <2>5, <3>0, <4>1, <4>2, FindsDot
      <4> QED BY <4>1, <4>3 DEF MDNS_INVALID_POS
    <3> QED BY <1>1, <3>1, <3>2
  <2>7. make_label(capacity, name, w)
          = IF capacity - Len(d) <= 2 THEN [w EXCEPT !.room = FALSE]
            ELSE [w EXCEPT !.last_pos = 2 * j + 2,
                           !.data = d \o <<1>> \o SubSeq(name, 2 * j + 1, 2 * j + 1)]
    <3>1. ~(w.last_pos >= Len(name)) /\ w.room /\ w.data = d
      BY <1>1, <1>3, <2>1, <2>3
    <3>2. (2 * j + 1) - w.last_pos = 1 /\ w.last_pos + 1 = 2 * j + 1
          /\ (2 * j + 1) + 1 = 2 * j + 2 /\ 1 + 1 = 2
      BY <2>3
    <3>3. pos = mdns_string_find(name, w.last_pos)
      BY <2>3, <2>5
    <3>4. PICK end : end = IF pos = MDNS_INVALID_POS THEN Len(name) ELSE pos
      OBVIOUS
    <3>5. end = 2 * j + 1
      BY <2>6, <3>4, Zenon
    <3>6. make_label(capacity, name, w)
            = IF capacity - Len(w.data) <= (end - w.last_pos) + 1 THEN [w EXCEPT !.room = FALSE]
              ELSE [w EXCEPT !.last_pos = end + 1,
                      !.data = w.data \o <<end - w.last_pos>> \o SubSeq(name, w.last_pos + 1, end)]
      BY <3>1, <3>3, <3>4, Zenon DEF make_label
    <3>7. end - w.last_pos = 1 /\ w.last_pos + 1 = 2 * j + 1 /\ end + 1 = 2 * j + 2
      BY <3>2, <3>5, Zenon
    <3>8. (end - w.last_pos) + 1 = 2
      BY <3>2, <3>7, Zenon
    <3> QED BY <3>1, <3>5, <3>6, <3>7, <3>8, Zenon
  <2>8. Len(data) \in Nat /\ Len(d) \in Nat /\ capacity \in Nat
    BY <2>2
  <2>9. CASE capacity - Len(d) <= 2
    <3>1. make_label(capacity, name, w).room = FALSE
      <4>1. make_label(capacity, name, w) = [w EXCEPT !.room = FALSE]
        BY <2>7, <2>9, Zenon
      <4>2. make_label(capacity, name, w) = [last_pos |-> 2 * j, data |-> d, room |-> FALSE]
        BY <2>2, <4>1
      <4> QED BY <4>2
    <3>2. capacity <= Len(data) + 2 * Len(labels)
      BY <1>1, <2>2, <2>8, <2>9
    <3> QED BY <3>1, <3>2, Zenon DEF MakeInv
  <2>10. CASE ~(capacity - Len(d) <= 2)
    <3>1. SubSeq(name, 2 * j + 1, 2 * j + 1) = <<labels[j + 1]>>
      <4>1. 2 * j + 1 \in 1..Len(name)
        BY <1>1, <1>3
      <4> QED BY <1>3, <2>4, <4>1, OneOctet
    <3>2. PICK c \in Nat : c = labels[j + 1]
      BY <2>4
    <3>3. PICK e : e = d \o <<1>> \o <<c>>
      OBVIOUS
    <3>4. /\ e \in Seq(Nat) /\ Len(e) = Len(d) + 2
          /\ (\A i \in 1..Len(d) : e[i] = d[i]) /\ e[Len(d) + 1] = 1 /\ e[Len(d) + 2] = c
      <4>1. PICK g : g = d \o <<1>>
        OBVIOUS
      <4>2. /\ g \in Seq(Nat) /\ Len(g) = Len(d) + 1
            /\ (\A i \in 1..Len(d) : g[i] = d[i]) /\ g[Len(d) + 1] = 1
        <5>1. d \in Seq(Nat) /\ 1 \in Nat
          BY <2>2
        <5> QED BY <4>1, <5>1, OneMore, Zenon
      <4>3. /\ e \in Seq(Nat) /\ Len(e) = Len(g) + 1
            /\ (\A i \in 1..Len(g) : e[i] = g[i]) /\ e[Len(g) + 1] = c
        BY <3>3, <4>1, <4>2, OneMore
      <4>4. /\ (Len(d) + 1) + 1 = Len(d) + 2 /\ Len(d) + 1 \in 1..Len(g)
            /\ \A i \in 1..Len(d) : i \in 1..Len(g)
        BY <2>2, <4>2
      <4> QED BY <4>2, <4>3, <4>4, Zenon
    <3>5. make_label(capacity, name, w) = [last_pos |-> 2 * j + 2, data |-> e, room |-> TRUE]
      <4>1. make_label(capacity, name, w) = [w EXCEPT !.last_pos = 2 * j + 2, !.data = e]
        BY <2>7, <2>10, <3>1, <3>2, <3>3, Zenon
      <4> QED BY <2>2, <4>1
    <3>6. PICK n : n = [last_pos |-> 2 * j + 2, data |-> e, room |-> TRUE]
      OBVIOUS
    <3>7. n = [last_pos |-> 2 * (j + 1), data |-> n.data, room |-> TRUE] /\ n.data = e /\ n.room = TRUE
      <4>1. 2 * (j + 1) = 2 * j + 2
        OBVIOUS
      <4> QED BY <3>6, <4>1
    <3>8. PICK t \in Nat : t = Len(data)
      OBVIOUS
    <3>9. Len(e) = t + 2 * (j + 1) /\ t + 2 * (j + 1) < capacity
      BY <2>2, <2>8, <2>10, <3>4, <3>8
    <3>10. ASSUME NEW i \in 1..t PROVE e[i] = data[i]
      <4>1. i \in 1..Len(d) /\ i \in 1..Len(data)
        BY <2>2, <2>8, <3>8
      <4> QED BY <2>2, <3>4, <4>1, Zenon
    <3>11. ASSUME NEW i \in 1..(2 * (j + 1)) PROVE e[t + i] = Encoded(labels)[i]
      <4>1. Encoded(labels)[i] = IF i % 2 = 1 THEN 1 ELSE labels[i \div 2]
        <5>1. i \in 1..(2 * Len(labels))
          BY <1>1
        <5> QED BY <1>2, <5>1, EncodedLen
      <4>2. CASE i <= 2 * j
        <5>1. t + i \in 1..Len(d) /\ i \in 1..(2 * j)
          BY <2>2, <3>8, <4>2
        <5> QED BY <2>2, <3>4, <3>8, <5>1, Zenon
      <4>3. CASE i = 2 * j + 1
        <5>1. i % 2 = 1 /\ t + i = Len(d) + 1
          BY <2>2, <3>8, <4>3
        <5> QED BY <3>4, <4>1, <5>1, Zenon
      <4>4. CASE i = 2 * j + 2
        <5>1. i % 2 # 1 /\ i \div 2 = j + 1 /\ t + i = Len(d) + 2
          BY <2>2, <3>8, <4>4
        <5> QED BY <3>2, <3>4, <4>1, <5>1, Zenon
      <4>5. i <= 2 * j \/ i = 2 * j + 1 \/ i = 2 * j + 2
        OBVIOUS
      <4> QED BY <4>2, <4>3, <4>4, <4>5
    <3>12. MakeInv(data, capacity, labels, j + 1, n)
      BY <3>4, <3>7, <3>8, <3>9, <3>10, <3>11, Zenon DEF MakeInv
    <3> QED BY <3>5, <3>6, <3>12, Zenon
  <2> QED BY <2>9, <2>10
<1> QED BY <1>4, <1>5

(* Once all labels are written, the loop has ended.                        *)
LEMMA MakeDone ==
  ASSUME NEW data \in Seq(Nat), NEW capacity \in Nat, NEW labels \in LabelSeqs,
         NEW name, Plain(labels, name),
         NEW w, MakeInv(data, capacity, labels, Len(labels), w)
  PROVE  make_label(capacity, name, w) = w
<1>1. CASE w.room = FALSE
  BY <1>1 DEF make_label
<1>2. CASE w.room # FALSE
  <2>1. w = [last_pos |-> 2 * Len(labels), data |-> w.data, room |-> TRUE]
    BY <1>2, Zenon DEF MakeInv
  <2>2. w.last_pos = 2 * Len(labels)
    BY <2>1
  <2>3. Len(labels) \in Nat /\ Len(name) = 2 * Len(labels) - 1
    BY DEF LabelSeqs, Plain
  <2>4. w.last_pos >= Len(name)
    BY <2>2, <2>3
  <2> QED BY <2>4, Zenon DEF make_label
<1> QED BY <1>1, <1>2

(* mdns_string_make writes a name as the standard spells it, whatever the  *)
(* number of its labels, behind whatever is in the buffer; or nothing, if  *)
(* there is no room.                                                       *)
LEMMA MakesName ==
  ASSUME NEW data \in Seq(Nat), NEW capacity \in Nat, NEW labels \in LabelSeqs,
         NEW text, text = Text(labels),
         NEW name \in {text, SubSeq(text, 1, Len(text) - 1)}
  PROVE  mdns_string_make(data, capacity, name)
           = IF Len(data \o Encoded(labels)) <= capacity THEN data \o Encoded(labels) ELSE <<>>
<1>1. PICK s : s = without_dot(name)
  OBVIOUS
<1>2. Plain(labels, s)
  BY <1>1, WithoutDot
<1>3. PICK k \in Nat : k = Len(labels) /\ 1 <= k
  BY DEF LabelSeqs
<1>4. s \in Seq(Nat) /\ Len(s) = 2 * k - 1 /\ labels \in Seq(Nat)
  BY <1>2, <1>3, Zenon DEF Plain, LabelSeqs
<1>5. PICK f : /\ f[0] = NoneMade(data)
               /\ \A n \in Nat : n + 1 <= Len(s) => f[n + 1] = make_label(capacity, s, f[n])
               /\ make_labels(data, capacity, s) = Made(capacity, f[Len(s)])
  <2>1. \E f : MakeRun(data, capacity, s, f)
    BY <1>4, MakeEquations
  <2> QED BY <2>1, Zenon DEF MakeRun
<1> DEFINE J(n) == IF n < k THEN n ELSE k
           S == {n \in Nat : n <= Len(s) => MakeInv(data, capacity, labels, J(n), f[n])}
<1>6. 0 \in S
  <2>1. J(0) = 0
    BY <1>3
  <2>2. PICK w : w = f[0]
    OBVIOUS
  <2>3. w = [last_pos |-> 2 * 0, data |-> w.data, room |-> TRUE] /\ w.data = data /\ w.room = TRUE
    BY <1>5, <2>2 DEF NoneMade
  <2>4. MakeInv(data, capacity, labels, 0, w)
    BY <2>3 DEF MakeInv
  <2> QED BY <2>1, <2>2, <2>4
<1>7. ASSUME NEW n \in Nat, n \in S PROVE n + 1 \in S
  <2> SUFFICES ASSUME n + 1 <= Len(s)
               PROVE  MakeInv(data, capacity, labels, J(n + 1), f[n + 1])
    OBVIOUS
  <2>1. n <= Len(s)
    BY <1>4
  <2>2. MakeInv(data, capacity, labels, J(n), f[n]) /\ f[n + 1] = make_label(capacity, s, f[n])
    BY <1>5, <1>7, <2>1
  <2>3. CASE n < k
    <3>1. J(n) = n /\ J(n + 1) = n + 1
      BY <1>3, <2>3
    <3> QED BY <1>2, <1>3, <2>2, <2>3, <3>1, MakeStep
  <2>4. CASE ~(n < k)
    <3>1. J(n) = k /\ J(n + 1) = k
      BY <1>3, <2>4
    <3>2. make_label(capacity, s, f[n]) = f[n]
      BY <1>2, <1>3, <2>2, <3>1, MakeDone
    <3> QED BY <2>2, <3>1, <3>2
  <2> QED BY <2>3, <2>4
<1> HIDE DEF S
<1>8. \A n \in Nat : n \in S
  BY <1>6, <1>7, SetInduction
<1>9. PICK w : w = f[Len(s)]
  OBVIOUS
<1>10. MakeInv(data, capacity, labels, k, w)
  <2>1. Len(s) \in Nat /\ Len(s) <= Len(s) /\ J(Len(s)) = k
    BY <1>3, <1>4
  <2> QED BY <1>8, <1>9, <2>1 DEF S
<1>11. mdns_string_make(data, capacity, name) = Made(capacity, w)
  BY <1>1, <1>5, <1>9, Zenon DEF mdns_string_make
<1>12. PICK e : e = Encoded(labels)
  OBVIOUS
<1>13. e \in Seq(Nat) /\ Len(e) = 2 * k + 1 /\ e[2 * k + 1] = 0
  BY <1>3, <1>4, <1>12, EncodedLen
<1>14. PICK whole : whole = data \o e
  OBVIOUS
<1>15. /\ whole \in Seq(Nat) /\ Len(whole) = Len(data) + (2 * k + 1)
       /\ \A i \in 1..Len(data) : whole[i] = data[i]
       /\ \A i \in 1..(2 * k + 1) : whole[Len(data) + i] = e[i]
  <2>1. /\ whole \in Seq(Nat) /\ Len(whole) = Len(data) + Len(e)
        /\ \A i \in 1..Len(data) : whole[i] = data[i]
        /\ \A i \in 1..Len(e) : whole[Len(data) + i] = e[i]
    BY <1>13, <1>14, ConcatLen, Zenon
  <2>2. Len(e) = 2 * k + 1
    BY <1>13
  <2> QED BY <2>1, <2>2, Zenon
<1>16. Len(data) \in Nat
  OBVIOUS
<1>17. CASE w.room = FALSE
  <2>1. capacity <= Len(data) + 2 * k
    BY <1>3, <1>10, <1>17, Zenon DEF MakeInv
  <2>2. ~(Len(whole) <= capacity)
    BY <1>15, <1>16, <2>1
  <2>3. Made(capacity, w) = <<>>
    BY <1>17, Zenon DEF Made
  <2> QED BY <1>11, <1>12, <1>14, <2>2, <2>3, Zenon
<1>18. CASE w.room # FALSE
  <2>1. PICK d : d = w.data
    OBVIOUS
  <2>2. /\ w = [last_pos |-> 2 * k, data |-> d, room |-> TRUE]
        /\ d \in Seq(Nat) /\ Len(d) = Len(data) + 2 * k
        /\ \A i \in 1..Len(data) : d[i] = data[i]
        /\ \A i \in 1..(2 * k) : d[Len(data) + i] = e[i]
        /\ k > 0 => Len(data) + 2 * k < capacity
    BY <1>10, <1>12, <1>18, <2>1, Zenon DEF MakeInv
  <2>3. Len(whole) <= capacity /\ capacity # Len(d) /\ w.room
    BY <1>3, <1>15, <1>16, <2>2
  <2>4. Made(capacity, w) = d \o <<0>>
    BY <2>1, <2>3, Zenon DEF Made
  <2>5. PICK z : z = d \o <<0>>
    OBVIOUS
  <2>6. z \in Seq(Nat) /\ Len(z) = Len(d) + 1 /\ (\A i \in 1..Len(d) : z[i] = d[i])
        /\ z[Len(d) + 1] = 0
    <3>1. d \in Seq(Nat) /\ 0 \in Nat
      BY <2>2
    <3> QED BY <2>5, <3>1, OneMore, Zenon
  <2>7. Len(z) = Len(whole)
    BY <1>15, <1>16, <2>2, <2>6
  <2>8. PICK t \in Nat : t = Len(data)
    OBVIOUS
  <2>9. ASSUME NEW i \in 1..Len(z) PROVE z[i] = whole[i]
    <3>1. CASE i <= t
      <4>1. i \in 1..Len(data) /\ i \in 1..Len(d)
        BY <2>2, <2>8, <3>1
      <4> QED BY <1>15, <2>2, <2>6, <4>1, Zenon
    <3>2. CASE t < i /\ i <= t + 2 * k
      <4>1. PICK h \in 1..(2 * k) : i = t + h
        <5>1. i - t \in 1..(2 * k) /\ i = t + (i - t)
          BY <3>2
        <5> QED BY <5>1, Zenon
      <4>2. i \in 1..Len(d) /\ h \in 1..(2 * k + 1)
        BY <2>2, <2>8, <3>2, <4>1
      <4> QED BY <1>15, <2>2, <2>6, <2>8, <4>1, <4>2, Zenon
    <3>3. CASE i = t + (2 * k + 1)
      <4>1. i = Len(d) + 1 /\ 2 * k + 1 \in 1..(2 * k + 1)
        BY <2>2, <2>8, <3>3
      <4>2. whole[t + (2 * k + 1)] = e[2 * k + 1]
        BY <1>15, <2>8, <4>1, Zenon
      <4> QED BY <1>13, <2>6, <3>3, <4>1, <4>2, Zenon
    <3>4. i <= t \/ (t < i /\ i <= t + 2 * k) \/ i = t + (2 * k + 1)
      <4>1. Len(z) = t + 2 * k + 1
        BY <2>2, <2>6, <2>8
      <4> QED BY <4>1
    <3> QED BY <3>1, <3>2, <3>3, <3>4
  <2>10. z = whole
    BY <1>15, <2>6, <2>7, <2>9, SameOctets
  <2> QED BY <1>11, <1>12, <1>14, <2>3, <2>4, <2>5, <2>10, Zenon
<1> QED BY <1>17, <1>18

-----------------------------------------------------------------------------
(* A packet has no question, or one.                                       *)
IsQuestions(b, offset, k, f) ==
  f = [n \in 0..k |-> IF n = 0 THEN offset ELSE skip_question(b, f[n - 1])]

(* Nothing is skipped when there is no question.                           *)
LEMMA NoQuestion ==
  ASSUME NEW b, NEW offset
  PROVE  skip_questions(b, offset, 0) = offset
<1>1. IsQuestions(b, offset, 0, [n \in 0..0 |-> offset])
  BY DEF IsQuestions
<1>2. PICK f : f = CHOOSE g : IsQuestions(b, offset, 0, g)
  OBVIOUS
<1>3. IsQuestions(b, offset, 0, f)
  BY <1>1, <1>2, Zenon
<1>4. skip_questions(b, offset, 0) = f[0]
  BY <1>2 DEF skip_questions, IsQuestions
<1> QED BY <1>3, <1>4 DEF IsQuestions

(* One question is skipped by one pass.                                    *)
LEMMA OneQuestion ==
  ASSUME NEW b, NEW offset
  PROVE  skip_questions(b, offset, 1) = skip_question(b, offset)
<1>1. PICK g : g = [n \in 0..1 |-> IF n = 0 THEN offset ELSE skip_question(b, offset)]
  OBVIOUS
<1>2. IsQuestions(b, offset, 1, g)
  <2>1. \A n \in 0..1 : n = 0 \/ n - 1 = 0
    OBVIOUS
  <2>2. g[0] = offset
    BY <1>1
  <2>3. g = [n \in 0..1 |-> IF n = 0 THEN offset ELSE skip_question(b, g[n - 1])]
    BY <1>1, <2>1, <2>2
  <2> QED BY <2>3 DEF IsQuestions
<1>3. PICK f : f = CHOOSE k : IsQuestions(b, offset, 1, k)
  OBVIOUS
<1>4. IsQuestions(b, offset, 1, f)
  BY <1>2, <1>3, Zenon
<1>5. skip_questions(b, offset, 1) = f[1]
  BY <1>3 DEF skip_questions, IsQuestions
<1>6. f[0] = offset /\ f[1] = skip_question(b, f[1 - 1]) /\ 1 - 1 = 0
  BY <1>4 DEF IsQuestions
<1> QED BY <1>5, <1>6

-----------------------------------------------------------------------------
(* The names that the check tries are written right.                       *)
LEMMA MakesAll == MakesNames
<1>1. ASSUME NEW n \in 1..3, NEW labels \in [1..n -> {G, L}], NEW used \in 0..2,
             NEW capacity \in 2..10, NEW name,
             name \in {Text(labels), SubSeq(Text(labels), 1, Len(Text(labels)) - 1)}
      PROVE  mdns_string_make(Zeros(used), capacity, name)
               = IF Len(Zeros(used) \o Encoded(labels)) <= capacity
                 THEN Zeros(used) \o Encoded(labels) ELSE <<>>
  <2>1. labels \in LabelSeqs
    <3>1. n \in Nat /\ 1 <= n
      OBVIOUS
    <3>2. \A i \in 1..n : labels[i] \in Nat /\ labels[i] # DOT
      BY DEF G, L, DOT
    <3>3. labels \in Seq(Nat) /\ Len(labels) = n
      BY <3>1, <3>2
    <3> QED BY <3>1, <3>2, <3>3 DEF LabelSeqs
  <2>2. Zeros(used) \in Seq(Nat) /\ capacity \in Nat
    BY ZerosLen
  <2> QED BY <1>1, <2>1, <2>2, MakesName, Zenon
<1> QED BY <1>1, Zenon DEF MakesNames

(* The query is the text of the service without its last dot.              *)
LEMMA ServiceName ==
  /\ Service \in LabelSeqs /\ Service \in Names /\ Len(Service) = 2
  /\ query = SubSeq(Text(Service), 1, Len(Text(Service)) - 1)
<1>1. Service \in Seq(Nat) /\ Len(Service) = 2 /\ Service[1] = G /\ Service[2] = L
  BY DEF Service, G, L
<1>2. \A i \in 1..2 : Service[i] # DOT
  BY <1>1 DEF G, L, DOT
<1>3. Service \in LabelSeqs
  <2>1. 1 <= Len(Service) /\ \A i \in 1..Len(Service) : Service[i] # DOT
    BY <1>1, <1>2
  <2> QED BY <1>1, <2>1 DEF LabelSeqs
<1>4. PICK t : t = Text(Service)
  OBVIOUS
<1>5. t \in Seq(Nat) /\ Len(t) = 4
      /\ \A i \in 1..4 : t[i] = IF i % 2 = 0 THEN DOT ELSE Service[(i + 1) \div 2]
  <2>1. /\ t \in Seq(Nat) /\ Len(t) = 2 * Len(Service)
        /\ \A i \in 1..(2 * Len(Service)) :
             t[i] = IF i % 2 = 0 THEN DOT ELSE Service[(i + 1) \div 2]
    BY <1>1, <1>4, TextLen, Zenon
  <2>2. 2 * Len(Service) = 4
    BY <1>1
  <2> QED BY <2>1, <2>2, Zenon
<1>6. t[1] = G /\ t[2] = DOT /\ t[3] = L
  <2>1. 1 \in 1..4 /\ 2 \in 1..4 /\ 3 \in 1..4 /\ 1 % 2 # 0 /\ 2 % 2 = 0 /\ 3 % 2 # 0
        /\ (1 + 1) \div 2 = 1 /\ (3 + 1) \div 2 = 2
    OBVIOUS
  <2>2. t[1] = Service[(1 + 1) \div 2]
    BY <1>5, <2>1, Zenon
  <2>3. t[2] = DOT
    BY <1>5, <2>1, Zenon
  <2>4. t[3] = Service[(3 + 1) \div 2]
    BY <1>5, <2>1, Zenon
  <2> QED BY <1>1, <2>1, <2>2, <2>3, <2>4, Zenon
<1>7. PICK s : s = SubSeq(t, 1, 3)
  OBVIOUS
<1>8. s \in Seq(Nat) /\ Len(s) = 3 /\ s[1] = G /\ s[2] = DOT /\ s[3] = L
  <2>1. t \in Seq(Nat) /\ Len(t) = 4
    BY <1>5
  <2>2. s \in Seq(Nat) /\ Len(s) = 3 /\ s[1] = t[1] /\ s[2] = t[2] /\ s[3] = t[3]
    BY <1>7, <2>1
  <2> QED BY <1>6, <2>2, Zenon
<1>9. query = s
  <2>1. query \in Seq(Nat) /\ Len(query) = 3 /\ query[1] = G /\ query[2] = DOT /\ query[3] = L
    BY DEF query, G, L, DOT
  <2>2. \A i \in 1..3 : i = 1 \/ i = 2 \/ i = 3
    OBVIOUS
  <2>3. \A i \in 1..Len(query) : query[i] = s[i]
    BY <1>8, <2>1, <2>2
  <2> QED BY <1>8, <2>1, <2>3, SameOctets
<1>10. Len(t) - 1 = 3
  BY <1>5
<1> QED BY <1>1, <1>3, <1>4, <1>7, <1>9, <1>10, NamesUsed, Zenon

(* The sizes of the request buffer and of namebuffer.                      *)
LEMMA RequestSizes ==
  /\ MDNS_REQUEST_BUFFER_SIZE \in Nat /\ MDNS_REQUEST_BUFFER_SIZE >= 21
  /\ MDNS_PTR_NAME_SIZE \in Nat /\ MDNS_PTR_NAME_SIZE >= 5
<1>1. Len(query) = 3 /\ Len(expected) = 2
  BY DEF query, expected
<1>2. /\ MDNS_REQUEST_BUFFER_SIZE \in Nat
      /\ MDNS_REQUEST_BUFFER_SIZE >= HeaderSize + Len(query) + 2 + QuestionTail
      /\ MDNS_PTR_NAME_SIZE \in Nat
      /\ MDNS_PTR_NAME_SIZE >= Len(expected) + Len(query)
  BY MdnsAssumption, Zenon
<1> QED BY <1>1, <1>2 DEF HeaderSize, QuestionTail

(* The octets of the query.                                                *)
LEMMA QueryOctets ==
  /\ Query \in Seq(Nat) /\ Len(Query) = 21
  /\ Query[5] = 0 /\ Query[6] = 1
  /\ Stands(Query, 12, Encoded(Service))
<1>1. PICK z4, z6 : z4 = Zeros(4) /\ z6 = Zeros(6)
  OBVIOUS
<1>2. z4 \in Seq(Nat) /\ Len(z4) = 4 /\ z6 \in Seq(Nat) /\ Len(z6) = 6
  BY <1>1, ZerosLen
<1>3. PICK one : one = mdns_htons(1)
  OBVIOUS
<1>4. one \in Seq(Nat) /\ Len(one) = 2 /\ one[1] = 0 /\ one[2] = 1
  <2>1. 1 \div 256 = 0 /\ 1 % 256 = 1
    OBVIOUS
  <2>2. one = <<0, 1>>
    BY <1>3, <2>1, Zenon DEF mdns_htons
  <2> QED BY <2>2
<1>5. PICK ptr : ptr = mdns_htons(12)
  OBVIOUS
<1>6. ptr \in Seq(Nat) /\ Len(ptr) = 2
  <2>1. 12 \div 256 = 0 /\ 12 % 256 = 12
    OBVIOUS
  <2>2. ptr = <<0, 12>>
    BY <1>5, <2>1, Zenon DEF mdns_htons
  <2> QED BY <2>2
<1>7. PICK a : a = z4 \o one
  OBVIOUS
<1>8. a \in Seq(Nat) /\ Len(a) = 6 /\ a[5] = 0 /\ a[6] = 1
  <2>1. /\ a \in Seq(Nat) /\ Len(a) = Len(z4) + Len(one)
        /\ \A i \in 1..Len(one) : a[Len(z4) + i] = one[i]
    BY <1>2, <1>4, <1>7, ConcatLen, Zenon
  <2>2. \A i \in 1..2 : a[4 + i] = one[i]
    BY <1>2, <1>4, <2>1
  <2>3. a[4 + 1] = one[1] /\ a[4 + 2] = one[2]
    BY <2>2
  <2> QED BY <1>2, <1>4, <2>1, <2>3
<1>9. PICK h : h = a \o z6
  OBVIOUS
<1>10. h \in Seq(Nat) /\ Len(h) = 12 /\ h[5] = 0 /\ h[6] = 1
  <2>1. /\ h \in Seq(Nat) /\ Len(h) = Len(a) + Len(z6)
        /\ \A i \in 1..Len(a) : h[i] = a[i]
    BY <1>2, <1>8, <1>9, ConcatLen, Zenon
  <2>2. \A i \in 1..6 : h[i] = a[i]
    BY <1>8, <2>1
  <2> QED BY <1>2, <1>8, <2>1, <2>2
<1>11. PICK e : e = Encoded(Service)
  OBVIOUS
<1>12. e \in Seq(Nat) /\ Len(e) = 5
  <2>1. Service \in Seq(Nat) /\ Len(Service) = 2
    BY ServiceName DEF Names
  <2>2. e \in Seq(Nat) /\ Len(e) = 2 * Len(Service) + 1
    BY <1>11, <2>1, EncodedLen, Zenon
  <2> QED BY <2>1, <2>2
<1>13. PICK d : d = h \o e
  OBVIOUS
<1>14. /\ d \in Seq(Nat) /\ Len(d) = 17 /\ d[5] = 0 /\ d[6] = 1
       /\ \A i \in 1..5 : d[12 + i] = e[i]
  <2>1. /\ d \in Seq(Nat) /\ Len(d) = Len(h) + Len(e)
        /\ \A i \in 1..Len(h) : d[i] = h[i]
        /\ \A i \in 1..Len(e) : d[Len(h) + i] = e[i]
    BY <1>10, <1>12, <1>13, ConcatLen, Zenon
  <2>2. \A i \in 1..12 : d[i] = h[i]
    BY <1>10, <2>1
  <2>3. \A i \in 1..5 : d[12 + i] = e[i]
    BY <1>10, <1>12, <2>1
  <2> QED BY <1>10, <1>12, <2>1, <2>2, <2>3
<1>15. mdns_string_make(h, MDNS_REQUEST_BUFFER_SIZE, query) = d
  <2>1. Len(d) <= MDNS_REQUEST_BUFFER_SIZE
    BY <1>14, RequestSizes
  <2>2. PICK t : t = Text(Service)
    OBVIOUS
  <2>3. query \in {t, SubSeq(t, 1, Len(t) - 1)}
    BY <2>2, ServiceName, Zenon
  <2>4. MDNS_REQUEST_BUFFER_SIZE \in Nat /\ Service \in LabelSeqs
    BY RequestSizes, ServiceName, Zenon
  <2>5. mdns_string_make(h, MDNS_REQUEST_BUFFER_SIZE, query)
          = IF Len(h \o Encoded(Service)) <= MDNS_REQUEST_BUFFER_SIZE
            THEN h \o Encoded(Service) ELSE <<>>
    BY <1>10, <2>2, <2>3, <2>4, MakesName, Zenon
  <2> QED BY <1>11, <1>13, <2>1, <2>5, Zenon
<1>16. PICK f : f = d \o ptr
  OBVIOUS
<1>17. /\ f \in Seq(Nat) /\ Len(f) = 19 /\ \A i \in 1..17 : f[i] = d[i]
  <2>1. /\ f \in Seq(Nat) /\ Len(f) = Len(d) + Len(ptr)
        /\ \A i \in 1..Len(d) : f[i] = d[i]
    BY <1>6, <1>14, <1>16, ConcatLen, Zenon
  <2> QED BY <1>6, <1>14, <2>1
<1>18. PICK q : q = f \o one
  OBVIOUS
<1>19. /\ q \in Seq(Nat) /\ Len(q) = 21 /\ \A i \in 1..19 : q[i] = f[i]
  <2>1. /\ q \in Seq(Nat) /\ Len(q) = Len(f) + Len(one)
        /\ \A i \in 1..Len(f) : q[i] = f[i]
    BY <1>4, <1>17, <1>18, ConcatLen, Zenon
  <2> QED BY <1>4, <1>17, <2>1
<1>20. Query = q
  <2>1. h = Zeros(4) \o mdns_htons(1) \o Zeros(6)
    BY <1>1, <1>3, <1>7, <1>9, Zenon
  <2>2. d # <<>>
    <3>1. Len(d) = 17 /\ Len(<<>>) = 0 /\ 17 # 0
      BY <1>14
    <3> QED BY <3>1, Zenon
  <2> QED BY <1>3, <1>5, <1>15, <1>16, <1>18, <2>1, <2>2, Zenon DEF Query, mdns_multiquery_send
<1>21. \A i \in 1..17 : q[i] = d[i]
  BY <1>17, <1>19
<1>22. \A i \in 1..5 : q[12 + i] = e[i]
  BY <1>14, <1>21
<1>23. q[5] = 0 /\ q[6] = 1
  BY <1>14, <1>21
<1>24. Stands(q, 12, e)
  BY <1>12, <1>19, <1>22 DEF Stands
<1> QED BY <1>11, <1>19, <1>20, <1>23, <1>24, Zenon

(* What QueryAsks says of the query.                                       *)
LEMMA QueryReads ==
  /\ Len(Query) <= MDNS_REQUEST_BUFFER_SIZE
  /\ skip_questions(Query, HeaderSize, mdns_ntohs(Query, 4)) = Len(Query)
  /\ mdns_string_extract(Query, Len(Query), HeaderSize, MDNS_PTR_NAME_SIZE)
       = UpTo(Text(Service), MDNS_PTR_NAME_SIZE)
<1>1. PICK q : q = Query
  OBVIOUS
<1>2. q \in Seq(Nat) /\ Len(q) = 21 /\ q[5] = 0 /\ q[6] = 1 /\ Stands(q, 12, Encoded(Service))
  BY <1>1, QueryOctets, Zenon
<1>3. Service \in Seq(Nat) /\ Service \in Names /\ Len(Service) = 2
  BY ServiceName DEF Names
<1>4. Reads(q, 12, 17, Service)
  <2>1. Reads(q, 12, 12 + 2 * Len(Service) + 1, Service)
    BY <1>2, <1>3, EncodedReads
  <2>2. 12 + 2 * Len(Service) + 1 = 17
    BY <1>3
  <2> QED BY <2>1, <2>2, Zenon
<1>5. mdns_string_skip(q, Len(q), 12) = 17
  BY <1>3, <1>4, ReadName, Zenon
<1>6. mdns_string_extract(q, Len(q), 12, MDNS_PTR_NAME_SIZE) = UpTo(Text(Service), MDNS_PTR_NAME_SIZE)
  BY <1>3, <1>4, ReadName, Zenon
<1>7. mdns_ntohs(q, 4) = 1
  BY <1>2 DEF mdns_ntohs, Octet
<1>8. skip_question(q, 12) = 21
  BY <1>5 DEF skip_question, MDNS_INVALID_POS, QuestionTail
<1>9. skip_questions(q, 12, mdns_ntohs(q, 4)) = 21
  BY <1>7, <1>8, OneQuestion, Zenon
<1>10. HeaderSize = 12
  BY DEF HeaderSize
<1>11. Len(q) <= MDNS_REQUEST_BUFFER_SIZE
  BY <1>2, RequestSizes
<1> QED BY <1>1, <1>2, <1>6, <1>9, <1>10, <1>11, Zenon

(* What was asked is the query.                                            *)
Asked == asked \in {<<>>, Query}

(* No query has been sent at first.                                        *)
LEMMA AskedInit == Init => Asked
  BY DEF Init, Asked

(* Only mdns_multicast_send changes the query, to the one that was built.  *)
LEMMA AskedNext == Asked /\ [Next]_vars => Asked'
<1> SUFFICES ASSUME Asked, [Next]_vars PROVE Asked'
  OBVIOUS
<1>1. Query' = Query
  BY Zenon
<1>2. CASE UNCHANGED vars
  BY <1>2 DEF vars, Asked
<1>3. CASE Control
  BY <1>3 DEF Control, tcp_discovery_start, tcp_discovery_stop, node_socket_open,
              node_socket_close, Asked
<1>4. CASE Discovery
  BY <1>4 DEF Discovery, handler, mdns_query_send, mdns_multicast_send, mdns_send_fails,
              mdns_query_recv, poll_event, poll_ends, mdns_query_recv_internal,
              recvfrom_fails, node_filter, Asked
<1>5. CASE \E h \in Hosts, m \in Messages : group_send(h, m)
  BY <1>5 DEF group_send, Asked
<1> QED BY <1>2, <1>3, <1>4, <1>5 DEF Next

(* A query that was built asks for the service.                            *)
LEMMA AskedImplies == Asked => QueryAsks
  BY MakesAll, QueryReads, Zenon DEF Asked, QueryAsks

(* Whenever the query is sent, it asks for the service, and every name is  *)
(* written as the standard spells it (mdns_string_make and                 *)
(* mdns_multiquery_send).                                                  *)
THEOREM QueryCorrect == Spec => []QueryAsks
  BY AskedInit, AskedNext, AskedImplies, PTL DEF Spec

-----------------------------------------------------------------------------
(* The fields of a label.                                                  *)
LEMMA LabelParts ==
  ASSUME NEW offset, NEW length, NEW ref
  PROVE  /\ Label(offset, length, ref).offset = offset
         /\ Label(offset, length, ref).length = length
         /\ Label(offset, length, ref).ref = ref
  BY DEF Label

(* Skipping a name never goes backwards, whatever stands there.            *)
LEMMA NextLabel ==
  ASSUME NEW b \in Seq(Nat), NEW o \in Nat, NEW s,
         s = mdns_get_next_substring(b, Len(b), o), s.offset # MDNS_INVALID_POS, ~s.ref
  PROVE  s.offset \in Nat /\ s.length \in Nat /\ o <= s.offset
<1>1. Len(b) \in Nat
  OBVIOUS
<1>2. ~(o >= Len(b))
  BY DEF mdns_get_next_substring, NoLabel, Label
<1>3. Octet(b, o) \in Nat
  BY <1>1, <1>2 DEF Octet
<1>4. CASE Octet(b, o) = 0
  <2>1. s = Label(o, 0, FALSE)
    BY <1>2, <1>4, Zenon DEF mdns_get_next_substring
  <2> QED BY <2>1 DEF Label
<1>5. CASE Octet(b, o) # 0 /\ ~mdns_is_string_ref(Octet(b, o))
  <2>1. follow_refs(b, Len(b), o) = o
    BY <1>5, NoRef
  <2>2. s = NoLabel \/ s = Label(o + 1, Octet(b, o), mdns_is_string_ref(Octet(b, o)))
    BY <1>2, <1>5, <2>1, Zenon DEF mdns_get_next_substring
  <2>3. s # NoLabel
    BY DEF NoLabel, Label
  <2>4. s.offset = o + 1 /\ s.length = Octet(b, o)
    <3>1. PICK at, c, ref : at = o + 1 /\ c = Octet(b, o)
                             /\ ref = mdns_is_string_ref(Octet(b, o))
      OBVIOUS
    <3>2. s = Label(at, c, ref)
      BY <2>2, <2>3, <3>1, Zenon
    <3> QED BY <3>1, <3>2, LabelParts
  <2> QED BY <1>3, <2>4
<1>6. CASE Octet(b, o) # 0 /\ mdns_is_string_ref(Octet(b, o))
  <2>1. PICK t : t = follow_refs(b, Len(b), o)
    OBVIOUS
  <2>2. s = NoLabel \/ s = Label(t + 1, Octet(b, t), mdns_is_string_ref(Octet(b, o)))
    BY <1>2, <1>6, <2>1, Zenon DEF mdns_get_next_substring
  <2>3. s # NoLabel
    BY DEF NoLabel, Label
  <2>4. s.ref = mdns_is_string_ref(Octet(b, o))
    <3>1. PICK at, c, ref : at = t + 1 /\ c = Octet(b, t)
                             /\ ref = mdns_is_string_ref(Octet(b, o))
      OBVIOUS
    <3>2. s = Label(at, c, ref)
      BY <2>2, <2>3, <3>1, Zenon
    <3>3. s.ref = ref
      BY <3>2, LabelParts
    <3> QED BY <3>1, <3>3, Zenon
  <2> QED BY <1>6, <2>4, Zenon
<1> QED BY <1>4, <1>5, <1>6

(* mdns_string_skip fails or moves forward, in any buffer.                 *)
LEMMA SkipForward ==
  ASSUME NEW b \in Seq(Nat), NEW o \in Nat, NEW r, r = mdns_string_skip(b, Len(b), o)
  PROVE  r = MDNS_INVALID_POS \/ (r \in Nat /\ o <= r)
<1> DEFINE P(n, at) == \/ Skip(b)[n][at] = MDNS_INVALID_POS
                       \/ Skip(b)[n][at] \in Nat /\ at <= Skip(b)[n][at]
           S == {n \in Nat : n <= 65 => \A at \in Nat : P(n, at)}
<1>1. 0 \in S
  <2>1. \A at \in Nat : Skip(b)[0][at] = MDNS_INVALID_POS
    BY SkipStart DEF Nowhere
  <2> QED BY <2>1
<1>2. ASSUME NEW n \in Nat, n \in S PROVE n + 1 \in S
  <2> SUFFICES ASSUME n + 1 <= 65, NEW at \in Nat PROVE P(n + 1, at)
    OBVIOUS
  <2>1. \A i \in Nat : P(n, i)
    BY <1>2
  <2>2. n + 1 \in 1..65 /\ (n + 1) - 1 = n
    OBVIOUS
  <2>3. PICK rest : rest = Skip(b)[n]
    OBVIOUS
  <2>4. Skip(b)[n + 1] = skip_label(b, Len(b), rest)
    <3>1. Skip(b)[n + 1] = skip_label(b, Len(b), Skip(b)[(n + 1) - 1])
      BY <2>2, SkipEquations, Zenon
    <3> QED BY <2>2, <2>3, <3>1, Zenon
  <2>5. \A i \in Nat : rest[i] = MDNS_INVALID_POS \/ (rest[i] \in Nat /\ i <= rest[i])
    BY <2>1, <2>3, Zenon
  <2>6. PICK s : s = mdns_get_next_substring(b, Len(b), at)
    OBVIOUS
  <2>7. Skip(b)[n + 1][at]
          = IF s.offset = MDNS_INVALID_POS THEN MDNS_INVALID_POS
            ELSE IF s.ref THEN at + 2
            ELSE IF s.length = 0 THEN s.offset + 1
            ELSE rest[s.offset + s.length]
    BY <2>4, <2>6, Zenon DEF skip_label
  <2>8. CASE s.offset = MDNS_INVALID_POS
    BY <2>7, <2>8, Zenon
  <2>9. CASE s.offset # MDNS_INVALID_POS /\ s.ref
    <3>1. Skip(b)[n + 1][at] = at + 2
      BY <2>7, <2>9, Zenon
    <3> QED BY <3>1
  <2>10. CASE s.offset # MDNS_INVALID_POS /\ ~s.ref
    <3>1. s.offset \in Nat /\ s.length \in Nat /\ at <= s.offset
      BY <2>6, <2>10, NextLabel
    <3>2. CASE s.length = 0
      <4>1. Skip(b)[n + 1][at] = s.offset + 1
        BY <2>7, <2>10, <3>2, Zenon
      <4> QED BY <3>1, <4>1
    <3>3. CASE s.length # 0
      <4>1. Skip(b)[n + 1][at] = rest[s.offset + s.length]
        BY <2>7, <2>10, <3>3, Zenon
      <4>2. PICK j \in Nat : j = s.offset + s.length /\ at <= j
        BY <3>1
      <4>3. rest[j] = MDNS_INVALID_POS \/ (rest[j] \in Nat /\ j <= rest[j])
        BY <2>5
      <4>4. Skip(b)[n + 1][at] = rest[j]
        BY <4>1, <4>2, Zenon
      <4> QED BY <4>2, <4>3, <4>4
    <3> QED BY <3>2, <3>3
  <2> QED BY <2>8, <2>9, <2>10
<1> HIDE DEF S
<1>3. \A n \in Nat : n \in S
  BY <1>1, <1>2, SetInduction
<1>4. \A at \in Nat : P(65, at)
  <2>1. 65 \in Nat /\ 65 <= 65
    OBVIOUS
  <2> QED BY <1>3, <2>1 DEF S
<1>5. r = Skip(b)[65][o]
  BY SkipEquations, Zenon
<1> QED BY <1>4, <1>5, Zenon

-----------------------------------------------------------------------------
(* The contents of namebuffer.                                             *)
NameSize == MDNS_PTR_NAME_SIZE

(* What namebuffer holds passes the two comparisons.                       *)
IsZephyr(t) == is_expected([null |-> FALSE, text |-> t])

(* The text of an instance: its letter comes first.                        *)
LEMMA InstanceText ==
  ASSUME NEW k \in {"ptr", "other"}
  PROVE  /\ Text(Instance(k)) \in Seq(Nat) /\ Len(Text(Instance(k))) = 6
         /\ Text(Instance(k))[1] = IF k = "ptr" THEN Z ELSE X
         /\ Instance(k) \in Names
<1>1. PICK c \in Nat : c = IF k = "ptr" THEN Z ELSE X
  BY DEF Z, X
<1>2. PICK s : s = Instance(k)
  OBVIOUS
<1>3. s = <<c>> \o Service
  BY <1>1, <1>2, Zenon DEF Instance
<1>4. Service \in Seq(Nat) /\ Len(Service) = 2
  BY ServiceName DEF Names
<1>5. s \in Seq(Nat) /\ Len(s) = 3
  <2>1. PICK a : a = <<c>>
    OBVIOUS
  <2>2. a \in Seq(Nat) /\ Len(a) = 1
    BY <2>1
  <2>3. s \in Seq(Nat) /\ Len(s) = Len(a) + Len(Service)
    BY <1>3, <1>4, <2>1, <2>2, ConcatLen, Zenon
  <2> QED BY <1>4, <2>2, <2>3
<1>6. PICK t : t = Text(Service)
  OBVIOUS
<1>7. t \in Seq(Nat)
  BY <1>4, <1>6, TextLen
<1>8. Text(s) = <<c>> \o <<DOT>> \o t
  BY <1>3, <1>4, <1>6, TextCons, Zenon
<1>9. Text(s)[1] = c
  <2>1. PICK u : u = <<c>> \o <<DOT>> \o t
    OBVIOUS
  <2>2. u[1] = c
    BY <1>7, <2>1 DEF DOT
  <2> QED BY <1>8, <2>1, <2>2, Zenon
<1>10. Text(s) \in Seq(Nat) /\ Len(Text(s)) = 6
  <2>1. Text(s) \in Seq(Nat) /\ Len(Text(s)) = 2 * Len(s)
    BY <1>5, TextLen
  <2> QED BY <1>5, <2>1
<1>11. s \in Names
  BY <1>2, NamesUsed DEF Kinds
<1> QED BY <1>1, <1>2, <1>9, <1>10, <1>11, Zenon

(* A buffer of the right size, with zeros where no name reaches.           *)
Padded(t) ==
  /\ t \in Seq(Nat) /\ Len(t) = NameSize
  /\ \A i \in 1..NameSize : i > 6 => t[i] = 0

(* What namebuffer holds after the name of an instance was copied to it.   *)
Filled(k) == UpTo(Text(Instance(k)) \o Garbage, NameSize)

(* namebuffer has room for the name that is searched.                      *)
LEMMA NameSizeNat == NameSize \in Nat /\ 5 <= NameSize
  BY RequestSizes DEF NameSize

(* The octets of namebuffer when nothing was copied to it.                 *)
LEMMA GarbageOctets ==
  Garbage \in Seq(Nat) /\ Len(Garbage) = NameSize /\ \A i \in 1..NameSize : Garbage[i] = 0
<1>1. PICK c \in Nat : c = NameSize
  BY NameSizeNat
<1>2. Garbage = [i \in 1..c |-> 0]
  BY <1>1, Zenon DEF Garbage, NameSize, Zeros
<1>3. Garbage \in Seq(Nat) /\ Len(Garbage) = c /\ \A i \in 1..c : Garbage[i] = 0
  BY <1>2
<1> QED BY <1>1, <1>3, Zenon

(* The octets of namebuffer when an instance was copied to it.             *)
LEMMA FilledOctets ==
  ASSUME NEW k \in {"ptr", "other"}
  PROVE  /\ Filled(k) \in Seq(Nat) /\ Len(Filled(k)) = NameSize
         /\ \A i \in 1..NameSize :
              Filled(k)[i] = IF i <= 6 THEN Text(Instance(k))[i] ELSE 0
<1>1. PICK c \in Nat : c = NameSize
  BY NameSizeNat
<1>2. PICK t : t = Text(Instance(k))
  OBVIOUS
<1>3. t \in Seq(Nat) /\ Len(t) = 6
  BY <1>2, InstanceText
<1>4. PICK g : g = Garbage
  OBVIOUS
<1>5. g \in Seq(Nat) /\ Len(g) = c /\ \A i \in 1..c : g[i] = 0
  BY <1>1, <1>4, GarbageOctets, Zenon
<1>6. PICK a : a = t \o g
  OBVIOUS
<1>7. /\ a \in Seq(Nat) /\ Len(a) = Len(t) + Len(g)
      /\ \A i \in 1..Len(t) : a[i] = t[i]
      /\ \A i \in 1..Len(g) : a[Len(t) + i] = g[i]
  BY <1>3, <1>5, <1>6, ConcatLen, Zenon
<1>8. /\ Len(a) = 6 + c /\ (\A i \in 1..6 : a[i] = t[i])
      /\ \A i \in 1..c : a[6 + i] = 0
  BY <1>3, <1>5, <1>7
<1>9. PICK f : f = UpTo(a, c)
  OBVIOUS
<1>10. f \in Seq(Nat) /\ Len(f) = c /\ \A i \in 1..c : f[i] = a[i]
  <2>1. /\ f \in Seq(Nat) /\ Len(f) = IF Len(a) < c THEN Len(a) ELSE c
        /\ \A i \in 1..Len(f) : f[i] = a[i]
    BY <1>7, <1>9, UpToPrefix, Zenon
  <2>2. ~(Len(a) < c)
    BY <1>8
  <2>3. Len(f) = c
    BY <2>1, <2>2
  <2> QED BY <2>1, <2>3, Zenon
<1>11. ASSUME NEW i \in 1..c PROVE f[i] = IF i <= 6 THEN t[i] ELSE 0
  <2>1. CASE i <= 6
    BY <1>8, <1>10, <2>1
  <2>2. CASE i > 6
    <3>1. i - 6 \in 1..c /\ 6 + (i - 6) = i
      BY <2>2
    <3>2. a[6 + (i - 6)] = 0
      BY <1>8, <3>1, Zenon
    <3> QED BY <1>10, <2>2, <3>1, <3>2
  <2> QED BY <2>1, <2>2
<1>12. Filled(k) = f
  BY <1>1, <1>2, <1>4, <1>6, <1>9, Zenon DEF Filled
<1> QED BY <1>1, <1>2, <1>10, <1>11, <1>12, Zenon

(* Every content of namebuffer is zero behind the text.                    *)
LEMMA BufferPadded ==
  ASSUME NEW t \in Buffers
  PROVE  Padded(t)
<1>1. t = Garbage \/ \E k \in {"ptr", "other"} : t = Filled(k)
  BY Zenon DEF Buffers, Filled, NameSize
<1>2. CASE t = Garbage
  BY <1>2, GarbageOctets, Zenon DEF Padded
<1>3. ASSUME NEW k \in {"ptr", "other"}, t = Filled(k) PROVE Padded(t)
  <2>1. PICK f : f = Filled(k)
    OBVIOUS
  <2>2. PICK c \in Nat : c = NameSize
    BY NameSizeNat
  <2>3. /\ f \in Seq(Nat) /\ Len(f) = c
        /\ \A i \in 1..c : f[i] = IF i <= 6 THEN Text(Instance(k))[i] ELSE 0
    BY <2>1, <2>2, FilledOctets, Zenon
  <2>4. \A i \in 1..c : i > 6 => f[i] = 0
    BY <2>3
  <2> QED BY <1>3, <2>1, <2>2, <2>3, <2>4, Zenon DEF Padded
<1> QED BY <1>1, <1>2, <1>3

(* A name copied over the start of a buffer.                               *)
LEMMA Refilled ==
  ASSUME NEW k \in {"ptr", "other"}, NEW stale \in Buffers,
         NEW str, str = UpTo(Text(Instance(k)), MDNS_PTR_NAME_SIZE)
  PROVE  str \o SubSeq(stale, Len(str) + 1, Len(stale)) = Filled(k)
<1>1. PICK c \in Nat : c = NameSize /\ 5 <= c
  BY NameSizeNat
<1>2. PICK t : t = Text(Instance(k))
  OBVIOUS
<1>3. t \in Seq(Nat) /\ Len(t) = 6
  BY <1>2, InstanceText
<1>4. stale \in Seq(Nat) /\ Len(stale) = c /\ \A i \in 1..c : i > 6 => stale[i] = 0
  BY <1>1, BufferPadded, Zenon DEF Padded
<1>5. PICK e \in Nat : e = (IF 6 < c THEN 6 ELSE c) /\ e <= 6 /\ e <= c /\ (e < c => e = 6)
  BY <1>1
<1>6. str \in Seq(Nat) /\ Len(str) = e /\ \A i \in 1..e : str[i] = t[i]
  <2>1. /\ str \in Seq(Nat) /\ Len(str) = IF Len(t) < c THEN Len(t) ELSE c
        /\ \A i \in 1..Len(str) : str[i] = t[i]
    <3>1. str = UpTo(t, c)
      BY <1>1, <1>2, Zenon DEF NameSize
    <3>2. t \in Seq(Nat)
      BY <1>3
    <3>3. /\ UpTo(t, c) \in Seq(Nat)
          /\ Len(UpTo(t, c)) = IF Len(t) < c THEN Len(t) ELSE c
          /\ \A i \in 1..Len(UpTo(t, c)) : UpTo(t, c)[i] = t[i]
      BY <3>2, UpToPrefix
    <3> QED BY <3>1, <3>3, Zenon
  <2>2. Len(str) = e
    BY <1>3, <1>5, <2>1
  <2> QED BY <2>1, <2>2, Zenon
<1>7. PICK r : r = SubSeq(stale, e + 1, c)
  OBVIOUS
<1>8. r \in Seq(Nat) /\ Len(r) = c - e /\ \A i \in 1..(c - e) : r[i] = stale[e + i]
  <2>1. stale \in Seq(Nat) /\ Len(stale) = c
    BY <1>4
  <2>2. r \in Seq(Nat) /\ Len(r) = c - e
    BY <1>5, <1>7, <2>1
  <2>3. \A i \in 1..(c - e) : r[i] = stale[(e + 1) + i - 1]
    BY <1>5, <1>7, <2>1
  <2>4. \A i \in 1..(c - e) : (e + 1) + i - 1 = e + i
    OBVIOUS
  <2> QED BY <2>2, <2>3, <2>4
<1>9. PICK a : a = str \o r
  OBVIOUS
<1>10. /\ a \in Seq(Nat) /\ Len(a) = Len(str) + Len(r)
       /\ \A i \in 1..Len(str) : a[i] = str[i]
       /\ \A i \in 1..Len(r) : a[Len(str) + i] = r[i]
  BY <1>6, <1>8, <1>9, ConcatLen, Zenon
<1>11. /\ Len(a) = c /\ (\A i \in 1..e : a[i] = str[i])
       /\ \A i \in 1..(c - e) : a[e + i] = r[i]
  <2>1. Len(str) = e /\ Len(r) = c - e /\ e + (c - e) = c
    BY <1>6, <1>8
  <2> QED BY <1>10, <2>1, Zenon
<1>12. PICK f : f = Filled(k)
  OBVIOUS
<1>13. f \in Seq(Nat) /\ Len(f) = c /\ \A i \in 1..c : f[i] = IF i <= 6 THEN t[i] ELSE 0
  BY <1>1, <1>2, <1>12, FilledOctets, Zenon
<1>14. ASSUME NEW i \in 1..Len(a) PROVE a[i] = f[i]
  <2>0. i \in 1..c
    BY <1>11
  <2>1. CASE i <= e
    <3>1. i \in 1..e /\ i <= 6
      BY <1>5, <2>1
    <3>2. a[i] = str[i] /\ str[i] = t[i]
      BY <1>6, <1>11, <3>1, Zenon
    <3>3. f[i] = t[i]
      BY <1>13, <2>0, <3>1, Zenon
    <3> QED BY <3>2, <3>3, Zenon
  <2>2. CASE i > e
    <3>1. i - e \in 1..(c - e) /\ e + (i - e) = i /\ ~(i <= 6) /\ i > 6
      BY <1>5, <2>0, <2>2
    <3>2. a[e + (i - e)] = r[i - e] /\ r[i - e] = stale[e + (i - e)]
      BY <1>8, <1>11, <3>1, Zenon
    <3>3. a[i] = stale[i] /\ stale[i] = 0
      BY <1>4, <2>0, <3>1, <3>2, Zenon
    <3>4. f[i] = 0
      BY <1>13, <2>0, <3>1, Zenon
    <3> QED BY <3>3, <3>4, Zenon
  <2> QED BY <1>5, <2>0, <2>1, <2>2
<1>15. a = f
  BY <1>10, <1>11, <1>13, <1>14, SameOctets
<1> QED BY <1>4, <1>6, <1>7, <1>9, <1>12, <1>15, Zenon

(* Which buffers hold the name searched.                                   *)
LEMMA ZephyrFirst ==
  ASSUME NEW t \in Buffers, IsZephyr(t)
  PROVE  t[1] = Z
<1>1. t \in Seq(Nat) /\ Len(t) = NameSize
  BY BufferPadded, Zenon DEF Padded
<1>2. PICK s : s = SubSeq(t, 1, 2)
  OBVIOUS
<1>3. s[1] = t[1]
  BY <1>1, <1>2, NameSizeNat
<1>4. SubSeq(t, 1, Len(expected)) = expected
  <2>1. PICK r : r = [null |-> FALSE, text |-> t]
    OBVIOUS
  <2>2. is_expected(r) /\ r.text = t
    BY <2>1, Zenon DEF IsZephyr
  <2> QED BY <2>2, Zenon DEF is_expected
<1>5. Len(expected) = 2 /\ expected[1] = Z
  BY DEF expected
<1> QED BY <1>2, <1>3, <1>4, <1>5, Zenon

(* Neither garbage nor another instance passes the comparisons.            *)
LEMMA NotZephyr ==
  ~IsZephyr(Garbage) /\ ~IsZephyr(Filled("other"))
<1>1. Garbage \in Buffers /\ Filled("other") \in Buffers
  BY Zenon DEF Buffers, Filled, NameSize
<1>2. 1 \in 1..NameSize /\ 1 <= 6
  BY NameSizeNat
<1>3. Garbage[1] = 0
  BY <1>2, GarbageOctets, Zenon
<1>4. Filled("other")[1] = X
  <2>1. "other" \in {"ptr", "other"} /\ "other" # "ptr"
    OBVIOUS
  <2>2. Filled("other")[1] = Text(Instance("other"))[1]
    BY <1>2, <2>1, FilledOctets, Zenon
  <2> QED BY <2>1, <2>2, InstanceText, Zenon
<1>5. 0 # Z /\ X # Z
  BY DEF Z, X
<1> QED BY <1>1, <1>3, <1>4, <1>5, ZephyrFirst, Zenon

-----------------------------------------------------------------------------
(* The records of a message.  Among the first n is one that offers the     *)
(* instance and was stored whole; some record is an address.               *)
Offered(m, n) ==
  \E i \in 1..n : m.answers[i] = "ptr" /\ Len(Built(m, i).octets) <= MDNS_RESPONSE_BUFFER_SIZE

(* Some record of the message is an address.                               *)
HasAddress(m) == \E i \in DOMAIN m.answers : m.answers[i] = "addr"

(* The state of the loop of mdns_answer_check.                             *)
State(offset, text, match, ended) ==
  [offset |-> offset, text |-> text, match |-> match, ended |-> ended]

(* After n records: what namebuffer holds, and that the next record starts *)
(* at the offset, unless the rest was cut off.                             *)
CheckInv(m, before, n, w) ==
  /\ w = State(w.offset, w.text, w.match, w.ended)
  /\ w.offset \in Nat /\ w.text \in Buffers
  /\ w.match \in BOOLEAN /\ w.ended \in BOOLEAN
  /\ IsZephyr(w.text) => IsZephyr(before) \/ Offered(m, n)
  /\ w.match => Offered(m, n) \/ (IsZephyr(before) /\ HasAddress(m))
  /\ ~w.match /\ ~w.ended =>
       w.offset = Len(Built(m, n).octets) \/ w.offset + 10 > Len(Received(m))

(* One record more takes no offer away.                                    *)
LEMMA OfferedGrows ==
  ASSUME NEW m, NEW n \in Nat, Offered(m, n)
  PROVE  Offered(m, n + 1)
<1>1. \A i \in 1..n : i \in 1..(n + 1)
  OBVIOUS
<1> QED BY <1>1, Zenon DEF Offered

(* Where no record fits any more, the loop ends.                           *)
LEMMA CheckEnds ==
  ASSUME NEW b \in Seq(Nat), NEW o \in Nat, NEW text, NEW w, w = State(o, text, FALSE, FALSE),
         \/ o + 10 > Len(b)
         \/ \E end \in Nat : end = mdns_string_skip(b, Len(b), o) /\ end + 10 > Len(b)
  PROVE  check_record(b, w) = State(o, text, FALSE, TRUE)
<1>1. w.offset = o /\ w.match = FALSE /\ w.ended = FALSE
  BY DEF State
<1>2. PICK r : r = mdns_string_skip(b, Len(b), o)
  OBVIOUS
<1>3. r = MDNS_INVALID_POS \/ (r \in Nat /\ o <= r)
  BY <1>2, SkipForward
<1>4. PICK data : data = FixedSize + (IF r = MDNS_INVALID_POS THEN o ELSE r)
  OBVIOUS
<1>5. data > Len(b)
  <2>1. CASE r = MDNS_INVALID_POS
    <3>1. o + 10 > Len(b)
      BY <1>2, <2>1 DEF MDNS_INVALID_POS
    <3>2. data = FixedSize + o
      BY <1>4, <2>1, Zenon
    <3> QED BY <3>1, <3>2 DEF FixedSize
  <2>2. CASE r # MDNS_INVALID_POS
    <3>1. r \in Nat /\ o <= r
      BY <1>3, <2>2, Zenon
    <3>2. o + 10 > Len(b) \/ r + 10 > Len(b)
      BY <1>2, Zenon
    <3>3. data = FixedSize + r
      BY <1>4, <2>2, Zenon
    <3>4. Len(b) \in Nat
      OBVIOUS
    <3> QED BY <3>1, <3>2, <3>3, <3>4 DEF FixedSize
  <2> QED BY <2>1, <2>2
<1>6. check_record(b, w) = [w EXCEPT !.ended = TRUE]
  BY <1>1, <1>2, <1>4, <1>5, Zenon DEF check_record
<1> QED BY <1>6 DEF State

(* A record that is read.                                                  *)
Data(b, w, data, length) ==
  IF length <= Len(b) - data THEN mdns_record_parse_ptr(b, data, length, w.text)
  ELSE [null |-> TRUE, text |-> w.text]

(* A pass of the loop that reads a record: it goes on behind the data,     *)
(* with the outcome of the comparisons.                                    *)
Checked(b, w, data, length, r) ==
  \E e : e = is_expected(r) /\ check_record(b, w) = State(data + length, r.text, e, FALSE)

(* A pass at a name that is skipped, whose fixed part was received, is     *)
(* such a pass.                                                            *)
LEMMA CheckReads ==
  ASSUME NEW b \in Seq(Nat), NEW o \in Nat, NEW text, NEW w, w = State(o, text, FALSE, FALSE),
         NEW end \in Nat, end = mdns_string_skip(b, Len(b), o),
         NEW data, data = end + 10, data <= Len(b),
         NEW length, length = mdns_ntohs(b, data - 2)
  PROVE  Checked(b, w, data, length, Data(b, w, data, length))
<1>1. w.offset = o /\ w.match = FALSE /\ w.ended = FALSE
  BY DEF State
<1>2. end # MDNS_INVALID_POS
  BY DEF MDNS_INVALID_POS
<1>3. data = FixedSize + end /\ ~(data > Len(b))
  BY DEF FixedSize
<1>4. data = FixedSize + (IF end = MDNS_INVALID_POS THEN w.offset ELSE end)
  BY <1>2, <1>3, Zenon
<1>5. PICK r : r = Data(b, w, data, length)
  OBVIOUS
<1>6. check_record(b, w)
        = [w EXCEPT !.offset = data + length, !.text = r.text, !.match = is_expected(r)]
  BY <1>1, <1>3, <1>4, <1>5, Zenon DEF check_record, Data
<1>7. PICK t, e, x : t = r.text /\ e = is_expected(r) /\ x = data + length
  OBVIOUS
<1>8. check_record(b, w) = [w EXCEPT !.offset = x, !.text = t, !.match = e]
  BY <1>6, <1>7, Zenon
<1>9. check_record(b, w) = State(x, t, e, FALSE)
  BY <1>8 DEF State
<1>10. e = is_expected(r) /\ check_record(b, w) = State(data + length, r.text, e, FALSE)
  BY <1>7, <1>9, Zenon
<1>11. Checked(b, w, data, length, r)
  BY <1>10, Zenon DEF Checked
<1> QED BY <1>5, <1>11, Zenon

(* The number of octets of the data.                                       *)
LEMMA LengthRead ==
  ASSUME NEW b \in Seq(Nat), NEW p, NEW q, NEW s, NEW d, NEW u, NEW x, NEW v,
         Pieces(p, q, s, d, u, x, v), Agrees(b, v), Len(v) <= Len(b)
  PROVE  mdns_ntohs(b, Len(v) - 2) = Len(d)
<1>1. /\ u \in Seq(Nat) /\ x \in Seq(Nat) /\ v = u \o x
      /\ Len(x) = 10 /\ 256 * x[9] + x[10] = Len(d) /\ Len(v) = Len(u) + 10
  BY Zenon DEF Pieces
<1>2. Len(u) + Len(x) <= Len(b)
  BY <1>1
<1>3. Stands(b, Len(u), x)
  BY <1>1, <1>2, AgreesPrefix, Zenon
<1>4. \A i \in 1..10 : b[Len(u) + i] = x[i]
  BY <1>1, <1>3, Zenon DEF Stands
<1>5. 9 \in 1..10 /\ 10 \in 1..10
  OBVIOUS
<1>6. b[Len(u) + 9] = x[9] /\ b[Len(u) + 10] = x[10]
  BY <1>4, <1>5, Zenon
<1>7. (Len(v) - 2) + 1 = Len(u) + 9 /\ ((Len(v) - 2) + 1) + 1 = Len(u) + 10
  BY <1>1
<1>8. mdns_ntohs(b, Len(v) - 2) = 256 * b[(Len(v) - 2) + 1] + b[((Len(v) - 2) + 1) + 1]
  BY Zenon DEF mdns_ntohs, Octet
<1> QED BY <1>1, <1>6, <1>7, <1>8, Zenon

(* Where no label is found, no text is copied.                             *)
LEMMA NoNameText ==
  ASSUME NEW b, NEW o \in Nat, NEW c \in Nat, mdns_get_next_substring(b, Len(b), o) = NoLabel
  PROVE  mdns_string_extract(b, Len(b), o, c) = <<>>
<1>1. Extract(b)[65][o] = <<>>
  <2>1. 65 \in 1..65
    OBVIOUS
  <2>2. Extract(b)[65] = extract_label(b, Len(b), Extract(b)[65 - 1])
    BY <2>1, ExtractEquations, Zenon
  <2>3. PICK rest : rest = Extract(b)[65 - 1]
    OBVIOUS
  <2>4. NoLabel.offset = MDNS_INVALID_POS
    BY DEF NoLabel, Label
  <2>5. extract_label(b, Len(b), rest)[o] = <<>>
    BY <2>4, Zenon DEF extract_label
  <2> QED BY <2>2, <2>3, <2>5, Zenon
<1>2. UpTo(<<>>, c) = <<>>
  BY DEF UpTo
<1>3. mdns_string_extract(b, Len(b), o, c) = UpTo(Extract(b)[65][o], c)
  BY ExtractEquations, Zenon
<1> QED BY <1>1, <1>2, <1>3, Zenon

(* An address is no name: it leads out of every buffer.                    *)
LEMMA AddressText ==
  ASSUME NEW b \in Seq(Nat), Len(b) <= AddressRef, NEW o \in Nat, o + 2 <= Len(b),
         b[o + 1] = 254, b[o + 2] = 128, NEW c \in Nat
  PROVE  mdns_string_extract(b, Len(b), o, c) = <<>>
<1>1. Len(b) \in Nat
  OBVIOUS
<1>2. Octet(b, o) = 254 /\ mdns_is_string_ref(Octet(b, o)) /\ Octet(b, o) # 0
  BY DEF Octet, mdns_is_string_ref
<1>3. Target(b, o) = 16000
  <2>1. Target(b, o) = (256 * b[o + 1] + b[(o + 1) + 1]) % 2^14
    BY Zenon DEF Target, mdns_ntohs, Octet
  <2>2. (o + 1) + 1 = o + 2
    OBVIOUS
  <2>3. (49152 + 16000) % 2^14 = 16000
    OBVIOUS
  <2> QED BY <2>1, <2>2, <2>3
<1>4. follow_refs(b, Len(b), o) = MDNS_INVALID_POS
  <2>1. Target(b, o) >= Len(b)
    BY <1>1, <1>3 DEF AddressRef
  <2> QED BY <1>1, <1>2, <2>1, BadRef
<1>5. mdns_get_next_substring(b, Len(b), o) = NoLabel
  <2>1. ~(o >= Len(b))
    BY <1>1
  <2> QED BY <1>2, <1>4, <2>1, Zenon DEF mdns_get_next_substring
<1> QED BY <1>5, NoNameText

(* Data that is no name leaves namebuffer and is no match.                 *)
LEMMA NullData ==
  ASSUME NEW r, NEW t, r = [null |-> TRUE, text |-> t]
  PROVE  r.text = t /\ is_expected(r) = FALSE
<1>1. r.text = t /\ r.null = TRUE
  OBVIOUS
<1>2. ~is_expected(r)
  BY <1>1, Zenon DEF is_expected
<1>3. is_expected(r) \in BOOLEAN
  BY Zenon DEF is_expected
<1> QED BY <1>1, <1>2, <1>3, Zenon

(* Of data that is a name the comparisons see namebuffer.                  *)
LEMMA NameData ==
  ASSUME NEW r, NEW t, r = [null |-> FALSE, text |-> t]
  PROVE  r.text = t /\ is_expected(r) = IsZephyr(t) /\ is_expected(r) \in BOOLEAN
<1>1. r.text = t
  OBVIOUS
<1>2. is_expected(r) = IsZephyr(t)
  BY Zenon DEF IsZephyr
<1>3. is_expected(r) \in BOOLEAN
  BY Zenon DEF is_expected
<1> QED BY <1>1, <1>2, <1>3, Zenon

(* What the data of a record leaves in namebuffer.                         *)
DataInv(m, n, kind, text, r) ==
  /\ r.text \in Buffers
  /\ is_expected(r) \in BOOLEAN
  /\ IsZephyr(r.text) => IsZephyr(text) \/ Offered(m, n + 1)
  /\ is_expected(r) => (IsZephyr(text) /\ kind = "addr") \/ Offered(m, n + 1)

(* What the data of a record does to namebuffer, for each kind of record:  *)
(* an instance is copied over it, other data leaves it.                    *)
LEMMA DataReads ==
  ASSUME NEW m \in Messages, NEW n \in Nat, n + 1 <= Len(m.answers),
         NEW b, b = Received(m), NEW p, p = Built(m, n), NEW q, q = Built(m, n + 1),
         NEW s, NEW d, RecordAt(p, q, m.answers[n + 1], s, d),
         NEW u, NEW x, NEW v, Pieces(p, q, s, d, u, x, v), Len(v) <= Len(b),
         NEW text \in Buffers, NEW w, w.text = text,
         NEW r, r = Data(b, w, Len(v), Len(d))
  PROVE  DataInv(m, n, m.answers[n + 1], text, r)
<1>1. /\ b \in Seq(Nat) /\ Len(b) <= AddressRef /\ Len(b) <= MDNS_RESPONSE_BUFFER_SIZE
      /\ Len(b) \in Nat
  BY ReceivedPrefix
<1>2. /\ d \in Seq(Nat) /\ v \in Seq(Nat) /\ q.octets = v \o d /\ Len(d) \in Nat /\ Len(v) \in Nat
      /\ Len(q.octets) = Len(v) + Len(d)
  <2>1. /\ d \in Seq(Nat) /\ v \in Seq(Nat) /\ q.octets = v \o d
        /\ Len(q.octets) = Len(v) + Len(d)
    BY Zenon DEF Pieces
  <2> QED BY <2>1
<1>3. PICK kind \in Kinds : kind = m.answers[n + 1]
  <2>1. n + 1 \in 1..Len(m.answers)
    BY MessageParts
  <2> QED BY <2>1, MessageParts
<1>4. Agrees(b, v \o d)
  <2>1. n + 1 \in Nat
    OBVIOUS
  <2> QED BY <1>2, <2>1, ReceivedAgrees, Zenon
<1>5. CASE ~(Len(d) <= Len(b) - Len(v)) \/ ~(Len(d) >= 2)
  <2>1. r = [null |-> TRUE, text |-> text]
    BY <1>5, Zenon DEF Data, mdns_record_parse_ptr
  <2>2. r.text = text /\ is_expected(r) = FALSE
    BY <2>1, NullData
  <2> QED BY <2>2, Zenon DEF DataInv
<1>6. CASE Len(d) <= Len(b) - Len(v) /\ Len(d) >= 2
  <2>1. PICK str : str = mdns_string_extract(b, Len(b), Len(v), MDNS_PTR_NAME_SIZE)
    OBVIOUS
  <2>2. PICK t : t = str \o SubSeq(text, Len(str) + 1, Len(text))
    OBVIOUS
  <2>3. Len(b) >= Len(v) + Len(d)
    BY <1>1, <1>2, <1>6
  <2>4. r = [null |-> FALSE, text |-> t]
    BY <1>6, <2>1, <2>2, <2>3, Zenon DEF Data, mdns_record_parse_ptr
  <2>5. r.text = t /\ is_expected(r) = IsZephyr(t) /\ is_expected(r) \in BOOLEAN
    BY <2>4, NameData
  <2>6. CASE kind \in {"ptr", "other"}
    <3>1. [at |-> Len(p.octets) + Len(s) + 10, end |-> Len(p.octets) + Len(s) + 10 + Len(d),
           name |-> Instance(kind)] \in q.names
      BY <1>3, <2>6, Zenon DEF RecordAt
    <3>2. Len(p.octets) + Len(s) + 10 = Len(v)
      BY Zenon DEF Pieces
    <3>3. PICK name : name = [at |-> Len(v), end |-> Len(v) + Len(d), name |-> Instance(kind)]
      OBVIOUS
    <3>4. name \in Built(m, n + 1).names /\ name.end = Len(v) + Len(d)
          /\ name.at = Len(v) /\ name.name = Instance(kind)
      <4>1. name \in Built(m, n + 1).names
        BY <3>1, <3>2, <3>3, Zenon
      <4> QED BY <3>3, <4>1
    <3>5. Instance(kind) \in Names /\ Reads(b, Len(v), Len(v) + Len(d), Instance(kind))
      <4>1. n + 1 \in Nat /\ name.end <= Len(Received(m))
        BY <2>3, <3>4
      <4>2. name.name \in Names /\ Reads(Received(m), name.at, name.end, name.name)
        BY <3>4, <4>1, ReceivedReads, Zenon
      <4> QED BY <3>4, <4>2, Zenon
    <3>6. str = UpTo(Text(Instance(kind)), MDNS_PTR_NAME_SIZE)
      BY <2>1, <3>5, ReadName, Zenon
    <3>7. t = Filled(kind)
      BY <2>2, <2>6, <3>6, Refilled, Zenon
    <3>8. t \in Buffers
      BY <2>6, <3>7, Zenon DEF Buffers, Filled, NameSize
    <3>9. CASE kind = "ptr"
      <4>1. Offered(m, n + 1)
        <5>1. n + 1 \in 1..(n + 1)
          OBVIOUS
        <5>2. Len(Built(m, n + 1).octets) <= MDNS_RESPONSE_BUFFER_SIZE
          BY <1>1, <1>2, <2>3, SizesNat
        <5> QED BY <1>3, <3>9, <5>1, <5>2, Zenon DEF Offered
      <4> QED BY <2>5, <3>8, <4>1, Zenon DEF DataInv
    <3>10. CASE kind = "other"
      <4>1. ~IsZephyr(t)
        BY <3>7, <3>10, NotZephyr, Zenon
      <4> QED BY <2>5, <3>8, <4>1, Zenon DEF DataInv
    <3> QED BY <2>6, <3>9, <3>10
  <2>7. CASE kind = "addr"
    <3>1. Len(d) = 16 /\ d[1] = 254 /\ d[2] = 128
      BY <1>3, <2>7, Zenon DEF RecordAt
    <3>2. Stands(b, Len(v), d)
      BY <1>1, <1>2, <1>4, <2>3, AgreesPrefix
    <3>3. b[Len(v) + 1] = 254 /\ b[Len(v) + 2] = 128
      <4>1. 1 \in 1..Len(d) /\ 2 \in 1..Len(d)
        BY <3>1
      <4>2. b[Len(v) + 1] = d[1] /\ b[Len(v) + 2] = d[2]
        BY <3>2, <4>1, Zenon DEF Stands
      <4> QED BY <3>1, <4>2
    <3>4. Len(v) + 2 <= Len(b) /\ MDNS_PTR_NAME_SIZE \in Nat
      BY <1>1, <1>2, <2>3, <3>1, RequestSizes
    <3>5. str = <<>>
      BY <1>1, <1>2, <2>1, <3>3, <3>4, AddressText
    <3>6. t = text
      <4>1. text \in Seq(Nat)
        BY BufferPadded, Zenon DEF Padded
      <4>2. t = <<>> \o SubSeq(text, 1, Len(text))
        BY <2>2, <3>5
      <4>3. SubSeq(text, 1, Len(text)) = text
        BY <4>1
      <4> QED BY <4>1, <4>2, <4>3
    <3> QED BY <1>3, <2>5, <2>7, <3>6, Zenon DEF DataInv
  <2>8. kind # "text"
    <3>1. kind = "text" => Len(d) = 1
      BY <1>3, Zenon DEF RecordAt
    <3>2. Len(d) # 1
      <4>1. Len(d) \in Nat /\ Len(d) >= 2
        BY <1>2, <1>6, Zenon
      <4>2. \A e \in Nat : e >= 2 => e # 1
        OBVIOUS
      <4> QED BY <4>1, <4>2, Zenon
    <3> QED BY <3>1, <3>2, Zenon
  <2> QED BY <2>6, <2>7, <2>8 DEF Kinds
<1> QED BY <1>5, <1>6

(* The answers of a message are a sequence.                                *)
LEMMA AnswersDomain ==
  ASSUME NEW m \in Messages
  PROVE  DOMAIN m.answers = 1..Len(m.answers) /\ Len(m.answers) \in Nat
<1>1. PICK n \in 0..MaxRecords : m.answers \in [1..n -> Kinds]
  BY DEF Messages
<1>2. n \in Nat
  BY <1>1, BoundsNat
<1>3. Len(m.answers) = n /\ DOMAIN m.answers = 1..n
  BY <1>1, <1>2
<1> QED BY <1>2, <1>3

(* A record of a message.                                                  *)
LEMMA CheckStep ==
  ASSUME NEW m \in Messages, NEW before \in Buffers, NEW n \in Nat, n + 1 <= Len(m.answers),
         NEW w, CheckInv(m, before, n, w)
  PROVE  CheckInv(m, before, n + 1, check_record(Received(m), w))
<1>1. PICK b : b = Received(m)
  OBVIOUS
<1>2. b \in Seq(Nat) /\ Len(b) \in Nat
  BY <1>1, ReceivedPrefix
<1>3. PICK o, text : o = w.offset /\ text = w.text
  OBVIOUS
<1>4. /\ w = State(o, text, w.match, w.ended) /\ o \in Nat /\ text \in Buffers
      /\ w.match \in BOOLEAN /\ w.ended \in BOOLEAN
      /\ IsZephyr(text) => IsZephyr(before) \/ Offered(m, n)
      /\ w.match => Offered(m, n) \/ (IsZephyr(before) /\ HasAddress(m))
      /\ ~w.match /\ ~w.ended => o = Len(Built(m, n).octets) \/ o + 10 > Len(b)
  BY <1>1, <1>3, Zenon DEF CheckInv
<1>5. Offered(m, n) => Offered(m, n + 1)
  BY OfferedGrows
<1>6. CASE w.match \/ w.ended
  <2>1. check_record(b, w) = w
    BY <1>6, Zenon DEF check_record
  <2>2. CheckInv(m, before, n + 1, w)
    BY <1>3, <1>4, <1>5, <1>6, Zenon DEF CheckInv
  <2> QED BY <1>1, <2>1, <2>2, Zenon
<1>7. CASE ~w.match /\ ~w.ended
  <2>0. w = State(o, text, FALSE, FALSE)
    <3>1. w.match = FALSE /\ w.ended = FALSE
      BY <1>4, <1>7, Zenon
    <3> QED BY <1>4, <3>1, Zenon
  <2>1. ASSUME check_record(b, w) = State(o, text, FALSE, TRUE)
        PROVE  CheckInv(m, before, n + 1, check_record(b, w))
    <3>1. PICK e : e = check_record(b, w)
      OBVIOUS
    <3>2. e.offset = o /\ e.text = text /\ e.match = FALSE /\ e.ended = TRUE
          /\ e = State(o, text, FALSE, TRUE)
      BY <2>1, <3>1 DEF State
    <3>3. CheckInv(m, before, n + 1, e)
      BY <1>4, <1>5, <3>2, Zenon DEF CheckInv
    <3> QED BY <3>1, <3>3, Zenon
  <2>2. CASE o + 10 > Len(b)
    <3>1. check_record(b, w) = State(o, text, FALSE, TRUE)
      BY <1>2, <1>4, <2>0, <2>2, CheckEnds
    <3> QED BY <1>1, <2>1, <3>1, Zenon
  <2>3. CASE ~(o + 10 > Len(b))
    <3>1. PICK p, q : p = Built(m, n) /\ q = Built(m, n + 1)
      OBVIOUS
    <3>2. PICK s, d : RecordAt(p, q, m.answers[n + 1], s, d)
      <4>1. \E s, d : RecordAt(Built(m, n), Built(m, n + 1), m.answers[n + 1], s, d)
        BY BuiltRecord
      <4> QED BY <3>1, <4>1, Zenon
    <3>3. PacketInv(p)
      <4>1. n <= Len(m.answers)
        BY MessageParts
      <4> QED BY <3>1, <4>1, BuiltInv, Zenon
    <3>4. PICK u, x, v : Pieces(p, q, s, d, u, x, v)
      BY <3>2, <3>3, RecordParts
    <3>5. /\ o = Len(p.octets)
          /\ Len(u) = o + Len(s) /\ Len(v) = Len(u) + 10 /\ Len(q.octets) = Len(v) + Len(d)
          /\ s \in Seq(Nat) /\ d \in Seq(Nat) /\ u \in Seq(Nat) /\ v \in Seq(Nat)
          /\ Len(s) <= 7
      BY <1>4, <1>7, <2>3, <3>1, <3>2, <3>4, Zenon DEF Pieces, RecordAt
    <3>6. Len(u) \in Nat /\ Len(v) \in Nat /\ Len(d) \in Nat /\ Len(u) <= Len(b)
      <4>1. Len(u) \in Nat /\ Len(v) \in Nat /\ Len(d) \in Nat /\ Len(s) \in Nat
        BY <3>5
      <4>2. \A i, j, k \in Nat : ~(i + 10 > k) /\ j <= 7 => i + j <= k
        OBVIOUS
      <4>3. o + Len(s) <= Len(b)
        BY <1>2, <1>4, <2>3, <3>5, <4>1, <4>2, Zenon
      <4> QED BY <3>5, <4>1, <4>3, Zenon
    <3>7. mdns_string_skip(b, Len(b), o) = Len(u)
      <4>1. PICK name : name = [at |-> o, end |-> Len(u), name |-> Owner(m.answers[n + 1])]
        OBVIOUS
      <4>2. name \in q.names
        BY <3>2, <3>5, <4>1, Zenon DEF RecordAt
      <4>3. name.at = o /\ name.end = Len(u)
        BY <4>1
      <4>4. n + 1 \in Nat /\ name.end <= Len(Received(m)) /\ name \in Built(m, n + 1).names
        BY <1>1, <3>1, <3>6, <4>2, <4>3
      <4>5. name.name \in Names /\ Reads(b, o, Len(u), name.name)
        BY <1>1, <4>3, <4>4, ReceivedReads, Zenon
      <4> QED BY <4>5, ReadName, Zenon
    <3>8. CASE Len(v) > Len(b)
      <4>1. \E end \in Nat : end = mdns_string_skip(b, Len(b), o) /\ end + 10 > Len(b)
        BY <3>5, <3>6, <3>7, <3>8, Zenon
      <4>2. check_record(b, w) = State(o, text, FALSE, TRUE)
        BY <1>2, <1>4, <2>0, <4>1, CheckEnds, Zenon
      <4> QED BY <1>1, <2>1, <4>2, Zenon
    <3>9. CASE ~(Len(v) > Len(b))
      <4>0. Len(v) <= Len(b)
        BY <1>2, <3>6, <3>9
      <4>1. PICK r : r = Data(b, w, Len(v), Len(d))
        OBVIOUS
      <4>2. Agrees(b, v)
        <5>1. n + 1 \in Nat
          OBVIOUS
        <5>2. Agrees(b, q.octets)
          BY <1>1, <3>1, <5>1, ReceivedAgrees, Zenon
        <5> QED BY <1>2, <3>4, <5>2, AgreesPrefix, Zenon DEF Pieces
      <4>3. mdns_ntohs(b, Len(v) - 2) = Len(d)
        BY <1>2, <3>4, <4>0, <4>2, LengthRead
      <4>4. Checked(b, w, Len(v), Len(d), r)
        <5>1. PICK end \in Nat : end = Len(u)
          BY <3>6
        <5>2. PICK data, length : data = Len(v) /\ length = Len(d)
          OBVIOUS
        <5>3. data = end + 10 /\ data <= Len(b) /\ length = mdns_ntohs(b, data - 2)
              /\ end = mdns_string_skip(b, Len(b), o)
          BY <3>5, <3>7, <4>0, <4>3, <5>1, <5>2, Zenon
        <5>4. b \in Seq(Nat) /\ o \in Nat
          BY <1>2, <1>4, Zenon
        <5>5. Checked(b, w, data, length, Data(b, w, data, length))
          BY <2>0, <5>3, <5>4, CheckReads, Zenon
        <5> QED BY <4>1, <5>2, <5>5, Zenon
      <4>7. PICK mt : /\ mt = is_expected(r)
                      /\ check_record(b, w) = State(Len(v) + Len(d), r.text, mt, FALSE)
        BY <4>4, Zenon DEF Checked
      <4>16. PICK t : t = r.text
        OBVIOUS
      <4>5. DataInv(m, n, m.answers[n + 1], text, r)
        BY <1>1, <1>3, <1>4, <3>1, <3>2, <3>4, <4>0, <4>1, DataReads, Zenon
      <4>6. PICK e : e = check_record(b, w)
        OBVIOUS
      <4>8. e = State(Len(q.octets), t, mt, FALSE)
        BY <3>5, <4>6, <4>7, <4>16, Zenon
      <4>9. e.offset = Len(q.octets) /\ e.text = t /\ e.match = mt /\ e.ended = FALSE
        BY <4>8 DEF State
      <4>10. /\ t \in Buffers /\ mt \in BOOLEAN
             /\ IsZephyr(t) => IsZephyr(text) \/ Offered(m, n + 1)
             /\ mt => (IsZephyr(text) /\ m.answers[n + 1] = "addr") \/ Offered(m, n + 1)
        BY <4>5, <4>7, <4>16, Zenon DEF DataInv
      <4>11. m.answers[n + 1] = "addr" => HasAddress(m)
        <5>1. n + 1 \in DOMAIN m.answers
          <6>1. n + 1 \in 1..Len(m.answers)
            BY AnswersDomain
          <6> QED BY <6>1, AnswersDomain, Zenon
        <5> QED BY <5>1, Zenon DEF HasAddress
      <4>12. IsZephyr(t) => IsZephyr(before) \/ Offered(m, n + 1)
        BY <1>4, <1>5, <4>10, Zenon
      <4>13. mt => Offered(m, n + 1) \/ (IsZephyr(before) /\ HasAddress(m))
        BY <1>4, <1>5, <4>10, <4>11, Zenon
      <4>14. Len(q.octets) \in Nat
        BY <3>5, <3>6
      <4>15. CheckInv(m, before, n + 1, e)
        <5>1. e = State(e.offset, e.text, e.match, e.ended)
          BY <4>8, <4>9, Zenon
        <5>2. e.offset \in Nat /\ e.text \in Buffers /\ e.match \in BOOLEAN /\ e.ended \in BOOLEAN
          BY <4>9, <4>10, <4>14, Zenon
        <5>3. e.offset = Len(Built(m, n + 1).octets)
          BY <3>1, <4>9, Zenon
        <5>4. IsZephyr(e.text) => IsZephyr(before) \/ Offered(m, n + 1)
          BY <4>9, <4>12, Zenon
        <5>5. e.match => Offered(m, n + 1) \/ (IsZephyr(before) /\ HasAddress(m))
          BY <4>9, <4>13, Zenon
        <5> QED BY <5>1, <5>2, <5>3, <5>4, <5>5, Zenon DEF CheckInv
      <4> QED BY <1>1, <4>6, <4>15, Zenon
    <3> QED BY <3>8, <3>9
  <2> QED BY <2>2, <2>3
<1> QED BY <1>6, <1>7

-----------------------------------------------------------------------------
(* The loop over the records.                                              *)
Starting(offset, stale) == State(offset, stale, FALSE, FALSE)

(* The recursion of mdns_answer_check, which has a solution.               *)
IsCheck(b, offset, stale, k, f) ==
  f = [n \in 0..k |-> IF n = 0 THEN Starting(offset, stale)
                     ELSE check_record(b, f[n - 1])]

LEMMA CheckExists ==
  ASSUME NEW b, NEW offset, NEW stale
  PROVE  \A k \in Nat : \E f : IsCheck(b, offset, stale, k, f)
<1> DEFINE S == {k \in Nat : \E f : IsCheck(b, offset, stale, k, f)}
<1>1. 0 \in S
  <2>1. IsCheck(b, offset, stale, 0, [n \in 0..0 |-> Starting(offset, stale)])
    BY DEF IsCheck
  <2> QED BY <2>1
<1>2. ASSUME NEW k \in Nat, k \in S PROVE k + 1 \in S
  <2>1. PICK f : IsCheck(b, offset, stale, k, f)
    BY <1>2
  <2> DEFINE g == [n \in 0..(k + 1) |-> IF n <= k THEN f[n] ELSE check_record(b, f[k])]
  <2>2. ASSUME NEW n \in 0..(k + 1)
        PROVE  g[n] = IF n = 0 THEN Starting(offset, stale)
                      ELSE check_record(b, g[n - 1])
    <3>1. CASE n <= k
      BY <2>1, <3>1 DEF IsCheck
    <3>2. CASE n = k + 1
      BY <3>2
    <3> QED BY <3>1, <3>2
  <2>3. IsCheck(b, offset, stale, k + 1, g)
    <3> HIDE DEF g
    <3>1. DOMAIN g = 0..(k + 1) /\ g = [n \in 0..(k + 1) |-> g[n]]
      BY DEF g
    <3> QED BY <2>2, <3>1 DEF IsCheck
  <2> QED BY <2>3
<1> HIDE DEF S
<1>3. \A k \in Nat : k \in S
  BY <1>1, <1>2, SetInduction
<1> QED BY <1>3 DEF S

(* The passes of the loop of mdns_answer_check and its result.             *)
CheckRun(b, offset, stale, k, f) ==
  /\ f[0] = Starting(offset, stale)
  /\ \A n \in Nat : n + 1 <= k => f[n + 1] = check_record(b, f[n])
  /\ mdns_answer_check(b, offset, k, stale) = f[k]

LEMMA CheckEquations ==
  ASSUME NEW b, NEW offset, NEW stale, NEW k \in Nat
  PROVE  \E f : CheckRun(b, offset, stale, k, f)
<1>1. PICK f : f = CHOOSE g : IsCheck(b, offset, stale, k, g)
  OBVIOUS
<1>2. IsCheck(b, offset, stale, k, f)
  BY <1>1, CheckExists, Zenon
<1>3. f[0] = Starting(offset, stale)
  BY <1>2 DEF IsCheck
<1>4. ASSUME NEW n \in Nat, n + 1 <= k PROVE f[n + 1] = check_record(b, f[n])
  <2>1. n + 1 \in 0..k /\ (n + 1) - 1 = n /\ n + 1 # 0
    BY <1>4
  <2> QED BY <1>2, <2>1 DEF IsCheck
<1>5. mdns_answer_check(b, offset, k, stale) = f[k]
  BY <1>1 DEF mdns_answer_check, IsCheck, Starting, State
<1> QED BY <1>3, <1>4, <1>5 DEF CheckRun

(* The loop invariant holds after the last record.                         *)
LEMMA CheckAll ==
  ASSUME NEW m \in Messages, NEW before \in Buffers, NEW o \in Nat,
         o = Len(Built(m, 0).octets) \/ o + 10 > Len(Received(m))
  PROVE  CheckInv(m, before, Len(m.answers),
                  mdns_answer_check(Received(m), o, Len(m.answers), before))
<1>1. PICK k \in Nat : k = Len(m.answers)
  BY MessageParts
<1>2. PICK b : b = Received(m)
  OBVIOUS
<1>3. PICK f : CheckRun(b, o, before, k, f)
  BY CheckEquations
<1> DEFINE S == {n \in Nat : n <= k => CheckInv(m, before, n, f[n])}
<1>4. 0 \in S
  <2>1. PICK w : w = f[0]
    OBVIOUS
  <2>2. w = State(o, before, FALSE, FALSE)
    BY <1>3, <2>1, Zenon DEF CheckRun, Starting
  <2>3. w.offset = o /\ w.text = before /\ w.match = FALSE /\ w.ended = FALSE
    BY <2>2 DEF State
  <2>4. CheckInv(m, before, 0, w)
    BY <2>2, <2>3, Zenon DEF CheckInv
  <2> QED BY <2>1, <2>4
<1>5. ASSUME NEW n \in Nat, n \in S PROVE n + 1 \in S
  <2> SUFFICES ASSUME n + 1 <= k PROVE CheckInv(m, before, n + 1, f[n + 1])
    OBVIOUS
  <2>1. CheckInv(m, before, n, f[n])
    BY <1>5
  <2>2. f[n + 1] = check_record(b, f[n])
    BY <1>3, Zenon DEF CheckRun
  <2>3. CheckInv(m, before, n + 1, check_record(Received(m), f[n]))
    BY <1>1, <2>1, CheckStep
  <2> QED BY <1>2, <2>2, <2>3, Zenon
<1> HIDE DEF S
<1>6. \A n \in Nat : n \in S
  BY <1>4, <1>5, SetInduction
<1>7. CheckInv(m, before, k, f[k])
  BY <1>6 DEF S
<1> QED BY <1>1, <1>2, <1>3, <1>7, Zenon DEF CheckRun

-----------------------------------------------------------------------------
(* The numbers in the header of what was received.                         *)
LEMMA HeaderRead ==
  ASSUME NEW m \in Messages, NEW b, b = Received(m)
  PROVE  /\ mdns_ntohs(b, 4) = IF m.response THEN 0 ELSE 1
         /\ mdns_ntohs(b, 6) = Len(m.answers)
<1>1. PICK s : s = Packet(m).octets
  OBVIOUS
<1>2. s \in Seq(Nat) /\ Header(m, s)
  <2>1. Len(m.answers) \in Nat /\ Len(m.answers) <= Len(m.answers)
    BY MessageParts
  <2>2. PacketInv(Packet(m)) /\ Header(m, Packet(m).octets)
    BY <2>1, BuiltInv, Zenon DEF Packet
  <2> QED BY <1>1, <2>2, Zenon DEF PacketInv
<1>3. b \in Seq(Nat) /\ 12 <= Len(b) /\ Agrees(b, s)
  BY <1>1, ReceivedPrefix, Zenon
<1>4. /\ Len(s) >= 12 /\ 256 * s[5] + s[6] = (IF m.response THEN 0 ELSE 1)
      /\ 256 * s[7] + s[8] = Len(m.answers)
  BY <1>2, Zenon DEF Header
<1>5. ASSUME NEW i \in 1..12 PROVE b[i] = s[i]
  <2>1. Len(s) \in Nat /\ Len(b) \in Nat
    BY <1>2, <1>3
  <2>2. Len(s) >= 12 /\ 12 <= Len(b)
    BY <1>3, <1>4, Zenon
  <2>3. i \in 1..Len(s) /\ i <= Len(b)
    BY <2>1, <2>2
  <2> QED BY <1>3, <2>3, Zenon DEF Agrees
<1>6. b[5] = s[5] /\ b[6] = s[6] /\ b[7] = s[7] /\ b[8] = s[8]
  BY <1>5
<1>7. mdns_ntohs(b, 4) = 256 * b[5] + b[6] /\ mdns_ntohs(b, 6) = 256 * b[7] + b[8]
  BY DEF mdns_ntohs, Octet
<1> QED BY <1>4, <1>6, <1>7, Zenon

(* Where the records are looked for: behind the question, or where no      *)
(* record fits because the question was cut off.                           *)
LEMMA QuestionSkipped ==
  ASSUME NEW m \in Messages, NEW b, b = Received(m),
         NEW o, o = skip_questions(b, HeaderSize, mdns_ntohs(b, 4))
  PROVE  \/ o = MDNS_INVALID_POS
         \/ /\ o \in Nat
            /\ o = Len(Built(m, 0).octets) \/ o + 10 > Len(b)
<1>1. PICK p : p = Built(m, 0)
  OBVIOUS
<1>2. PICK s : Opens(m, p, s)
  BY <1>1, BuiltSteps, OpeningInv
<1>3. HeaderSize = 12 /\ QuestionTail = 4
  BY DEF HeaderSize, QuestionTail
<1>4. b \in Seq(Nat) /\ Len(b) \in Nat
  BY ReceivedPrefix
<1>5. CASE m.response
  <2>1. mdns_ntohs(b, 4) = 0
    BY <1>5, HeaderRead, Zenon
  <2>2. o = 12
    BY <1>3, <2>1, NoQuestion, Zenon
  <2>3. Len(p.octets) = 12
    BY <1>2, <1>5, Zenon DEF Opens
  <2>4. 12 \in Nat
    OBVIOUS
  <2> QED BY <1>1, <2>2, <2>3, <2>4, Zenon
<1>6. CASE ~m.response
  <2>1. mdns_ntohs(b, 4) = 1
    BY <1>6, HeaderRead, Zenon
  <2>2. o = skip_question(b, 12)
    BY <1>3, <2>1, OneQuestion, Zenon
  <2>3. /\ s \in Seq(Nat) /\ Len(s) <= 7 /\ Len(p.octets) = 12 + Len(s) + 4
        /\ [at |-> 12, end |-> 12 + Len(s), name |-> Service] \in p.names
    BY <1>2, <1>6, Zenon DEF Opens
  <2>4. PICK k \in Nat : k = Len(s) /\ k <= 7
    BY <2>3
  <2>5. PICK end : end = mdns_string_skip(b, Len(b), 12)
    OBVIOUS
  <2>6. 12 # MDNS_INVALID_POS
    BY DEF MDNS_INVALID_POS
  <2>7. o = IF end = MDNS_INVALID_POS THEN MDNS_INVALID_POS ELSE end + 4
    BY <1>3, <2>2, <2>5, <2>6, Zenon DEF skip_question
  <2>8. CASE 12 + k <= Len(b)
    <3>1. PICK name : name = [at |-> 12, end |-> 12 + Len(s), name |-> Service]
      OBVIOUS
    <3>2. name \in Built(m, 0).names
      BY <1>1, <2>3, <3>1, Zenon
    <3>3. name.at = 12 /\ name.end = 12 + k
      BY <2>4, <3>1
    <3>4. 0 \in Nat /\ 0 <= Len(m.answers) /\ name.end <= Len(Received(m))
      BY <2>8, <3>3, MessageParts
    <3>5. name.name \in Names /\ Reads(b, 12, 12 + k, name.name)
      BY <3>2, <3>3, <3>4, ReceivedReads, Zenon
    <3>6. end = 12 + k
      BY <2>5, <3>5, ReadName, Zenon
    <3>7. 12 + k # MDNS_INVALID_POS
      BY DEF MDNS_INVALID_POS
    <3>8. o = 12 + k + 4
      BY <2>7, <3>6, <3>7, Zenon
    <3> QED BY <1>1, <2>3, <2>4, <3>8
  <2>9. CASE ~(12 + k <= Len(b))
    <3>1. end = MDNS_INVALID_POS \/ (end \in Nat /\ 12 <= end)
      <4>1. 12 \in Nat
        OBVIOUS
      <4> QED BY <1>4, <2>5, <4>1, SkipForward, Zenon
    <3>2. CASE end = MDNS_INVALID_POS
      BY <2>7, <3>2, Zenon
    <3>3. CASE end # MDNS_INVALID_POS
      <4>1. o = end + 4 /\ end \in Nat /\ 12 <= end
        BY <2>7, <3>1, <3>3, Zenon
      <4> QED BY <1>4, <2>4, <2>9, <4>1
    <3> QED BY <3>2, <3>3
  <2> QED BY <2>8, <2>9
<1> QED BY <1>5, <1>6

(* What a packet leaves in namebuffer, and when it counts as a match.      *)
Sound(m, before, r) ==
  /\ r.text \in Buffers
  /\ IsZephyr(r.text) => IsZephyr(before) \/ m \in Offers
  /\ r.match => m \in Offers \/ (IsZephyr(before) /\ HasAddress(m))

(* Of every packet that is received, with anything namebuffer can hold.    *)
LEMMA PacketSound ==
  ASSUME NEW m \in Messages, NEW before \in Buffers
  PROVE  Sound(m, before, check_packet(Received(m), before))
<1>1. PICK b : b = Received(m)
  OBVIOUS
<1>2. PICK o : o = skip_questions(b, HeaderSize, mdns_ntohs(b, 4))
  OBVIOUS
<1>3. PICK r : r = check_packet(b, before)
  OBVIOUS
<1>4. CASE o = MDNS_INVALID_POS
  <2>1. r = [match |-> FALSE, text |-> before]
    BY <1>2, <1>3, <1>4, Zenon DEF check_packet
  <2>2. r.match = FALSE /\ r.text = before
    BY <2>1
  <2>3. Sound(m, before, r)
    BY <2>2, Zenon DEF Sound
  <2> QED BY <1>1, <1>3, <2>3, Zenon
<1>5. CASE o # MDNS_INVALID_POS
  <2>1. o \in Nat /\ (o = Len(Built(m, 0).octets) \/ o + 10 > Len(Received(m)))
    BY <1>1, <1>2, <1>5, QuestionSkipped, Zenon
  <2>2. mdns_ntohs(b, 6) = Len(m.answers)
    BY <1>1, HeaderRead, Zenon
  <2>3. r = mdns_answer_check(Received(m), o, Len(m.answers), before)
    BY <1>1, <1>2, <1>3, <1>5, <2>2, Zenon DEF check_packet
  <2>4. CheckInv(m, before, Len(m.answers),
                 mdns_answer_check(Received(m), o, Len(m.answers), before))
    BY <2>1, CheckAll
  <2>5. CheckInv(m, before, Len(m.answers), r)
    BY <2>3, <2>4, Zenon
  <2>6. Offered(m, Len(m.answers)) => m \in Offers
    <3>1. DOMAIN m.answers = 1..Len(m.answers)
      BY AnswersDomain
    <3> QED BY <3>1, Zenon DEF Offered, Offers
  <2>7. Sound(m, before, r)
    BY <2>5, <2>6, Zenon DEF CheckInv, Sound
  <2> QED BY <1>1, <1>3, <2>7, Zenon
<1> QED BY <1>4, <1>5

(* Hence of every outcome.                                                 *)
LEMMA OutcomeSound ==
  ASSUME NEW o \in Outcomes
  PROVE  o.msg \in Messages /\ o.before \in Buffers /\ Sound(o.msg, o.before, o.result)
<1>1. PICK m \in Messages, b \in Buffers :
        o = [msg |-> m, before |-> b, result |-> check_packet(Received(m), b)]
  BY SMT DEF Outcomes
<1>2. PICK r : r = check_packet(Received(m), b)
  OBVIOUS
<1>3. o = [msg |-> m, before |-> b, result |-> r]
  BY <1>1, <1>2, Zenon
<1>4. o.msg = m /\ o.before = b /\ o.result = r
  BY <1>3
<1>5. Sound(m, b, r)
  BY <1>2, PacketSound
<1> QED BY <1>4, <1>5, Zenon

(* What the packet of a host adds to said.                                 *)
LEMMA SaysParts ==
  ASSUME NEW m
  PROVE  /\ m \in Offers => "offer" \in Says(m)
         /\ HasAddress(m) => "no name" \in Says(m)
  BY Zenon DEF Says, HasAddress

-----------------------------------------------------------------------------
(* What a packet that waits says, its host has said.                       *)
Told == \A f \in Fds : \A i \in DOMAIN rxq[f] : Says(rxq[f][i].msg) \subseteq said[rxq[f][i].from]

(* When a host may be reported, given what each has said.                  *)
Known(told, h) ==
  "offer" \in told[h] \/ ("no name" \in told[h] /\ \E g \in Hosts : "offer" \in told[g])

(* The inductive invariant of Reported: the offers in the queues and in    *)
(* namebuffer have been said.                                              *)
ReportInv ==
  /\ MdnsInv
  /\ Told
  /\ namebuffer \in Buffers
  /\ IsZephyr(namebuffer) => \E g \in Hosts : "offer" \in said[g]
  /\ \A i \in DOMAIN disc.list : Known(said, disc.list[i])

(* It implies the property.                                                *)
LEMMA ReportImplies == ReportInv => Reported
  BY Zenon DEF ReportInv, Reported, Known, IsZephyr

(* It holds when nothing was received.                                     *)
LEMMA ReportInit == Init => ReportInv
<1> SUFFICES ASSUME Init PROVE ReportInv
  OBVIOUS
<1>1. MdnsInv
  BY MdnsInit
<1>2. Told
  BY DEF Init, Told
<1>3. namebuffer \in Buffers /\ ~IsZephyr(namebuffer)
  <2>1. namebuffer = Garbage
    BY DEF Init
  <2> QED BY <2>1, NotZephyr, Zenon DEF Buffers
<1>4. disc.list = <<>>
  BY DEF Init, Sleeping
<1>5. \A i \in DOMAIN disc.list : Known(said, disc.list[i])
  BY <1>4
<1> QED BY <1>1, <1>2, <1>3, <1>5, Zenon DEF ReportInv

(* START, STOP and the connections of nodes only empty queues.             *)
LEMMA ReportControl ==
  ASSUME ReportInv, Control
  PROVE  ReportInv'
<1>1. MdnsInv /\ MdnsInv'
  BY ControlTypes DEF ReportInv
<1>2. UNCHANGED <<namebuffer, said>> /\ disc'.list = disc.list
  <2>1. UNCHANGED <<namebuffer, said>>
    BY DEF Control, tcp_discovery_start, tcp_discovery_stop, node_socket_open,
           node_socket_close, net
  <2>2. PICK s \in BOOLEAN : disc' = [disc EXCEPT !.susp = s] \/ disc' = disc
    BY DEF Control, tcp_discovery_start, tcp_discovery_stop, node_socket_open, node_socket_close
  <2>3. disc'.list = disc.list
    BY <1>1, <2>2 DEF MdnsInv, ThreadTypes, Threads
  <2> QED BY <2>1, <2>3
<1>3. rxq' = rxq \/ \E f : rxq' = [rxq EXCEPT ![f] = <<>>]
  BY Zenon DEF Control, tcp_discovery_start, tcp_discovery_stop, node_socket_open,
               node_socket_close, mdns_socket_open_ipv6, Opened, Closed, sockets
<1>4. Told'
  <2> SUFFICES ASSUME NEW f \in Fds, NEW i \in DOMAIN rxq'[f]
               PROVE  Says(rxq'[f][i].msg) \subseteq said[rxq'[f][i].from]
    BY <1>2, Zenon DEF Told, Says
  <2>1. rxq \in [Fds -> Seq(Datagrams)]
    BY <1>1 DEF MdnsInv, SocketTypes
  <2>2. rxq'[f] = rxq[f] \/ rxq'[f] = <<>>
    BY <1>3, <2>1
  <2>3. DOMAIN <<>> = {}
    OBVIOUS
  <2>4. rxq'[f] = rxq[f]
    BY <2>2, <2>3, Zenon
  <2> QED BY <2>4, Zenon DEF ReportInv, Told
<1> QED BY <1>1, <1>2, <1>4, Zenon DEF ReportInv, Known

(* A packet is queued and told of together.                                *)
LEMMA ReportGroup ==
  ASSUME ReportInv, NEW h \in Hosts, NEW m \in Messages, group_send(h, m)
  PROVE  ReportInv'
<1>1. MdnsInv /\ MdnsInv'
  BY GroupTypes DEF ReportInv
<1>2. /\ UNCHANGED <<namebuffer, disc>> /\ said' = [said EXCEPT ![h] = @ \cup Says(m)]
      /\ rxq' = [f \in Fds |-> IF fds[f] = "mdns" /\ Len(rxq[f]) < MaxQueue
                               THEN Append(rxq[f], [from |-> h, msg |-> m]) ELSE rxq[f]]
  BY DEF group_send
<1>3. \A g \in Hosts : said[g] \subseteq said'[g] /\ (g = h => Says(m) \subseteq said'[g])
  <2>1. said \in [Hosts -> SUBSET {"offer", "no name"}]
    BY <1>1 DEF MdnsInv, HistoryTypes
  <2>2. said'[h] = said[h] \cup Says(m) /\ \A g \in Hosts : g # h => said'[g] = said[g]
    BY <1>2, <2>1
  <2> QED BY <2>2, Zenon
<1>4. Told'
  <2> SUFFICES ASSUME NEW f \in Fds, NEW i \in DOMAIN rxq'[f]
               PROVE  Says(rxq'[f][i].msg) \subseteq said'[rxq'[f][i].from]
    BY Zenon DEF Told, Says
  <2>1. rxq[f] \in Seq(Datagrams)
    BY <1>1 DEF MdnsInv, SocketTypes
  <2>2. PICK d : d = [from |-> h, msg |-> m]
    OBVIOUS
  <2>3. rxq'[f] = rxq[f] \/ rxq'[f] = Append(rxq[f], d)
    BY <1>2, <2>2, Zenon
  <2>4. (i \in DOMAIN rxq[f] /\ rxq'[f][i] = rxq[f][i]) \/ rxq'[f][i] = d
    <3>1. CASE rxq'[f] = rxq[f]
      BY <3>1, Zenon
    <3>2. CASE rxq'[f] = Append(rxq[f], d)
      <4>1. i \in 1..(Len(rxq[f]) + 1)
        BY <2>1, <3>2
      <4>2. \A j \in 1..Len(rxq[f]) : Append(rxq[f], d)[j] = rxq[f][j] /\ j \in DOMAIN rxq[f]
        BY <2>1
      <4>3. Append(rxq[f], d)[Len(rxq[f]) + 1] = d
        BY <2>1
      <4>4. i \in 1..Len(rxq[f]) \/ i = Len(rxq[f]) + 1
        BY <2>1, <4>1
      <4> QED BY <3>2, <4>2, <4>3, <4>4, Zenon
    <3> QED BY <2>3, <3>1, <3>2
  <2>5. CASE i \in DOMAIN rxq[f] /\ rxq'[f][i] = rxq[f][i]
    <3>1. Says(rxq[f][i].msg) \subseteq said[rxq[f][i].from]
      BY <2>5, Zenon DEF ReportInv, Told
    <3>2. rxq[f][i] \in Datagrams
      BY <2>1, <2>5
    <3>3. rxq[f][i].from \in Hosts
      BY <3>2 DEF Datagrams
    <3> QED BY <1>3, <2>5, <3>1, <3>3, Zenon
  <2>6. CASE rxq'[f][i] = d
    <3>1. d.from = h /\ d.msg = m
      BY <2>2
    <3> QED BY <1>3, <2>6, <3>1, Zenon
  <2> QED BY <2>4, <2>5, <2>6
<1>5. ASSUME NEW i \in DOMAIN disc.list PROVE Known(said', disc.list[i])
  <2>1. disc.list[i] \in Hosts
    BY <1>1 DEF MdnsInv, ThreadTypes, Threads
  <2>2. Known(said, disc.list[i])
    BY Zenon DEF ReportInv
  <2> QED BY <1>2, <1>3, <2>1, <2>2, Zenon DEF Known
<1>6. IsZephyr(namebuffer') => \E g \in Hosts : "offer" \in said'[g]
  BY <1>2, <1>3, Zenon DEF ReportInv
<1> QED BY <1>1, <1>2, <1>4, <1>5, <1>6, Zenon DEF ReportInv

(* The thread: what it has received decides who is reported.               *)
LEMMA ReportReceive ==
  ASSUME ReportInv, mdns_query_recv_internal
  PROVE  ReportInv'
<1>1. MdnsInv /\ MdnsInv'
  BY DiscoveryTypes, Zenon DEF ReportInv, Discovery
<1>2. /\ said' = said /\ rxq' = [rxq EXCEPT ![disc.fd] = Tail(@)]
      /\ disc.fd \in Fds /\ rxq[disc.fd] # <<>>
  BY <1>1 DEF mdns_query_recv_internal, net, At, MdnsInv, ThreadTypes
<1>3. PICK q : q = rxq[disc.fd]
  OBVIOUS
<1>4. q \in Seq(Datagrams) /\ q # <<>>
  BY <1>1, <1>2, <1>3 DEF MdnsInv, SocketTypes
<1>5. PICK o \in Outcomes :
        /\ o.msg = Head(q).msg
        /\ o.before \in {namebuffer, Garbage}
        /\ namebuffer' = o.result.text
        /\ disc' = [disc EXCEPT !.pc = "poll",
                      !.list = IF o.result.match THEN Append(@, Head(q).from) ELSE @]
  BY <1>3, Zenon DEF mdns_query_recv_internal
<1>6. PICK h, m : h = Head(q).from /\ m = Head(q).msg
  OBVIOUS
<1>7. Sound(m, o.before, o.result) /\ o.before \in Buffers
  BY <1>5, <1>6, OutcomeSound, Zenon
<1>8. Says(m) \subseteq said[h] /\ h \in Hosts
  <2>1. 1 \in DOMAIN q /\ q[1] = Head(q) /\ Head(q) \in Datagrams
    BY <1>4
  <2>2. Says(q[1].msg) \subseteq said[q[1].from]
    BY <1>2, <1>3, <2>1, Zenon DEF ReportInv, Told
  <2>3. h \in Hosts
    BY <1>6, <2>1 DEF Datagrams
  <2> QED BY <1>6, <2>1, <2>2, <2>3, Zenon
<1>9. IsZephyr(o.before) => \E g \in Hosts : "offer" \in said[g]
  BY <1>5, NotZephyr, Zenon DEF ReportInv
<1>10. namebuffer' \in Buffers /\ (IsZephyr(namebuffer') => \E g \in Hosts : "offer" \in said[g])
  <2>1. m \in Offers => "offer" \in said[h]
    BY <1>8, SaysParts, Zenon
  <2> QED BY <1>5, <1>7, <1>8, <1>9, <2>1, Zenon DEF Sound
<1>11. o.result.match => Known(said, h)
  <2>1. (m \in Offers => "offer" \in said[h]) /\ (HasAddress(m) => "no name" \in said[h])
    BY <1>8, SaysParts, Zenon
  <2> QED BY <1>7, <1>9, <2>1, Zenon DEF Sound, Known
<1>12. \A i \in DOMAIN disc'.list : Known(said, disc'.list[i])
  <2>0. disc \in Threads /\ disc.list \in Seq(Hosts)
    BY <1>1 DEF MdnsInv, ThreadTypes, Threads
  <2>1. CASE o.result.match
    <3>1. disc' = [disc EXCEPT !.pc = "poll", !.list = Append(disc.list, h)]
      BY <1>5, <1>6, <2>1, Zenon
    <3>2. disc'.list = Append(disc.list, h)
      BY <2>0, <3>1 DEF Threads
    <3>3. ASSUME NEW i \in DOMAIN Append(disc.list, h)
          PROVE  (i \in DOMAIN disc.list /\ Append(disc.list, h)[i] = disc.list[i])
                 \/ Append(disc.list, h)[i] = h
      BY <1>8, <2>0
    <3>4. \A i \in DOMAIN disc.list : Known(said, disc.list[i])
      BY Zenon DEF ReportInv
    <3> QED BY <1>11, <2>1, <3>2, <3>3, <3>4, Zenon
  <2>2. CASE ~o.result.match
    <3>1. disc' = [disc EXCEPT !.pc = "poll", !.list = disc.list]
      BY <1>5, <2>2, Zenon
    <3>2. disc'.list = disc.list
      BY <2>0, <3>1 DEF Threads
    <3> QED BY <3>2, Zenon DEF ReportInv
  <2> QED BY <2>1, <2>2
<1>13. Told'
  <2> SUFFICES ASSUME NEW f \in Fds, NEW i \in DOMAIN rxq'[f]
               PROVE  Says(rxq'[f][i].msg) \subseteq said[rxq'[f][i].from]
    BY <1>2, Zenon DEF Told, Says
  <2>1. rxq \in [Fds -> Seq(Datagrams)]
    BY <1>1 DEF MdnsInv, SocketTypes
  <2>2. CASE f = disc.fd
    <3>1. rxq'[f] = Tail(q)
      BY <1>2, <1>3, <2>1, <2>2
    <3>2. \A j \in DOMAIN Tail(q) : j + 1 \in DOMAIN q /\ Tail(q)[j] = q[j + 1]
      BY <1>4
    <3>3. i + 1 \in DOMAIN rxq[f] /\ rxq'[f][i] = rxq[f][i + 1]
      BY <1>3, <2>2, <3>1, <3>2, Zenon
    <3> QED BY <3>3, Zenon DEF ReportInv, Told
  <2>3. CASE f # disc.fd
    <3>1. rxq'[f] = rxq[f]
      BY <1>2, <2>1, <2>3
    <3> QED BY <3>1, Zenon DEF ReportInv, Told
  <2> QED BY <2>2, <2>3
<1>14. \A i \in DOMAIN disc'.list : Known(said', disc'.list[i])
  BY <1>2, <1>12, Zenon
<1> QED BY <1>1, <1>2, <1>10, <1>13, <1>14, Zenon DEF ReportInv

(* The other steps of the thread receive nothing.                          *)
LEMMA ReportThread ==
  ASSUME ReportInv, Discovery, ~mdns_query_recv_internal
  PROVE  ReportInv'
<1>1. MdnsInv /\ MdnsInv'
  BY DiscoveryTypes DEF ReportInv
<1>2. UNCHANGED <<rxq, said, namebuffer>>
  BY DEF Discovery, handler, mdns_query_send, mdns_multicast_send, mdns_send_fails,
         mdns_query_recv, poll_event, poll_ends, recvfrom_fails, node_filter, sockets, net
<1>3. disc'.list = disc.list \/ disc'.list = <<>>
  <2>0. disc \in Threads
    BY <1>1 DEF MdnsInv, ThreadTypes
  <2>1. \/ \E pc : disc' = [disc EXCEPT !.pc = pc]
        \/ disc' = [disc EXCEPT !.pc = "sendto", !.fd = sock]
        \/ disc' = Sleeping(FALSE)
        \/ disc' = [disc EXCEPT !.pc = "poll", !.fd = sock, !.list = <<>>]
    BY Zenon DEF Discovery, handler, mdns_query_send, mdns_multicast_send, mdns_send_fails,
                 mdns_query_recv, poll_event, poll_ends, recvfrom_fails, node_filter, Goto
  <2>2. CASE \E pc : disc' = [disc EXCEPT !.pc = pc]
    BY <2>0, <2>2 DEF Threads
  <2>3. CASE disc' = [disc EXCEPT !.pc = "sendto", !.fd = sock]
    BY <2>0, <2>3 DEF Threads
  <2>4. CASE disc' = Sleeping(FALSE)
    BY <2>4 DEF Sleeping
  <2>5. CASE disc' = [disc EXCEPT !.pc = "poll", !.fd = sock, !.list = <<>>]
    BY <2>0, <2>5 DEF Threads
  <2> QED BY <2>1, <2>2, <2>3, <2>4, <2>5, Zenon
<1>4. \A i \in DOMAIN disc'.list : Known(said', disc'.list[i])
  <2>1. DOMAIN <<>> = {}
    OBVIOUS
  <2>2. \A i \in DOMAIN disc'.list : i \in DOMAIN disc.list /\ disc'.list[i] = disc.list[i]
    BY <1>3, <2>1, Zenon
  <2> QED BY <1>2, <2>2, Zenon DEF ReportInv
<1>5. Told'
  BY <1>2, Zenon DEF ReportInv, Told, Says
<1> QED BY <1>1, <1>2, <1>4, <1>5, Zenon DEF ReportInv

(* An address that is reported is that of a host that offered the          *)
(* instance, or that sent data which is no name after some host had        *)
(* offered it (mdns_answer_check, which does not initialise namebuffer).   *)
THEOREM ReportedCorrect == Spec => []Reported
<1>1. ReportInv /\ [Next]_vars => ReportInv'
  <2> SUFFICES ASSUME ReportInv, [Next]_vars PROVE ReportInv'
    OBVIOUS
  <2>1. CASE UNCHANGED vars
    <3>1. MdnsInv'
      <4>1. MdnsInv
        BY Zenon DEF ReportInv
      <4> QED BY <2>1, <4>1 DEF vars, sockets, net, MdnsInv, SocketTypes, ThreadTypes, HistoryTypes
    <3>2. UNCHANGED <<rxq, said, namebuffer, disc>>
      BY <2>1 DEF vars, sockets, net
    <3> QED BY <3>1, <3>2, Zenon DEF ReportInv, Told, Known, Says
  <2> QED BY <2>1, ReportControl, ReportGroup, ReportReceive, ReportThread DEF Next
<1> QED BY <1>1, ReportInit, ReportImplies, PTL DEF Spec

(* Each name of a packet that waits is skipped to its end and copied out   *)
(* as its text.                                                            *)
THEOREM NamesReadCorrect == Spec => []NamesRead
<1>1. TypeOK => NamesRead
  BY MessagesWellRead DEF TypeOK, NamesRead
<1> QED BY <1>1, MdnsTyped, PTL
=============================================================================
