-------------------------- MODULE NodeBridge_proofs --------------------------
(***************************************************************************)
(* Proofs about the bridge, for every number of nodes, interfaces and      *)
(* descriptors, with and without time slicing, and for every behaviour of  *)
(* the nodes: the messages of the SVC always go to AP cport 0, and every   *)
(* variable keeps its type.  While the nodes keep their connections, the   *)
(* bridge uses no freed block, both copies of a socket agree, and messages *)
(* reach and come from the node that the AP connected.                     *)
(***************************************************************************)
EXTENDS NodeBridge, Lookup_proofs, SequenceTheorems, FiniteSetTheorems

-----------------------------------------------------------------------------
(* The entry of AP cport 0 looks like cport 0 of the SVC: it is the SVC's  *)
(* or zeroed.  A connection that wq is making is for another AP cport.     *)
SvcRouteInv ==
  /\ DOMAIN node_ap_map = ApCports
  /\ node_ap_map[0].node_id = SVC_INF_ID
  /\ node_ap_map[0].node_cport = 0
  /\ "pc" \in DOMAIN wq
  /\ wq.pc = "connect" => wq.ap_cport # 0

(* What the invariant is for.                                              *)
LEMMA SvcRouteInvImplies == SvcRouteInv => SvcAtCportZero
<1> SUFFICES ASSUME SvcRouteInv PROVE SvcAtCportZero
  OBVIOUS
<1> DEFINE S == {i \in DOMAIN node_ap_map : node_ap_map[i].node_id = SVC_INF_ID
                                            /\ node_ap_map[i].node_cport = 0}
<1>1. S \in SUBSET Nat /\ 0 \in S
  BY ConstantsAssumption DEF SvcRouteInv, ApCports
<1>2. FirstIndex(S) = 0
  BY <1>1, FirstIndexZero
<1> QED BY <1>2 DEF SvcAtCportZero, node_to_ap_cport

(* The invariant holds at power-up.                                        *)
LEMMA SvcRouteInit == Init => SvcRouteInv
  BY ConstantsAssumption DEF Init, SvcRouteInv, NoConnection, WqIdle, ApCports

(* node_ap_add for another cport leaves the entry of cport 0 alone.        *)
LEMMA AddKeepsZero ==
  ASSUME SvcRouteInv,
         NEW ap_cport, NEW id, NEW cport, NEW b, ap_cport # 0,
         connection_create_add(ap_cport, id, cport, b)
  PROVE  /\ DOMAIN node_ap_map' = ApCports
         /\ node_ap_map'[0] = node_ap_map[0]
  BY ConstantsAssumption
  DEF SvcRouteInv, connection_create_add, node_ap_add, ApCports

(* Every step of wq preserves the invariant.                               *)
LEMMA WqKeepsRoute ==
  ASSUME SvcRouteInv, WqStep
  PROVE  SvcRouteInv'
<1>1. CASE control_svc_start
  BY <1>1, ConstantsAssumption
  DEF control_svc_start, SvcRouteInv, node_ap_add, SVC_INF_ID, ApCports
<1>2. CASE control_svc_stop
  <2>1. wq' = [WqIdle EXCEPT !.pc = "stop", !.idx = 0]
    BY <1>2 DEF control_svc_stop
  <2>2. wq'.pc = "stop" /\ "pc" \in DOMAIN wq'
    BY <2>1 DEF WqIdle
  <2> QED BY <1>2, <2>2 DEF control_svc_stop, SvcRouteInv, bridge
<1>3. CASE node_destroy_all_next
  <2>1. CASE UNCHANGED <<node_ap_map, wq>>
    BY <2>1 DEF SvcRouteInv
  <2>2. CASE UNCHANGED node_ap_map /\ wq' = [wq EXCEPT !.idx = @ + 1]
    <3>1. wq'.pc = "stop" /\ "pc" \in DOMAIN wq'
      BY <1>3, <2>2 DEF node_destroy_all_next, SvcRouteInv
    <3> QED BY <2>2, <3>1 DEF SvcRouteInv
  <2> QED BY <1>3, <2>1, <2>2 DEF node_destroy_all_next, Crash, bridge
<1>4. CASE node_destroy_all_done
  <2>1. CASE UNCHANGED <<node_ap_map, wq>>
    BY <2>1 DEF SvcRouteInv
  <2>2. CASE wq' = WqIdle /\ node_ap_map' = [c \in ApCports |-> NoConnection]
    BY <2>2, ConstantsAssumption DEF SvcRouteInv, WqIdle, NoConnection, ApCports
  <2> QED BY <1>4, <2>1, <2>2 DEF node_destroy_all_done, Crash, bridge
<1>5. ASSUME NEW c \in ApCports, NEW id \in InterfaceIds, NEW n \in NodeCports,
             svc_connection_create(c, id, n)
      PROVE  SvcRouteInv'
  <2>1. c # 0
    BY <1>5 DEF svc_connection_create, ApMayConnect
  <2>2. CASE UNCHANGED <<node_ap_map, wq>>
    BY <2>2 DEF SvcRouteInv
  <2>3. CASE UNCHANGED wq /\ \E b : connection_create_add(c, id, n, b)
    BY <2>1, <2>3, AddKeepsZero DEF SvcRouteInv
  <2>4. CASE UNCHANGED node_ap_map /\ "pc" \in DOMAIN wq' /\ wq'.ap_cport = c
    BY <2>1, <2>4 DEF SvcRouteInv
  <2> QED BY <1>5, <2>2, <2>3, <2>4 DEF svc_connection_create, Crash, bridge
<1>6. CASE node_connected
  <2>1. wq.ap_cport # 0
    BY <1>6 DEF node_connected, SvcRouteInv
  <2>2. CASE UNCHANGED <<node_ap_map, wq>>
    BY <2>2 DEF SvcRouteInv
  <2>3. CASE /\ wq' = WqIdle
             /\ \E b : connection_create_add(wq.ap_cport, wq.id, wq.cport, b)
    BY <2>1, <2>3, AddKeepsZero DEF SvcRouteInv, WqIdle
  <2> QED BY <1>6, <2>2, <2>3 DEF node_connected, Crash, bridge
<1>7. CASE node_connect_failed
  BY <1>7 DEF node_connect_failed, SvcRouteInv, bridge, WqIdle
<1>8. ASSUME NEW c \in ApCports, svc_connection_destroy(c)
      PROVE  SvcRouteInv'
  BY <1>8, ConstantsAssumption
  DEF svc_connection_destroy, SvcRouteInv, node_ap_remove, NoConnection, ApCports
<1>9. ASSUME NEW c \in ApCports, ap_rx_submit(c)
      PROVE  SvcRouteInv'
  BY <1>9 DEF ap_rx_submit, SvcRouteInv, Crash, bridge
<1>10. CASE node_inf_write_ok
  BY <1>10 DEF node_inf_write_ok, SvcRouteInv, bridge, WqIdle
<1>11. CASE gb_message_send_failed
  <2>1. CASE UNCHANGED <<node_ap_map, wq>>
    BY <2>1 DEF SvcRouteInv
  <2>2. CASE UNCHANGED node_ap_map /\ wq' = [wq EXCEPT !.pc = "write_failed"]
    <3>1. wq'.pc = "write_failed" /\ "pc" \in DOMAIN wq'
      BY <2>2 DEF SvcRouteInv
    <3> QED BY <2>2, <3>1 DEF SvcRouteInv
  <2> QED BY <1>11, <2>1, <2>2 DEF gb_message_send_failed, Crash, bridge
<1>12. CASE node_inf_write_failed
  BY <1>12 DEF node_inf_write_failed, SvcRouteInv, Crash, bridge, WqIdle
<1> QED
  BY <1>1, <1>2, <1>3, <1>4, <1>5, <1>6, <1>7, <1>8, <1>9, <1>10, <1>11, <1>12
  DEF WqStep

(* The other threads and the nodes leave the table and wq alone.           *)
LEMMA OthersKeepRoute ==
  ASSUME RxStep \/ DiscStep \/ PeerStep
  PROVE  UNCHANGED <<node_ap_map, wq>>
<1>1. CASE RxStep
  BY <1>1
  DEF RxStep, node_rx_thread_start, node_rx_populate, node_rx_fds_len,
      node_rx_poll_failed, node_rx_poll, node_rx_dispatch, node_rx_receive,
      node_rx_remove, node_rx_close, node_rx_unlink, node_rx_shrink, node_rx_move,
      node_rx_free, Crash, bridge
<1>2. CASE DiscStep
  BY <1>2
  DEF DiscStep, node_filter, node_create_interface, node_cache_add_fill,
      node_cache_add_commit, svc_send_module_inserted, Crash, bridge
<1>3. CASE PeerStep
  BY <1>3
  DEF PeerStep, ap_module_removed, PeerSendsPart, PeerSends, PeerCloses, PeerResets,
      bridge
<1> QED BY <1>1, <1>2, <1>3

(* Whatever the AP connects and disconnects, whenever it stops, starts or  *)
(* reboots, and whatever the nodes do meanwhile, node_to_ap_cport sends    *)
(* the requests and responses of the SVC to AP cport 0.                    *)
THEOREM SvcReachesAp == Spec => []SvcAtCportZero
<1>1. Init => SvcRouteInv
  BY SvcRouteInit
<1>2. SvcRouteInv /\ [Next]_vars => SvcRouteInv'
  <2> SUFFICES ASSUME SvcRouteInv, [Next]_vars PROVE SvcRouteInv'
    OBVIOUS
  <2>1. CASE WqStep
    BY <2>1, WqKeepsRoute
  <2>2. CASE RxStep \/ DiscStep \/ PeerStep \/ UNCHANGED vars
    <3>1. UNCHANGED <<node_ap_map, wq>>
      BY <2>2, OthersKeepRoute DEF vars, bridge
    <3> QED BY <3>1 DEF SvcRouteInv
  <2> QED BY <2>1, <2>2 DEF Next
<1>3. SvcRouteInv => SvcAtCportZero
  BY SvcRouteInvImplies
<1> QED BY <1>1, <1>2, <1>3, PTL DEF Spec

-----------------------------------------------------------------------------
(* Types, by component.                                                    *)

Slots      == [sock : {-1} \cup Fds \cup {0}, id : InterfaceIds \cup {0},
               addr : Addrs \cup {NoAddr}, inf : IntfBlocks \cup {NULL}]
Interfaces == [used : BOOLEAN, id : InterfaceIds \cup {0}, ctrl : CtrlBlocks \cup {NULL}]
Controls   == [used : BOOLEAN, sock : {-1} \cup Fds]
Sockets    == [open : BOOLEAN, owner : InterfaceIds \cup {0}, peer : {"up", "eof", "err"},
               part : BOOLEAN, inq : Seq(NodeCports), stray : BOOLEAN]
Routes     == [node_intf : IntfBlocks \cup {NULL, SVC_INTF},
               node_cport : NodeCports \cup {0}, node_id : InterfaceIds \cup {SVC_INF_ID}]
Pipes      == [open : BOOLEAN, bytes : Nat]
WqStates   == [pc : {"idle", "connect", "send", "write_failed", "stop"},
               inf : IntfBlocks \cup {NULL}, idx : Int, fd : {-1} \cup Fds,
               ap_cport : ApCports, id : InterfaceIds \cup {0},
               cport : NodeCports \cup {0}]
Messages   == [cport : NodeCports \cup {-1}, from : InterfaceIds \cup {0}]
RxPcs      == {"wait", "ended", "populate", "length", "poll", "loop", "recv", "remove",
               "destroy", "unlink", "shrink", "move", "free"}
Polled     == {-1} \cup Fds \cup {0} \cup StaleFds
RxStates   == [pc : RxPcs, fds : Seq(Polled), rev : Seq(PollResults), i : Nat, idx : Int,
               inf : IntfBlocks \cup {NULL}, id : InterfaceIds \cup {0},
               pos : 0..MaxNodes, flag : BOOLEAN, msg : Messages]
DiscStates == [pc : {"sleep", "create", "fill", "commit", "announce"}, susp : BOOLEAN,
               addr : Addrs \cup {NoAddr}, inf : IntfBlocks \cup {NULL},
               id : InterfaceIds \cup {0}, pos : Nat]
Hosts      == [up : BOOLEAN, seen : [InterfaceIds -> Nat], conn : [ApCports -> Connections]]
FromNode   == [from : InterfaceIds \cup {0}, cport : NodeCports, ap_cport : ApCports,
               at : Connections, elsewhere : BOOLEAN]
ToNode     == [to : InterfaceIds \cup {0}, at : InterfaceIds \cup {0}, whole : BOOLEAN]
Counts     == [node : Nat, ap : Nat]
Faults     == {"none", "assert", "null_write", "stale_write", "stale_remove",
               "stale_connect", "stale_announce", "wild_free", "underflow"}

(* A block that is in use has its id and its control block.                *)
TablesInv ==
  /\ cache \in [CacheSlots -> Slots]
  /\ pos \in 0..MaxNodes
  /\ intf \in [IntfBlocks -> Interfaces]
  /\ ctrl \in [CtrlBlocks -> Controls]
  /\ sock \in [Fds -> Sockets]
  /\ \A b \in IntfBlocks : intf[b].used => intf[b].id \in InterfaceIds
                                           /\ intf[b].ctrl \in CtrlBlocks

IdsInv == id_counter \in InterfaceIds /\ created \in Nat

BridgeInv ==
  /\ node_ap_map \in [ApCports -> Routes]
  /\ svc_ready \in BOOLEAN
  /\ pipe \in Pipes

WqInv == wq \in WqStates /\ (wq.pc = "connect" => wq.fd \in Fds)

(* Where rx goes through the results of a poll.                            *)
Looping == {"loop", "recv", "remove", "destroy", "unlink", "shrink", "move", "free"}

(* What rx found readable is a descriptor, the index of a node that it     *)
(* holds is one of the array, and so is the entry that it moves.           *)
RxInv ==
  /\ rx \in RxStates
  /\ rx.i >= 1
  /\ rx.pc \in Looping =>
       /\ DOMAIN rx.rev = DOMAIN rx.fds
       /\ \A j \in DOMAIN rx.fds : rx.rev[j] = "POLLIN" => rx.fds[j] \in Fds
  /\ rx.pc = "recv" => rx.fds[rx.i] \in Fds /\ rx.idx \in CacheSlots
  /\ rx.pc \in {"shrink", "move"} => rx.idx \in CacheSlots
  /\ rx.pc = "move" => rx.pos \in CacheSlots

DiscInv ==
  /\ disc \in DiscStates
  /\ disc.pc = "fill" => disc.inf \in IntfBlocks

(* Between the two steps of node_cache_add there is room for the entry.    *)
FillInv == disc.pc = "commit" => disc.pos \in CacheSlots /\ pos \in CacheSlots

HostInv == ins \in [InterfaceIds -> Nat] /\ rem \in [InterfaceIds -> Nat] /\ ap \in Hosts

HistoryInv ==
  /\ from_nodes \subseteq FromNode
  /\ to_nodes \subseteq ToNode
  /\ sent \in Counts
  /\ astray \in BOOLEAN

FaultInv == fault \in Faults

TypeInv ==
  /\ TablesInv /\ IdsInv /\ BridgeInv /\ WqInv /\ RxInv /\ DiscInv /\ FillInv
  /\ HostInv /\ HistoryInv /\ FaultInv

(* The parts are what TypeOK says.                                         *)
LEMMA TypeInvImplies == TypeInv => TypeOK
<1> SUFFICES ASSUME TypeInv PROVE TypeOK
  OBVIOUS
<1>1. rx \in [pc : {"wait", "ended", "populate", "length", "poll", "loop", "recv", "remove",
                   "destroy", "unlink", "shrink", "move", "free"},
             fds : Seq({-1} \cup Fds \cup {0} \cup StaleFds), rev : Seq(PollResults),
             i : Nat, idx : Int, inf : IntfBlocks \cup {NULL},
             id : InterfaceIds \cup {0}, pos : 0..MaxNodes, flag : BOOLEAN,
             msg : [cport : NodeCports \cup {-1}, from : InterfaceIds \cup {0}]]
  BY Zenon DEF TypeInv, RxInv, RxStates, Messages, RxPcs, Polled
<1> QED
  BY <1>1, Zenon
  DEF TypeOK, TypeInv, TablesInv, IdsInv, BridgeInv, WqInv, DiscInv, HostInv, HistoryInv,
      FaultInv, Slots, Interfaces, Controls, Sockets, Routes, Pipes, WqStates,
      DiscStates, Hosts, FromNode, ToNode, Counts, Faults

(* Values that the actions write.                                          *)
LEMMA Values ==
  /\ EmptySlot \in Slots
  /\ FreeIntf \in Interfaces
  /\ FreeCtrl \in Controls
  /\ ClosedSocket \in Sockets
  /\ NoConnection \in Routes
  /\ NotConnected \in Connections
  /\ NoMsg \in Messages
  /\ WqIdle \in WqStates
  /\ \A s \in BOOLEAN : DiscSleeping(s) \in DiscStates
<1>1. 0 \in ApCports
  BY ConstantsAssumption DEF ApCports
<1>2. ClosedSocket \in Sockets
  BY DEF ClosedSocket, Sockets
<1>3. WqIdle \in WqStates
  BY <1>1 DEF WqIdle, WqStates
<1>4. ASSUME NEW s \in BOOLEAN PROVE DiscSleeping(s) \in DiscStates
  BY DEF DiscSleeping, DiscStates
<1>5. EmptySlot \in Slots
  BY DEF EmptySlot, Slots
<1>6. FreeIntf \in Interfaces
  BY DEF FreeIntf, Interfaces
<1>7. FreeCtrl \in Controls
  BY DEF FreeCtrl, Controls
<1>8. NoConnection \in Routes
  BY DEF NoConnection, Routes
<1>9. NotConnected \in Connections
  BY DEF NotConnected, Connections
<1>10. NoMsg \in Messages
  BY DEF NoMsg, Messages
<1> QED BY <1>2, <1>3, <1>4, <1>5, <1>6, <1>7, <1>8, <1>9, <1>10

(* The types hold at power-up.                                             *)
LEMMA TypeInit == Init => TypeInv
<1> SUFFICES ASSUME Init PROVE TypeInv
  OBVIOUS
<1>1. TablesInv
  <2>1. pos \in 0..MaxNodes
    BY ConstantsAssumption DEF Init
  <2>2. \A b \in IntfBlocks : ~intf[b].used
    BY DEF Init, FreeIntf
  <2> QED BY <2>1, <2>2, Values DEF Init, TablesInv
<1>2. IdsInv
  BY ConstantsAssumption DEF Init, IdsInv, InterfaceIds, INTERFACE_ID_START
<1>3. BridgeInv
  <2>1. pipe \in Pipes
    BY DEF Init, Pipes
  <2> QED BY <2>1, Values DEF Init, BridgeInv
<1>4. WqInv
  BY Values DEF Init, WqInv, WqIdle
<1>5. RxInv
  <2>1. <<>> \in Seq(Polled) /\ <<>> \in Seq(PollResults) /\ 0 \in 0..MaxNodes
    BY ConstantsAssumption
  <2>2. rx \in RxStates
    BY <2>1, Values DEF Init, RxStates, RxPcs
  <2>3. rx.pc = "wait" /\ rx.i >= 1
    BY DEF Init
  <2> QED BY <2>2, <2>3 DEF RxInv, Looping
<1>6. DiscInv /\ disc.pc = "sleep"
  BY Values DEF Init, DiscInv, DiscSleeping
<1>7. FillInv
  BY <1>6 DEF FillInv
<1>8. HostInv
  <2>1. ins \in [InterfaceIds -> Nat] /\ rem \in [InterfaceIds -> Nat]
    BY DEF Init
  <2>2. [c \in ApCports |-> NotConnected] \in [ApCports -> Connections]
    BY Values
  <2>3. ap \in Hosts
    BY <2>1, <2>2 DEF Init, Hosts
  <2> QED BY <2>1, <2>3 DEF HostInv
<1>9. HistoryInv /\ FaultInv
  BY DEF Init, HistoryInv, Counts, FaultInv, Faults
<1> QED BY <1>1, <1>2, <1>3, <1>4, <1>5, <1>6, <1>7, <1>8, <1>9 DEF TypeInv

-----------------------------------------------------------------------------
(* What the searches return.                                               *)

(* The index of a node in the cache is one in use.                         *)
LEMMA CacheIndex ==
  ASSUME NEW n \in 0..MaxNodes, NEW c, NEW x
  PROVE  /\ node_cache_find_by_id(c, n, x) >= 0 =>
              /\ node_cache_find_by_id(c, n, x) \in CacheSlots
              /\ node_cache_find_by_id(c, n, x) < n
              /\ c[node_cache_find_by_id(c, n, x)].id = x
         /\ node_cache_find_by_sock(c, n, x) >= 0 =>
              /\ node_cache_find_by_sock(c, n, x) \in CacheSlots
              /\ node_cache_find_by_sock(c, n, x) < n
              /\ c[node_cache_find_by_sock(c, n, x)].sock = x
<1> DEFINE S == {i \in 0..(n - 1) : c[i].id = x}
           T == {i \in 0..(n - 1) : c[i].sock = x}
<1>1. S \in SUBSET Nat /\ T \in SUBSET Nat
  BY ConstantsAssumption
<1>2. /\ FirstIndex(S) >= 0 => FirstIndex(S) \in S
      /\ FirstIndex(T) >= 0 => FirstIndex(T) \in T
  <2> HIDE DEF S, T
  <2> QED BY <1>1, FirstIndexFound
<1>3. \A i \in 0..(n - 1) : i \in CacheSlots /\ i < n
  BY ConstantsAssumption DEF CacheSlots
<1> QED
  BY <1>2, <1>3 DEF node_cache_find_by_id, node_cache_find_by_sock

(* A free descriptor, a free control block, the AP cport of a connection.  *)
LEMMA FreeIndex ==
  /\ zsock_socket >= 0 => zsock_socket \in Fds /\ ~sock[zsock_socket].open
  /\ free_ctrl >= 0 => free_ctrl \in CtrlBlocks /\ ~ctrl[free_ctrl].used
<1> DEFINE S == {f \in Fds : ~sock[f].open}
           T == {c \in CtrlBlocks : ~ctrl[c].used}
<1>1. S \in SUBSET Nat /\ T \in SUBSET Nat
  BY ConstantsAssumption DEF Fds, CtrlBlocks
<1>2. /\ FirstIndex(S) >= 0 => FirstIndex(S) \in S
      /\ FirstIndex(T) >= 0 => FirstIndex(T) \in T
  <2>1. ASSUME NEW U \in SUBSET Nat PROVE FirstIndex(U) >= 0 => FirstIndex(U) \in U
    BY FirstIndexFound
  <2> HIDE DEF S, T
  <2> QED BY <1>1, <2>1
<1> QED BY <1>2 DEF zsock_socket, free_ctrl

(* The AP cport that node_to_ap_cport finds is connected as asked for.     *)
LEMMA RouteIndex ==
  ASSUME NEW m \in [ApCports -> Routes], NEW id, NEW cport,
         node_to_ap_cport(m, id, cport) >= 0
  PROVE  /\ node_to_ap_cport(m, id, cport) \in ApCports
         /\ m[node_to_ap_cport(m, id, cport)].node_id = id
         /\ m[node_to_ap_cport(m, id, cport)].node_cport = cport
<1> DEFINE S == {i \in DOMAIN m : m[i].node_id = id /\ m[i].node_cport = cport}
<1>1. S \in SUBSET Nat
  BY ConstantsAssumption DEF ApCports
<1>2. FirstIndex(S) >= 0 => FirstIndex(S) \in S
  <2> HIDE DEF S
  <2> QED BY <1>1, FirstIndexFound
<1> QED BY <1>2 DEF node_to_ap_cport

-----------------------------------------------------------------------------
(* Every step keeps the types.                                             *)

(* What a step leaves alone keeps its type.                                *)
LEMMA Kept ==
  ASSUME TypeInv
  PROVE  /\ UNCHANGED tables => TablesInv'
         /\ UNCHANGED ids => IdsInv'
         /\ UNCHANGED bridge => BridgeInv'
         /\ UNCHANGED wq => WqInv'
         /\ UNCHANGED rx => RxInv'
         /\ UNCHANGED disc => DiscInv'
         /\ UNCHANGED <<cache, pos, disc>> => FillInv'
         /\ UNCHANGED host => HostInv'
         /\ UNCHANGED history => HistoryInv'
         /\ UNCHANGED fault => FaultInv'
<1>1. UNCHANGED tables => TablesInv'
  BY DEF TypeInv, TablesInv, tables
<1>2. UNCHANGED ids => IdsInv'
  BY DEF TypeInv, IdsInv, ids
<1>3. UNCHANGED bridge => BridgeInv'
  BY DEF TypeInv, BridgeInv, bridge
<1>4. UNCHANGED wq => WqInv'
  BY DEF TypeInv, WqInv
<1>5. UNCHANGED rx => RxInv'
  BY DEF TypeInv, RxInv
<1>6. UNCHANGED disc => DiscInv'
  BY DEF TypeInv, DiscInv
<1>7. UNCHANGED <<cache, pos, disc>> => FillInv'
  BY DEF TypeInv, FillInv
<1>8. UNCHANGED host => HostInv'
  BY DEF TypeInv, HostInv, host
<1>9. UNCHANGED history => HistoryInv'
  BY DEF TypeInv, HistoryInv, history
<1>10. UNCHANGED fault => FaultInv'
  BY DEF TypeInv, FaultInv
<1> QED
  BY <1>1, <1>2, <1>3, <1>4, <1>5, <1>6, <1>7, <1>8, <1>9, <1>10

(* A crash changes nothing but fault.                                      *)
LEMMA CrashTyped ==
  ASSUME TypeInv, NEW kind \in Faults, Crash(kind)
  PROVE  TypeInv'
<1>1. UNCHANGED <<tables, ids, bridge, wq, rx, disc, host, history>> /\ fault' = kind
  BY DEF Crash
<1>2. UNCHANGED <<cache, pos, disc>>
  BY <1>1 DEF tables
<1>3. FaultInv'
  BY <1>1 DEF FaultInv
<1> QED BY <1>1, <1>2, <1>3, Kept DEF TypeInv

(* The blocks are freed.                                                   *)
LEMMA FreeTyped ==
  ASSUME TablesInv, NEW b, free_blocks(b), UNCHANGED sock,
         cache' \in [CacheSlots -> Slots], pos' \in 0..MaxNodes
  PROVE  TablesInv' /\ FaultInv'
<1>1. /\ ctrl' = [ctrl EXCEPT ![intf[b].ctrl] = FreeCtrl]
      /\ intf' = [intf EXCEPT ![b] = FreeIntf]
      /\ k_mem_slab_free
  BY DEF free_blocks
<1>2. ctrl' \in [CtrlBlocks -> Controls]
  BY <1>1, Values DEF TablesInv
<1>3. intf' \in [IntfBlocks -> Interfaces]
  BY <1>1, Values DEF TablesInv
<1>4. ASSUME NEW d \in IntfBlocks, intf'[d].used
      PROVE  intf'[d].id \in InterfaceIds /\ intf'[d].ctrl \in CtrlBlocks
  <2>1. d # b
    <3>1. d = b => intf'[d] = FreeIntf
      BY <1>1 DEF TablesInv
    <3>2. ~FreeIntf.used
      BY DEF FreeIntf
    <3> QED BY <1>4, <3>1, <3>2
  <2>2. intf'[d] = intf[d]
    BY <1>1, <2>1 DEF TablesInv
  <2> QED BY <1>4, <2>2 DEF TablesInv
<1>5. FaultInv'
  BY <1>1 DEF k_mem_slab_free, FaultInv, Faults
<1>6. TablesInv'
  BY <1>2, <1>3, <1>4 DEF TablesInv
<1> QED BY <1>5, <1>6

(* node_destroy_interface in one go.                                       *)
LEMMA DestroyTyped ==
  ASSUME TypeInv, NEW b, node_destroy_interface(b), UNCHANGED disc
  PROVE  TablesInv' /\ FillInv' /\ FaultInv'
<1> DEFINE c == intf[b].ctrl
           k == node_cache_find_by_id(cache, pos, intf[b].id)
<1>1. /\ sock' = close_node_sock(ctrl[c].sock)
      /\ cache' = IF k >= 0 THEN node_cache_remove_at(cache, pos, k) ELSE cache
      /\ pos' = IF k >= 0 THEN pos - 1 ELSE pos
      /\ ctrl' = [ctrl EXCEPT ![c] = FreeCtrl]
      /\ intf' = [intf EXCEPT ![b] = FreeIntf]
      /\ k_mem_slab_free
  BY DEF node_destroy_interface, free_blocks
<1>2. TablesInv /\ FillInv
  BY DEF TypeInv
<1>3. pos \in 0..MaxNodes
  BY <1>2 DEF TablesInv
<1>4. k >= 0 => k \in CacheSlots /\ k < pos
  BY <1>3, CacheIndex
<1> HIDE DEF c, k
<1>5. k >= 0 => pos - 1 \in CacheSlots /\ pos - 1 \in 0..MaxNodes
  BY <1>3, <1>4, ConstantsAssumption DEF CacheSlots
<1>6. sock' \in [Fds -> Sockets]
  BY <1>1, <1>2, Values DEF TablesInv, close_node_sock
<1>7. cache' \in [CacheSlots -> Slots]
  BY <1>1, <1>2, <1>5 DEF TablesInv, node_cache_remove_at
<1>8. pos' \in 0..MaxNodes /\ pos' <= pos
  BY <1>1, <1>3, <1>5
<1>9. ctrl' \in [CtrlBlocks -> Controls]
  BY <1>1, <1>2, Values DEF TablesInv
<1>10. intf' \in [IntfBlocks -> Interfaces]
  BY <1>1, <1>2, Values DEF TablesInv
<1>11. ASSUME NEW d \in IntfBlocks, intf'[d].used
       PROVE  intf'[d].id \in InterfaceIds /\ intf'[d].ctrl \in CtrlBlocks
  <2>1. d # b
    <3>1. d = b => intf'[d] = FreeIntf
      BY <1>1, <1>2 DEF TablesInv
    <3>2. ~FreeIntf.used
      BY DEF FreeIntf
    <3> QED BY <1>11, <3>1, <3>2
  <2>2. intf'[d] = intf[d]
    BY <1>1, <1>2, <2>1 DEF TablesInv
  <2> QED BY <1>2, <1>11, <2>2 DEF TablesInv
<1>12. FillInv'
  BY <1>1, <1>2, <1>5 DEF FillInv
<1>13. FaultInv'
  BY <1>1 DEF k_mem_slab_free, FaultInv, Faults
<1>14. TablesInv'
  BY <1>6, <1>7, <1>8, <1>9, <1>10, <1>11 DEF TablesInv
<1> QED BY <1>12, <1>13, <1>14

(* svc_send_module_removed counts the request and destroys.                *)
LEMMA RemovedTyped ==
  ASSUME TypeInv, NEW b, svc_send_module_removed(b), UNCHANGED <<disc, ins, ap>>
  PROVE  TablesInv' /\ FillInv' /\ HostInv' /\ FaultInv'
<1>1. rem' \in [InterfaceIds -> Nat]
  <2>1. rem \in [InterfaceIds -> Nat] /\ rem' = [rem EXCEPT ![intf[b].id] = @ + 1]
    BY DEF svc_send_module_removed, TypeInv, HostInv
  <2>2. \A x \in InterfaceIds : rem[x] + 1 \in Nat
    BY <2>1
  <2> QED BY <2>1, <2>2
<1>2. HostInv'
  BY <1>1 DEF TypeInv, HostInv
<1> QED BY <1>2, DestroyTyped DEF svc_send_module_removed

(* A host that has just started or stopped.                                *)
LEMMA FreshHostTyped ==
  ASSUME HostInv, NEW up \in BOOLEAN
  PROVE  FreshHost(up) \in Hosts
<1>1. [c \in ApCports |-> NotConnected] \in [ApCports -> Connections]
  BY Values
<1> QED BY <1>1 DEF HostInv, FreshHost, Hosts

(* A host after a change of one connection.                                *)
LEMMA ConnTyped ==
  ASSUME HostInv, NEW c, NEW r \in Connections,
         ap' = [ap EXCEPT !.conn[c] = r], UNCHANGED <<ins, rem>>
  PROVE  HostInv'
<1>1. ap \in Hosts
  BY DEF HostInv
<1>2. [ap.conn EXCEPT ![c] = r] \in [ApCports -> Connections]
  BY <1>1 DEF Hosts
<1>3. ap' = [ap EXCEPT !.conn = [ap.conn EXCEPT ![c] = r]]
  BY <1>1 DEF Hosts
<1>4. ap' \in Hosts
  BY <1>1, <1>2, <1>3, Zenon DEF Hosts
<1> QED BY <1>4 DEF HostInv

(* The table and the host after connection_create.                         *)
LEMMA AddTyped ==
  ASSUME TypeInv, NEW c \in ApCports, NEW id \in InterfaceIds \cup {0},
         NEW n \in NodeCports \cup {0}, NEW b \in IntfBlocks,
         connection_create_add(c, id, n, b), UNCHANGED <<ins, rem>>
  PROVE  node_ap_map' \in [ApCports -> Routes] /\ HostInv'
<1>1. node_ap_map \in [ApCports -> Routes] /\ HostInv
  BY DEF TypeInv, BridgeInv
<1>2. CASE UNCHANGED <<node_ap_map, ap>>
  BY <1>1, <1>2 DEF HostInv
<1>3. CASE /\ node_ap_map' = node_ap_add(node_ap_map, c, n, b, intf[b].id)
           /\ ApConnected(c, id, n)
  <2>1. intf[b].id \in InterfaceIds \cup {0}
    BY DEF TypeInv, TablesInv, Interfaces
  <2>2. [node_intf |-> b, node_cport |-> n, node_id |-> intf[b].id] \in Routes
    BY <2>1 DEF Routes, SVC_INF_ID
  <2>3. node_ap_map' \in [ApCports -> Routes]
    BY <1>1, <1>3, <2>2 DEF node_ap_add
  <2> DEFINE r == [st |-> IF ins[id] > ap.seen[id] THEN "open" ELSE "closing",
                   id |-> id, cport |-> n]
  <2>4. r \in Connections
    BY DEF Connections
  <2>5. ap' = [ap EXCEPT !.conn[c] = r]
    BY <1>3 DEF ApConnected
  <2> HIDE DEF r
  <2>6. HostInv'
    BY <1>1, <2>4, <2>5, ConnTyped
  <2> QED BY <2>3, <2>6
<1> QED BY <1>2, <1>3 DEF connection_create_add

(* START keeps the types: the host is fresh, entry 0 is the SVC's.         *)
LEMMA StartTyped ==
  ASSUME TypeInv, control_svc_start
  PROVE  TypeInv'
<1>1. UNCHANGED <<tables, ids, wq, rx, history, fault>>
  BY DEF control_svc_start
<1>2. HostInv'
  <2>1. ap' = FreshHost(TRUE) /\ UNCHANGED <<ins, rem>>
    BY DEF control_svc_start
  <2> QED BY <2>1, FreshHostTyped DEF TypeInv, HostInv
<1>3. BridgeInv'
  <2>1. svc_ready' \in BOOLEAN /\ UNCHANGED pipe
    BY DEF control_svc_start
  <2>2. [node_intf |-> SVC_INTF, node_cport |-> 0, node_id |-> SVC_INF_ID] \in Routes
    BY DEF Routes
  <2>3. node_ap_map \in [ApCports -> Routes]
    BY DEF TypeInv, BridgeInv
  <2>4. node_ap_map' = node_ap_map
        \/ node_ap_map' = node_ap_add(node_ap_map, 0, 0, SVC_INTF, SVC_INF_ID)
    BY DEF control_svc_start
  <2>5. node_ap_map' \in [ApCports -> Routes]
    BY <2>2, <2>3, <2>4 DEF node_ap_add
  <2> QED BY <2>1, <2>5 DEF TypeInv, BridgeInv
<1>4. disc' = disc \/ disc' = [disc EXCEPT !.susp = FALSE]
  BY DEF control_svc_start
<1>5. DiscInv' /\ disc'.pc = disc.pc /\ disc'.pos = disc.pos
  <2>1. disc \in DiscStates
    BY DEF TypeInv, DiscInv
  <2>2. disc' \in DiscStates
    BY <1>4, <2>1, Zenon DEF DiscStates
  <2>3. disc'.pc = disc.pc /\ disc'.pos = disc.pos /\ disc'.inf = disc.inf
    BY <1>4, <2>1 DEF DiscStates
  <2> QED BY <2>2, <2>3 DEF TypeInv, DiscInv
<1>6. FillInv'
  BY <1>1, <1>5 DEF TypeInv, FillInv, tables
<1> QED BY <1>1, <1>2, <1>3, <1>5, <1>6, Kept DEF TypeInv

(* The beginning of STOP keeps the types.                                  *)
LEMMA StopTyped ==
  ASSUME TypeInv, control_svc_stop
  PROVE  TypeInv'
<1>1. UNCHANGED <<tables, ids, bridge, rx, host, history, fault>>
  BY DEF control_svc_stop
<1>2. WqInv'
  <2>1. wq' = [WqIdle EXCEPT !.pc = "stop", !.idx = 0]
    BY DEF control_svc_stop
  <2>2. wq' \in WqStates
    <3>1. 0 \in Int /\ WqIdle \in WqStates
      BY Values
    <3> QED BY <2>1, <3>1, Zenon DEF WqStates
  <2>3. wq'.pc = "stop"
    BY <2>1 DEF WqIdle
  <2> QED BY <2>2, <2>3 DEF WqInv
<1>3. DiscInv' /\ disc'.pc = disc.pc /\ disc'.pos = disc.pos
  <2>1. disc \in DiscStates /\ disc' = [disc EXCEPT !.susp = TRUE]
    BY DEF TypeInv, DiscInv, control_svc_stop
  <2>2. disc' \in DiscStates
    BY <2>1, Zenon DEF DiscStates
  <2>3. disc'.pc = disc.pc /\ disc'.pos = disc.pos /\ disc'.inf = disc.inf
    BY <2>1 DEF DiscStates
  <2> QED BY <2>2, <2>3 DEF TypeInv, DiscInv
<1>4. FillInv'
  BY <1>1, <1>3 DEF TypeInv, FillInv, tables
<1> QED BY <1>1, <1>2, <1>3, <1>4, Kept DEF TypeInv

(* One round of node_destroy_all keeps the types, whatever entry its index *)
(* names.                                                                  *)
LEMMA StopNextTyped ==
  ASSUME TypeInv, node_destroy_all_next
  PROVE  TypeInv'
<1>1. CASE Crash("stale_remove")
  BY <1>1, CrashTyped DEF Faults
<1>2. CASE /\ node_destroy_interface(cache[wq.idx].inf)
           /\ wq' = [wq EXCEPT !.idx = @ + 1]
           /\ UNCHANGED <<ids, bridge, rx, disc, host, history>>
  <2>1. TablesInv' /\ FillInv' /\ FaultInv'
    BY <1>2, DestroyTyped
  <2>2. wq \in WqStates /\ wq.pc = "stop"
    BY DEF TypeInv, WqInv, node_destroy_all_next
  <2>3. wq' \in WqStates /\ wq'.pc = "stop"
    BY <1>2, <2>2 DEF WqStates
  <2>4. WqInv'
    BY <2>3 DEF WqInv
  <2> QED BY <1>2, <2>1, <2>4, Kept DEF TypeInv
<1> QED BY <1>1, <1>2 DEF node_destroy_all_next

(* The end of STOP keeps the types: the table is zeroed, the host is down. *)
LEMMA StopDoneTyped ==
  ASSUME TypeInv, node_destroy_all_done
  PROVE  TypeInv'
<1>1. CASE Crash("assert")
  BY <1>1, CrashTyped DEF Faults
<1>2. CASE /\ pos' = 0
           /\ svc_ready' = FALSE
           /\ node_ap_map' = [c \in ApCports |-> NoConnection]
           /\ wq' = WqIdle
           /\ ap' = FreshHost(FALSE)
           /\ UNCHANGED <<cache, intf, ctrl, sock, ids, pipe, rx, disc, ins, rem,
                          history, fault>>
  <2>1. TablesInv'
    BY <1>2, ConstantsAssumption DEF TypeInv, TablesInv
  <2>2. FillInv'
    <3>1. 0 \in CacheSlots
      BY ConstantsAssumption DEF CacheSlots
    <3>2. FillInv
      BY DEF TypeInv
    <3> QED BY <1>2, <3>1, <3>2 DEF FillInv
  <2>3. BridgeInv'
    BY <1>2, Values DEF TypeInv, BridgeInv
  <2>4. WqInv'
    BY <1>2, Values DEF WqInv, WqIdle
  <2>5. HostInv'
    BY <1>2, FreshHostTyped DEF TypeInv, HostInv
  <2> QED BY <1>2, <2>1, <2>2, <2>3, <2>4, <2>5, Kept DEF TypeInv, ids, history
<1> QED BY <1>1, <1>2 DEF node_destroy_all_done

(* CONN_CREATE keeps the types: the index it found is one of the array,    *)
(* and the descriptor it connects was free.                                *)
LEMMA CreateTyped ==
  ASSUME TypeInv, NEW c \in ApCports, NEW id \in InterfaceIds, NEW n \in NodeCports,
         svc_connection_create(c, id, n)
  PROVE  TypeInv'
<1> DEFINE k == node_cache_find_by_id(cache, pos, id)
           b == cache[k].inf
           f == zsock_socket
<1>1. CASE Crash("stale_connect")
  BY <1>1, CrashTyped DEF Faults
<1>2. CASE /\ LiveIntf(b, id)
           /\ connection_create_add(c, id, n, b)
           /\ UNCHANGED <<tables, ids, svc_ready, pipe, wq, rx, disc, ins, rem,
                          history, fault>>
  <2>1. b \in IntfBlocks
    BY <1>2 DEF LiveIntf
  <2> HIDE DEF b
  <2>2. node_ap_map' \in [ApCports -> Routes] /\ HostInv'
    BY <1>2, <2>1, AddTyped
  <2>3. BridgeInv'
    BY <1>2, <2>2 DEF TypeInv, BridgeInv
  <2>4. UNCHANGED <<cache, pos, disc>>
    BY <1>2 DEF tables
  <2> QED BY <1>2, <2>2, <2>3, <2>4, Kept DEF TypeInv
<1>3. CASE /\ LiveIntf(b, id) /\ k >= 0 /\ f >= 0
           /\ sock' = [sock EXCEPT ![f] = [ClosedSocket EXCEPT !.open = TRUE,
                                                  !.owner = cache[k].id]]
           /\ wq' = [pc |-> "connect", inf |-> b, idx |-> k, fd |-> f,
                     ap_cport |-> c, id |-> id, cport |-> n]
           /\ UNCHANGED <<cache, pos, intf, ctrl, ids, bridge, rx, disc, host,
                          history, fault>>
  <2>1. f \in Fds
    BY <1>3, FreeIndex
  <2>2. b \in IntfBlocks
    BY <1>3 DEF LiveIntf
  <2>3. TablesInv /\ pos \in 0..MaxNodes
    BY DEF TypeInv, TablesInv
  <2>4. k \in CacheSlots
    BY <1>3, <2>3, CacheIndex
  <2>5. k \in Int
    BY <2>4, ConstantsAssumption DEF CacheSlots
  <2> HIDE DEF k, b, f
  <2>6. wq' \in WqStates /\ wq'.fd \in Fds
    BY <1>3, <2>1, <2>2, <2>5 DEF WqStates
  <2>7. cache[k].id \in InterfaceIds \cup {0}
    BY <2>3, <2>4 DEF TablesInv, Slots
  <2>8. [ClosedSocket EXCEPT !.open = TRUE, !.owner = cache[k].id] \in Sockets
    BY <2>7, Values, Zenon DEF Sockets
  <2>9. sock' \in [Fds -> Sockets]
    BY <1>3, <2>3, <2>8 DEF TablesInv
  <2>10. TablesInv'
    BY <1>3, <2>3, <2>9 DEF TablesInv
  <2>11. WqInv'
    BY <2>6 DEF WqInv
  <2> QED BY <1>3, <2>10, <2>11, Kept DEF TypeInv
<1> QED BY <1>1, <1>2, <1>3 DEF svc_connection_create

(* The end of a connect keeps the types, even when the index is stale.     *)
LEMMA ConnectedTyped ==
  ASSUME TypeInv, node_connected
  PROVE  TypeInv'
<1>1. CASE Crash("stale_connect")
  BY <1>1, CrashTyped DEF Faults
<1>2. CASE /\ LiveIntf(wq.inf, wq.id)
           /\ store_socket(wq.idx, intf[wq.inf].ctrl, wq.fd)
           /\ connection_create_add(wq.ap_cport, wq.id, wq.cport, wq.inf)
           /\ wq' = WqIdle
           /\ astray' = (astray \/ wq.idx >= pos \/ cache[wq.idx].id # wq.id)
           /\ UNCHANGED <<pos, intf, ids, svc_ready, rx, disc, ins, rem, from_nodes,
                          to_nodes, sent, fault>>
  <2>1. wq \in WqStates /\ wq.fd \in Fds
    BY DEF TypeInv, WqInv, node_connected
  <2>2. /\ wq.ap_cport \in ApCports /\ wq.id \in InterfaceIds \cup {0}
        /\ wq.cport \in NodeCports \cup {0} /\ wq.inf \in IntfBlocks
    BY <1>2, <2>1 DEF WqStates, LiveIntf
  <2>3. node_ap_map' \in [ApCports -> Routes] /\ HostInv'
    BY <1>2, <2>2, AddTyped
  <2>4. TablesInv /\ FillInv
    BY DEF TypeInv
  <2> DEFINE k == wq.idx
             d == intf[wq.inf].ctrl
             f == wq.fd
  <2>5. f \in Fds
    BY <2>1
  <2>6. cache' = [cache EXCEPT ![k].sock = f] /\ ctrl' = [ctrl EXCEPT ![d].sock = f]
    BY <1>2 DEF store_socket
  <2> HIDE DEF k, d, f
  <2>7. \A s \in Slots : [s EXCEPT !.sock = f] \in Slots
    BY <2>5 DEF Slots
  <2>8. \A s \in Controls : [s EXCEPT !.sock = f] \in Controls
    <3>1. f \in {-1} \cup Fds
      BY <2>5
    <3> QED BY <3>1, Zenon DEF Controls
  <2>9. cache' \in [CacheSlots -> Slots]
    BY <2>4, <2>6, <2>7 DEF TablesInv
  <2>10. ctrl' \in [CtrlBlocks -> Controls]
    BY <2>4, <2>6, <2>8 DEF TablesInv
  <2>11. sock' \in [Fds -> Sockets]
    <3>1. \A r \in Sockets : [r EXCEPT !.stray = TRUE] \in Sockets
      BY Zenon DEF Sockets
    <3>2. sock \in [Fds -> Sockets]
      BY <2>4 DEF TablesInv
    <3>3. UNCHANGED sock
          \/ sock' = [g \in Fds |-> IF g = 0 /\ sock[g].open
                                    THEN [sock[g] EXCEPT !.stray = TRUE] ELSE sock[g]]
      BY <1>2 DEF store_socket, pipe_send
    <3> QED BY <3>1, <3>2, <3>3
  <2>12. TablesInv'
    BY <1>2, <2>4, <2>9, <2>10, <2>11 DEF TablesInv
  <2>13. FillInv'
    BY <1>2, <2>4 DEF FillInv
  <2>14. pipe' \in Pipes
    <3>1. pipe \in Pipes
      BY DEF TypeInv, BridgeInv
    <3>2. pipe.bytes + 1 \in Nat
      BY <3>1 DEF Pipes
    <3>3. [pipe EXCEPT !.bytes = @ + 1] \in Pipes
      BY <3>1, <3>2, Zenon DEF Pipes
    <3> QED BY <1>2, <3>1, <3>3 DEF store_socket, pipe_send
  <2>15. BridgeInv'
    BY <1>2, <2>3, <2>14 DEF TypeInv, BridgeInv
  <2>16. WqInv'
    BY <1>2, Values DEF WqInv, WqIdle
  <2>17. HistoryInv'
    <3>1. astray' \in BOOLEAN
      BY <1>2, Zenon
    <3> QED BY <1>2, <3>1, Zenon DEF TypeInv, HistoryInv
  <2> QED BY <1>2, <2>3, <2>12, <2>13, <2>15, <2>16, <2>17, Kept DEF TypeInv
<1> QED BY <1>1, <1>2 DEF node_connected

(* A failed connect keeps the types.                                       *)
LEMMA ConnectFailedTyped ==
  ASSUME TypeInv, node_connect_failed
  PROVE  TypeInv'
<1>1. sock' = [sock EXCEPT ![wq.fd] = ClosedSocket] /\ wq' = WqIdle
      /\ UNCHANGED <<cache, pos, intf, ctrl, ids, bridge, rx, disc, host, history, fault>>
  BY DEF node_connect_failed
<1>2. TablesInv'
  BY <1>1, Values DEF TypeInv, TablesInv
<1>3. WqInv'
  BY <1>1, Values DEF WqInv, WqIdle
<1> QED BY <1>1, <1>2, <1>3, Kept DEF TypeInv

(* CONN_DESTROY keeps the types.                                           *)
LEMMA ConnDestroyTyped ==
  ASSUME TypeInv, NEW c \in ApCports, svc_connection_destroy(c)
  PROVE  TypeInv'
<1>1. /\ node_ap_map' = node_ap_remove(node_ap_map, c)
      /\ ap' = [ap EXCEPT !.conn[c] = NotConnected]
      /\ UNCHANGED <<tables, ids, svc_ready, pipe, wq, rx, disc, ins, rem, history, fault>>
  BY DEF svc_connection_destroy
<1>2. BridgeInv'
  BY <1>1, Values DEF TypeInv, BridgeInv, node_ap_remove
<1>3. HostInv'
  <2>1. HostInv /\ NotConnected \in Connections
    BY Values DEF TypeInv
  <2> QED BY <1>1, <2>1, ConnTyped
<1>4. UNCHANGED <<cache, pos, disc>>
  BY <1>1 DEF tables
<1> QED BY <1>1, <1>2, <1>3, <1>4, Kept DEF TypeInv

(* A message of the AP keeps the types: the control block of the interface *)
(* it is sent to is a block, or the step is a fault.                       *)
LEMMA SubmitTyped ==
  ASSUME TypeInv, NEW c \in ApCports, ap_rx_submit(c)
  PROVE  TypeInv'
<1> DEFINE b == node_ap_map[c].node_intf
<1>1. CASE Crash("null_write") \/ Crash("stale_write")
  BY <1>1, CrashTyped DEF Faults
<1>2. CASE /\ LiveIntf(b, node_ap_map[c].node_id)
           /\ wq' = [pc |-> "send", inf |-> b, idx |-> -1,
                     fd |-> ctrl[intf[b].ctrl].sock, ap_cport |-> c,
                     id |-> node_ap_map[c].node_id,
                     cport |-> node_ap_map[c].node_cport]
           /\ sent' = [sent EXCEPT !.ap = @ + 1]
           /\ UNCHANGED <<tables, ids, bridge, rx, disc, host, from_nodes, to_nodes,
                          astray, fault>>
  <2>1. node_ap_map[c] \in Routes
    BY DEF TypeInv, BridgeInv
  <2>2. b \in IntfBlocks /\ intf[b].used
    BY <1>2 DEF LiveIntf
  <2> HIDE DEF b
  <2>3. intf[b].ctrl \in CtrlBlocks
    BY <2>2 DEF TypeInv, TablesInv
  <2>4. ctrl[intf[b].ctrl].sock \in {-1} \cup Fds
    BY <2>3 DEF TypeInv, TablesInv, Controls
  <2>5. /\ node_ap_map[c].node_id \in InterfaceIds \cup {0}
        /\ node_ap_map[c].node_cport \in NodeCports \cup {0}
    BY <2>1 DEF Routes, SVC_INF_ID
  <2>6. wq' \in WqStates /\ wq'.pc = "send"
    BY <1>2, <2>2, <2>4, <2>5 DEF WqStates
  <2>7. WqInv'
    BY <2>6 DEF WqInv
  <2>8. sent' \in Counts
    BY <1>2 DEF TypeInv, HistoryInv, Counts
  <2>9. HistoryInv'
    BY <1>2, <2>8 DEF TypeInv, HistoryInv
  <2>10. UNCHANGED <<cache, pos, disc>>
    BY <1>2 DEF tables
  <2> QED BY <1>2, <2>7, <2>9, <2>10, Kept DEF TypeInv
<1> QED BY <1>1, <1>2 DEF ap_rx_submit

(* The end of a write keeps the types.                                     *)
LEMMA WriteOkTyped ==
  ASSUME TypeInv, node_inf_write_ok
  PROVE  TypeInv'
<1>1. /\ to_nodes' = to_nodes \cup
           {[to |-> ap.conn[wq.ap_cport].id, at |-> sock[wq.fd].owner,
             whole |-> ~sock[wq.fd].stray]}
      /\ wq' = WqIdle /\ wq.fd >= 0
      /\ UNCHANGED <<tables, ids, bridge, rx, disc, host, from_nodes, sent, astray, fault>>
  BY DEF node_inf_write_ok, SendMayWork
<1>2. wq.fd \in Fds /\ wq.ap_cport \in ApCports
  BY <1>1 DEF TypeInv, WqInv, WqStates
<1>3. sock[wq.fd].owner \in InterfaceIds \cup {0}
  BY <1>2 DEF TypeInv, TablesInv, Sockets
<1>4. ap.conn[wq.ap_cport].id \in InterfaceIds \cup {0}
  <2>1. ap.conn[wq.ap_cport] \in Connections
    BY <1>2 DEF TypeInv, HostInv, Hosts
  <2> QED BY <2>1 DEF Connections
<1>5. HistoryInv'
  <2>1. PICK w \in BOOLEAN : w = ~sock[wq.fd].stray
    BY Zenon
  <2>2. [to |-> ap.conn[wq.ap_cport].id, at |-> sock[wq.fd].owner, whole |-> w] \in ToNode
    BY <1>3, <1>4, Zenon DEF ToNode
  <2>3. to_nodes' \subseteq ToNode
    BY <1>1, <2>1, <2>2, Zenon DEF TypeInv, HistoryInv
  <2> QED BY <1>1, <2>3, Zenon DEF TypeInv, HistoryInv
<1>6. WqInv'
  BY <1>1, Values DEF WqInv, WqIdle
<1>7. UNCHANGED <<cache, pos, disc>>
  BY <1>1 DEF tables
<1> QED BY <1>1, <1>5, <1>6, <1>7, Kept DEF TypeInv

(* A failed send keeps the types: the entry it removes is one of the       *)
(* cache, or it removes none.                                              *)
LEMMA SendFailedTyped ==
  ASSUME TypeInv, gb_message_send_failed
  PROVE  TypeInv'
<1> DEFINE b == cache[node_cache_find_by_sock(cache, pos, wq.fd)].inf
<1>1. wq' = [wq EXCEPT !.pc = "write_failed"] => WqInv'
  <2>1. wq \in WqStates
    BY DEF TypeInv, WqInv
  <2> QED BY <2>1 DEF WqInv, WqStates
<1>2. CASE Crash("stale_remove")
  BY <1>2, CrashTyped DEF Faults
<1>3. CASE /\ svc_send_module_removed(b)
           /\ wq' = [wq EXCEPT !.pc = "write_failed"]
           /\ UNCHANGED <<ids, bridge, rx, disc, ins, ap, history>>
  <2> HIDE DEF b
  <2>1. TablesInv' /\ FillInv' /\ HostInv' /\ FaultInv'
    BY <1>3, RemovedTyped
  <2> QED BY <1>1, <1>3, <2>1, Kept DEF TypeInv
<1>4. CASE /\ wq' = [wq EXCEPT !.pc = "write_failed"]
           /\ UNCHANGED <<tables, ids, bridge, rx, disc, host, history, fault>>
  <2>1. UNCHANGED <<cache, pos, disc>>
    BY <1>4 DEF tables
  <2> QED BY <1>1, <1>4, <2>1, Kept DEF TypeInv
<1> QED BY <1>2, <1>3, <1>4 DEF gb_message_send_failed

(* The second removal after a failed write keeps the types.                *)
LEMMA WriteFailedTyped ==
  ASSUME TypeInv, node_inf_write_failed
  PROVE  TypeInv'
<1>1. CASE Crash("stale_remove")
  BY <1>1, CrashTyped DEF Faults
<1>2. CASE /\ svc_send_module_removed(wq.inf)
           /\ wq' = WqIdle
           /\ UNCHANGED <<ids, bridge, rx, disc, ins, ap, history>>
  <2>1. TablesInv' /\ FillInv' /\ HostInv' /\ FaultInv'
    BY <1>2, RemovedTyped
  <2>2. WqInv'
    BY <1>2, Values DEF WqInv, WqIdle
  <2> QED BY <1>2, <2>1, <2>2, Kept DEF TypeInv
<1> QED BY <1>1, <1>2 DEF node_inf_write_failed

(* A step of rx that changes its pc and its poll array only, outside the   *)
(* loop over the results.                                                  *)
LEMMA RxOutside ==
  ASSUME RxInv, NEW pc \in {"ended", "populate", "length", "poll"}, NEW fds \in Seq(Polled),
         rx' = [rx EXCEPT !.pc = pc, !.fds = fds]
  PROVE  RxInv'
<1>1. rx \in RxStates /\ pc \in RxPcs
  BY DEF RxInv, RxPcs
<1>2. rx' \in RxStates
  BY <1>1, Zenon DEF RxStates
<1>3. rx'.pc = pc /\ rx'.i = rx.i
  BY <1>1 DEF RxStates
<1>4. pc \notin Looping /\ pc \notin {"recv", "shrink", "move"}
  BY DEF Looping
<1> QED BY <1>2, <1>3, <1>4 DEF RxInv

(* The start of the receive thread keeps the types.                        *)
LEMMA RxStartTyped ==
  ASSUME TypeInv, node_rx_thread_start
  PROVE  TypeInv'
<1>1. /\ \/ pipe' = [open |-> TRUE, bytes |-> 0] /\ rx' = [rx EXCEPT !.pc = "populate"]
         \/ UNCHANGED pipe /\ rx' = [rx EXCEPT !.pc = "ended"]
      /\ UNCHANGED <<tables, ids, node_ap_map, svc_ready, wq, disc, host, history, fault>>
  BY DEF node_rx_thread_start
<1>2. pipe' \in Pipes
  <2>1. [open |-> TRUE, bytes |-> 0] \in Pipes
    BY DEF Pipes
  <2>2. pipe \in Pipes
    BY DEF TypeInv, BridgeInv
  <2> QED BY <1>1, <2>1, <2>2, Zenon
<1>3. BridgeInv'
  BY <1>1, <1>2 DEF TypeInv, BridgeInv
<1>4. RxInv'
  <2>1. RxInv /\ rx \in RxStates
    BY DEF TypeInv, RxInv
  <2>2. PICK pc \in {"ended", "populate"} : rx' = [rx EXCEPT !.pc = pc]
    BY <1>1
  <2>3. rx' = [rx EXCEPT !.pc = pc, !.fds = rx.fds] /\ rx.fds \in Seq(Polled)
    BY <2>1, <2>2 DEF RxStates
  <2> QED BY <2>1, <2>3, RxOutside
<1>5. UNCHANGED <<cache, pos, disc>>
  BY <1>1 DEF tables
<1> QED BY <1>1, <1>3, <1>4, <1>5, Kept DEF TypeInv

(* The poll array keeps the types: it is filled from the slots below pos.  *)
LEMMA RxPopulateTyped ==
  ASSUME TypeInv, node_rx_populate
  PROVE  TypeInv'
<1> DEFINE fds == [j \in 1..pos |-> cache[j - 1].sock]
<1>1. /\ rx' = [rx EXCEPT !.pc = "length", !.fds = fds]
      /\ UNCHANGED <<tables, ids, bridge, wq, disc, host, history, fault>>
  BY DEF node_rx_populate
<1>2. fds \in Seq(Polled)
  <2>1. pos \in Nat /\ pos <= MaxNodes
    BY ConstantsAssumption DEF TypeInv, TablesInv
  <2>2. ASSUME NEW j \in 1..pos PROVE cache[j - 1].sock \in Polled
    <3>1. j - 1 \in CacheSlots
      BY <2>1, ConstantsAssumption DEF CacheSlots
    <3> QED BY <3>1 DEF TypeInv, TablesInv, Slots, Polled
  <2>3. fds \in [1..pos -> Polled]
    BY <2>2
  <2> QED BY <2>1, <2>3
<1> HIDE DEF fds
<1>3. RxInv'
  BY <1>1, <1>2, RxOutside DEF TypeInv
<1>4. UNCHANGED <<cache, pos, disc>>
  BY <1>1 DEF tables
<1> QED BY <1>1, <1>3, <1>4, Kept DEF TypeInv

(* The length of the poll array keeps the types: slots that the loop did   *)
(* not reach hold stale values.                                            *)
LEMMA RxFdsLenTyped ==
  ASSUME TypeInv, node_rx_fds_len
  PROVE  TypeInv'
<1>1. PICK n \in {Len(rx.fds), pos} : \E g \in [(Len(rx.fds) + 1)..n -> StaleFds] :
        rx' = [rx EXCEPT !.pc = "poll",
                 !.fds = [j \in 1..n |-> IF j <= Len(rx.fds) THEN rx.fds[j] ELSE g[j]]]
  BY DEF node_rx_fds_len
<1>2. PICK g \in [(Len(rx.fds) + 1)..n -> StaleFds] :
        rx' = [rx EXCEPT !.pc = "poll",
                 !.fds = [j \in 1..n |-> IF j <= Len(rx.fds) THEN rx.fds[j] ELSE g[j]]]
  BY <1>1
<1> DEFINE fds == [j \in 1..n |-> IF j <= Len(rx.fds) THEN rx.fds[j] ELSE g[j]]
<1>3. UNCHANGED <<tables, ids, bridge, wq, disc, host, history, fault>>
  BY DEF node_rx_fds_len
<1>4. fds \in Seq(Polled)
  <2>1. rx.fds \in Seq(Polled) /\ n \in Nat
    BY ConstantsAssumption DEF TypeInv, RxInv, RxStates, TablesInv
  <2>2. ASSUME NEW j \in 1..n PROVE fds[j] \in Polled
    <3>1. CASE j <= Len(rx.fds)
      BY <2>1, <3>1
    <3>2. CASE ~(j <= Len(rx.fds))
      <4>1. j \in (Len(rx.fds) + 1)..n
        BY <2>1, <3>2
      <4>2. g[j] \in StaleFds
        BY <4>1
      <4> QED BY <3>2, <4>2 DEF Polled
    <3> QED BY <3>1, <3>2
  <2>3. fds \in [1..n -> Polled]
    BY <2>2
  <2> QED BY <2>1, <2>3
<1>5. rx' = [rx EXCEPT !.pc = "poll", !.fds = fds]
  BY <1>2
<1> HIDE DEF fds
<1>6. RxInv'
  BY <1>4, <1>5, RxOutside DEF TypeInv
<1>7. UNCHANGED <<cache, pos, disc>>
  BY <1>3 DEF tables
<1> QED BY <1>3, <1>6, <1>7, Kept DEF TypeInv

(* A poll that fails keeps the types.                                      *)
LEMMA RxPollFailedTyped ==
  ASSUME TypeInv, node_rx_poll_failed
  PROVE  TypeInv'
<1>1. /\ rx' = [rx EXCEPT !.pc = "populate", !.fds = <<>>]
      /\ UNCHANGED <<tables, ids, bridge, wq, disc, host, history, fault>>
  BY DEF node_rx_poll_failed
<1>2. <<>> \in Seq(Polled)
  OBVIOUS
<1>3. RxInv'
  BY <1>1, <1>2, RxOutside DEF TypeInv
<1>4. UNCHANGED <<cache, pos, disc>>
  BY <1>1 DEF tables
<1> QED BY <1>1, <1>3, <1>4, Kept DEF TypeInv

(* zsock_poll reports one of five results, and POLLIN for a descriptor.    *)
LEMMA ReventsTyped ==
  ASSUME TablesInv, NEW f \in Polled
  PROVE  Revents(f) \in PollResults /\ (Revents(f) = "POLLIN" => f \in Fds)
<1>1. f \in Int /\ (f < 0 \/ f >= 0) /\ ~(f < 0 /\ f >= 0) /\ (f < 0 => f \notin Fds)
  BY ConstantsAssumption DEF Polled, Fds
<1>2. CASE f < 0
  <2>1. Revents(f) = "none"
    BY <1>1, <1>2 DEF Revents, OpenFd
  <2> QED BY <2>1 DEF PollResults
<1>3. CASE f >= 0 /\ ~OpenFd(f)
  <2>1. Revents(f) = "POLLNVAL"
    BY <1>1, <1>3 DEF Revents
  <2> QED BY <2>1 DEF PollResults
<1>4. CASE OpenFd(f)
  <2>1. f \in Fds /\ f >= 0 /\ ~(f < 0)
    BY <1>1, <1>4 DEF OpenFd
  <2>2. sock[f].peer \in {"up", "eof", "err"}
    BY <2>1, Zenon DEF TablesInv, Sockets
  <2>3. \/ sock[f].peer = "eof" /\ Revents(f) = "POLLHUP"
        \/ sock[f].peer = "err" /\ Revents(f) = "POLLERR"
        \/ sock[f].peer = "up" /\ Revents(f) \in {"POLLIN", "none"}
    BY <1>4, <2>1, <2>2 DEF Revents
  <2>4. Revents(f) \in PollResults
    BY <2>3 DEF PollResults
  <2> QED BY <2>1, <2>4
<1> QED BY <1>1, <1>2, <1>3, <1>4

(* A poll keeps the types: POLLIN is only reported for a descriptor.       *)
LEMMA RxPollTyped ==
  ASSUME TypeInv, node_rx_poll
  PROVE  TypeInv'
<1> DEFINE rev == [j \in DOMAIN rx.fds |-> Revents(rx.fds[j])]
<1>1. /\ rx' = [rx EXCEPT !.pc = "loop", !.i = 1, !.rev = rev]
      /\ pipe' = [pipe EXCEPT !.bytes = IF @ > 0 THEN @ - 1 ELSE @]
      /\ UNCHANGED <<tables, ids, node_ap_map, svc_ready, wq, disc, host, history, fault>>
  BY DEF node_rx_poll
<1>2. rx \in RxStates
  BY DEF TypeInv, RxInv
<1>3. rx.fds \in Seq(Polled)
  BY <1>2 DEF RxStates
<1>4. \A j \in DOMAIN rx.fds : rx.fds[j] \in Polled
  BY <1>3
<1>5. \A j \in DOMAIN rx.fds :
        Revents(rx.fds[j]) \in PollResults /\ (Revents(rx.fds[j]) = "POLLIN" => rx.fds[j] \in Fds)
  <2>1. \A f \in Polled :
          Revents(f) \in PollResults /\ (Revents(f) = "POLLIN" => f \in Fds)
    BY ReventsTyped DEF TypeInv
  <2> QED BY <1>4, <2>1
<1>6. rev \in Seq(PollResults) /\ DOMAIN rev = DOMAIN rx.fds
  <2>1. Len(rx.fds) \in Nat /\ DOMAIN rx.fds = 1..Len(rx.fds)
    BY <1>3
  <2>2. rev \in [1..Len(rx.fds) -> PollResults]
    BY <1>5, <2>1
  <2> QED BY <2>1, <2>2
<1>7. \A j \in DOMAIN rx.fds : rev[j] = "POLLIN" => rx.fds[j] \in Fds
  BY <1>5
<1> HIDE DEF rev
<1>8. RxInv'
  <2>1. 1 \in Nat
    OBVIOUS
  <2>2. rx' \in RxStates
    BY <1>1, <1>2, <1>6, <2>1, Zenon DEF RxStates, RxPcs
  <2>3. rx'.pc = "loop" /\ rx'.fds = rx.fds /\ rx'.rev = rev /\ rx'.i >= 1
    BY <1>1, <1>2 DEF RxStates
  <2> QED BY <1>6, <1>7, <2>2, <2>3 DEF RxInv, Looping
<1>9. pipe' \in Pipes
  <2>1. pipe \in Pipes
    BY DEF TypeInv, BridgeInv
  <2>2. (IF pipe.bytes > 0 THEN pipe.bytes - 1 ELSE pipe.bytes) \in Nat
    BY <2>1 DEF Pipes
  <2> QED BY <1>1, <2>1, <2>2, Zenon DEF Pipes
<1>10. BridgeInv'
  BY <1>1, <1>9 DEF TypeInv, BridgeInv
<1>11. UNCHANGED <<cache, pos, disc>>
  BY <1>1 DEF tables
<1> QED BY <1>1, <1>8, <1>10, <1>11, Kept DEF TypeInv

(* The next turn of the loop.                                              *)
LEMMA RxNextTyped ==
  ASSUME RxInv, rx.pc \in Looping, rx' = RxNext
  PROVE  RxInv'
<1>1. rx \in RxStates
  BY DEF RxInv, Looping
<1>2. rx.i + 1 \in Nat /\ -1 \in Int /\ 0 \in 0..MaxNodes
  BY <1>1, ConstantsAssumption DEF RxStates
<1>3. rx' \in RxStates
  BY <1>1, <1>2, Values, Zenon DEF RxNext, RxStates, RxPcs
<1>4. rx'.pc = "loop" /\ rx'.fds = rx.fds /\ rx'.rev = rx.rev /\ rx'.i = rx.i + 1
  BY <1>1 DEF RxNext, RxStates
<1>5. rx'.i >= 1
  BY <1>1, <1>4 DEF RxStates
<1> QED BY <1>3, <1>4, <1>5 DEF RxInv, Looping

(* A look at one entry of the poll array keeps the types: the index that   *)
(* rx takes with it was found in the cache.                                *)
LEMMA RxDispatchTyped ==
  ASSUME TypeInv, node_rx_dispatch
  PROVE  TypeInv'
<1> DEFINE k == node_cache_find_by_sock(cache, pos, rx.fds[rx.i])
<1>1. rx.pc = "loop" /\ UNCHANGED <<tables, ids, bridge, wq, disc, host, history, fault>>
  BY DEF node_rx_dispatch
<1>2. rx \in RxStates /\ RxInv
  BY DEF TypeInv, RxInv
<1>3. TablesInv /\ pos \in 0..MaxNodes
  BY DEF TypeInv, TablesInv
<1>4. k >= 0 => k \in CacheSlots /\ k \in Int
  <2>1. k >= 0 => k \in CacheSlots
    BY <1>3, CacheIndex
  <2> HIDE DEF k
  <2> QED BY <2>1, ConstantsAssumption DEF CacheSlots
<1>5. CASE rx' = [rx EXCEPT !.pc = "populate", !.fds = <<>>, !.rev = <<>>, !.i = 1]
  <2>1. <<>> \in Seq(Polled) /\ <<>> \in Seq(PollResults) /\ 1 \in Nat
    OBVIOUS
  <2>2. rx' \in RxStates
    BY <1>2, <1>5, <2>1, Zenon DEF RxStates, RxPcs
  <2>3. rx'.pc = "populate" /\ rx'.i >= 1
    BY <1>2, <1>5 DEF RxStates
  <2> QED BY <2>2, <2>3, <1>1, Kept DEF RxInv, Looping, TypeInv, tables
<1>6. CASE rx' = RxNext
  <2>1. RxInv'
    BY <1>1, <1>2, <1>6, RxNextTyped DEF Looping
  <2> QED BY <1>1, <2>1, Kept DEF TypeInv, tables
<1>7. CASE /\ k >= 0
           /\ rx' = [rx EXCEPT !.pc = "remove", !.inf = cache[k].inf, !.id = cache[k].id]
  <2> HIDE DEF k
  <2>1. cache[k].inf \in IntfBlocks \cup {NULL} /\ cache[k].id \in InterfaceIds \cup {0}
    BY <1>3, <1>4, <1>7 DEF TablesInv, Slots
  <2>2. rx' \in RxStates
    BY <1>2, <1>7, <2>1, Zenon DEF RxStates, RxPcs
  <2>3. rx'.pc = "remove" /\ rx'.fds = rx.fds /\ rx'.rev = rx.rev /\ rx'.i = rx.i
    BY <1>2, <1>7 DEF RxStates
  <2>4. RxInv'
    BY <1>1, <1>2, <2>2, <2>3 DEF RxInv, Looping
  <2> QED BY <1>1, <2>4, Kept DEF TypeInv, tables
<1>8. CASE /\ k >= 0 /\ rx.i <= Len(rx.fds) /\ rx.rev[rx.i] = "POLLIN"
           /\ rx' = [rx EXCEPT !.pc = "recv", !.idx = k]
  <2> HIDE DEF k
  <2>1. rx' \in RxStates
    BY <1>2, <1>4, <1>8, Zenon DEF RxStates, RxPcs
  <2>2. /\ rx'.pc = "recv" /\ rx'.fds = rx.fds /\ rx'.rev = rx.rev /\ rx'.i = rx.i
        /\ rx'.idx = k
    BY <1>2, <1>8 DEF RxStates
  <2>3. rx.fds[rx.i] \in Fds
    <3>1. rx.fds \in Seq(Polled) /\ rx.i \in Nat /\ rx.i >= 1
      BY <1>2 DEF RxStates, RxInv
    <3>2. \A j \in DOMAIN rx.fds : rx.rev[j] = "POLLIN" => rx.fds[j] \in Fds
      BY <1>1, <1>2 DEF RxInv, Looping
    <3>3. rx.i \in DOMAIN rx.fds
      BY <1>8, <3>1
    <3> QED BY <1>8, <3>2, <3>3
  <2>4. RxInv'
    BY <1>1, <1>2, <1>4, <1>8, <2>1, <2>2, <2>3 DEF RxInv, Looping
  <2> QED BY <1>1, <2>4, Kept DEF TypeInv, tables
<1> QED BY <1>5, <1>6, <1>7, <1>8 DEF node_rx_dispatch

(* A receive keeps the types: what it reads was queued on a descriptor.    *)
LEMMA RxReceiveTyped ==
  ASSUME TypeInv, node_rx_receive
  PROVE  TypeInv'
<1> DEFINE f    == rx.fds[rx.i]
           s    == sock[f]
           got  == s.open /\ s.inq # <<>>
           msg  == IF got THEN [cport |-> Head(s.inq), from |-> s.owner] ELSE NoMsg
           flag == IF got THEN rx.flag ELSE s.open /\ s.peer = "eof"
           node == cache[rx.idx]
           apc  == node_to_ap_cport(node_ap_map, node.id, msg.cport)
           m    == [from |-> msg.from, cport |-> msg.cport, ap_cport |-> apc,
                    at |-> ap.conn[apc], elsewhere |-> ApHas(msg.from, msg.cport)]
<1>1. /\ rx.pc = "recv"
      /\ sock' = IF got THEN [sock EXCEPT ![f].inq = Tail(@)] ELSE sock
      /\ UNCHANGED <<cache, pos, intf, ctrl, ids, bridge, wq, disc, host, to_nodes,
                     sent, astray, fault>>
      /\ \/ /\ rx' = [rx EXCEPT !.pc = "remove", !.inf = node.inf, !.id = node.id,
                                !.flag = flag, !.msg = msg]
            /\ UNCHANGED from_nodes
         \/ /\ got /\ rx' = RxNext
            /\ from_nodes' = IF apc >= 0 THEN from_nodes \cup {m} ELSE from_nodes
  BY DEF node_rx_receive
<1>2. TablesInv /\ rx \in RxStates /\ RxInv /\ f \in Fds /\ rx.idx \in CacheSlots
  BY <1>1 DEF TypeInv, RxInv
<1>3. s \in Sockets
  BY <1>2 DEF TablesInv
<1>4. s.inq \in Seq(NodeCports) /\ s.owner \in InterfaceIds \cup {0}
  BY <1>3 DEF Sockets
<1>5. got => Head(s.inq) \in NodeCports /\ Tail(s.inq) \in Seq(NodeCports)
  BY <1>4
<1>6. node.inf \in IntfBlocks \cup {NULL} /\ node.id \in InterfaceIds \cup {0}
  BY <1>2 DEF TablesInv, Slots
<1>7. msg \in Messages /\ (got => msg.cport \in NodeCports /\ msg.from \in InterfaceIds \cup {0})
  BY <1>4, <1>5, Values DEF Messages
<1>8. flag \in BOOLEAN
  <2>1. rx.flag \in BOOLEAN
    BY <1>2, Zenon DEF RxStates, RxPcs
  <2>2. (s.open /\ s.peer = "eof") \in BOOLEAN
    BY Zenon
  <2> QED BY <2>1, <2>2, Zenon
<1>9. TablesInv'
  <2>1. got => [s EXCEPT !.inq = Tail(@)] \in Sockets
    BY <1>3, <1>5, Zenon DEF Sockets
  <2>2. got => sock' = [sock EXCEPT ![f] = [s EXCEPT !.inq = Tail(@)]]
    BY <1>1
  <2>3. sock \in [Fds -> Sockets]
    BY <1>2 DEF TablesInv
  <2>4. ~got => sock' = sock
    BY <1>1
  <2> HIDE DEF got, f, s
  <2>5. sock' \in [Fds -> Sockets]
    BY <2>1, <2>2, <2>3, <2>4
  <2> QED BY <1>1, <1>2, <2>5 DEF TablesInv
<1>10. got /\ apc >= 0 => m \in FromNode
  <2> SUFFICES ASSUME got, apc >= 0 PROVE m \in FromNode
    OBVIOUS
  <2>1. apc \in ApCports
    BY RouteIndex DEF TypeInv, BridgeInv
  <2>2. ap.conn \in [ApCports -> Connections]
    BY DEF TypeInv, HostInv, Hosts
  <2>3. ApHas(msg.from, msg.cport) \in BOOLEAN
    BY Zenon DEF ApHas
  <2>4. msg.cport \in NodeCports /\ msg.from \in InterfaceIds \cup {0}
    BY <1>7
  <2> HIDE DEF apc, msg, got
  <2>5. ap.conn[apc] \in Connections
    BY <2>1, <2>2
  <2> QED BY <2>1, <2>3, <2>4, <2>5, Zenon DEF FromNode
<1> HIDE DEF f, s, got, msg, flag, node, apc, m
<1>11. HistoryInv'
  <2>1. from_nodes' \subseteq FromNode
    BY <1>1, <1>10 DEF TypeInv, HistoryInv
  <2> QED BY <1>1, <2>1 DEF TypeInv, HistoryInv
<1>12. RxInv'
  <2>1. CASE rx' = RxNext
    BY <1>1, <1>2, <2>1, RxNextTyped DEF Looping
  <2>2. CASE rx' = [rx EXCEPT !.pc = "remove", !.inf = node.inf, !.id = node.id,
                              !.flag = flag, !.msg = msg]
    <3>1. rx' \in RxStates
      BY <1>2, <1>6, <1>7, <1>8, <2>2, Zenon DEF RxStates, RxPcs
    <3>2. rx'.pc = "remove" /\ rx'.fds = rx.fds /\ rx'.rev = rx.rev /\ rx'.i = rx.i
      BY <1>2, <2>2 DEF RxStates
    <3> QED BY <1>1, <1>2, <3>1, <3>2 DEF RxInv, Looping
  <2> QED BY <1>1, <2>1, <2>2
<1> QED BY <1>1, <1>9, <1>11, <1>12, Kept DEF TypeInv

(* A step of rx from the loop to a pc that needs no index.                 *)
LEMMA RxMoves ==
  ASSUME RxInv, rx.pc \in Looping, NEW pc \in {"destroy", "unlink", "free"},
         rx' = [rx EXCEPT !.pc = pc]
  PROVE  RxInv'
<1>1. rx \in RxStates /\ pc \in RxPcs
  BY DEF RxInv, RxPcs
<1>2. rx' \in RxStates
  BY <1>1, Zenon DEF RxStates
<1>3. rx'.pc = pc /\ rx'.fds = rx.fds /\ rx'.rev = rx.rev /\ rx'.i = rx.i
  BY <1>1 DEF RxStates
<1>4. pc \notin {"recv", "shrink", "move"}
  OBVIOUS
<1> QED BY <1>2, <1>3, <1>4 DEF RxInv

(* The removal of a closed node keeps the types.                           *)
LEMMA RxRemoveTyped ==
  ASSUME TypeInv, node_rx_remove
  PROVE  TypeInv'
<1>1. CASE Crash("stale_remove")
  BY <1>1, CrashTyped DEF Faults
<1>2. CASE /\ rx.pc = "remove"
           /\ rem' = [rem EXCEPT ![intf[rx.inf].id] = @ + 1]
           /\ rx' = [rx EXCEPT !.pc = "destroy"]
           /\ UNCHANGED <<tables, ids, bridge, wq, disc, ins, ap, history, fault>>
  <2>1. HostInv /\ RxInv
    BY DEF TypeInv
  <2>2. rem' \in [InterfaceIds -> Nat]
    <3>1. \A x \in InterfaceIds : rem[x] + 1 \in Nat
      BY <2>1 DEF HostInv
    <3> QED BY <1>2, <2>1, <3>1 DEF HostInv
  <2>3. HostInv'
    BY <1>2, <2>1, <2>2 DEF HostInv
  <2>4. RxInv'
    BY <1>2, <2>1, RxMoves DEF Looping
  <2>5. UNCHANGED <<cache, pos, disc>>
    BY <1>2 DEF tables
  <2> QED BY <1>2, <2>3, <2>4, <2>5, Kept DEF TypeInv
<1> QED BY <1>1, <1>2 DEF node_rx_remove

(* Closing its socket keeps the types.                                     *)
LEMMA RxCloseTyped ==
  ASSUME TypeInv, node_rx_close
  PROVE  TypeInv'
<1>1. CASE Crash("stale_remove")
  BY <1>1, CrashTyped DEF Faults
<1>2. CASE /\ rx.pc = "destroy"
           /\ sock' = close_node_sock(ctrl[intf[rx.inf].ctrl].sock)
           /\ rx' = [rx EXCEPT !.pc = "unlink"]
           /\ UNCHANGED <<cache, pos, intf, ctrl, ids, bridge, wq, disc, host, history, fault>>
  <2>1. RxInv'
    BY <1>2, RxMoves DEF TypeInv, Looping
  <2>2. sock' \in [Fds -> Sockets]
    BY <1>2, Values DEF TypeInv, TablesInv, close_node_sock
  <2>3. TablesInv'
    BY <1>2, <2>2 DEF TypeInv, TablesInv
  <2> QED BY <1>2, <2>1, <2>3, Kept DEF TypeInv
<1> QED BY <1>1, <1>2 DEF node_rx_close

(* The search for its entry keeps the types: an index found is in use.     *)
LEMMA RxUnlinkTyped ==
  ASSUME TypeInv, node_rx_unlink
  PROVE  TypeInv'
<1> DEFINE k == node_cache_find_by_id(cache, pos, rx.id)
<1>1. CASE Crash("stale_remove")
  BY <1>1, CrashTyped DEF Faults
<1>2. CASE /\ rx.pc = "unlink"
           /\ rx' = IF k >= 0 THEN [rx EXCEPT !.pc = "shrink", !.idx = k, !.pos = pos]
                             ELSE [rx EXCEPT !.pc = "free"]
           /\ UNCHANGED <<tables, ids, bridge, wq, disc, host, history, fault>>
  <2>1. TablesInv /\ pos \in 0..MaxNodes /\ RxInv /\ rx \in RxStates
    BY DEF TypeInv, TablesInv, RxInv
  <2>2. k >= 0 => k \in CacheSlots
    BY <2>1, CacheIndex
  <2> HIDE DEF k
  <2>3. RxInv'
    <3>1. CASE ~(k >= 0)
      BY <1>2, <2>1, <3>1, RxMoves DEF Looping
    <3>2. CASE k >= 0
      <4>1. rx' = [rx EXCEPT !.pc = "shrink", !.idx = k, !.pos = pos] /\ k \in Int
        BY <1>2, <2>2, <3>2, ConstantsAssumption DEF CacheSlots
      <4>2. rx' \in RxStates
        BY <2>1, <4>1, Zenon DEF RxStates, RxPcs
      <4>3. /\ rx'.pc = "shrink" /\ rx'.fds = rx.fds /\ rx'.rev = rx.rev /\ rx'.i = rx.i
            /\ rx'.idx = k
        BY <2>1, <4>1 DEF RxStates
      <4> QED BY <1>2, <2>1, <2>2, <3>2, <4>2, <4>3 DEF RxInv, Looping
    <3> QED BY <3>1, <3>2
  <2>4. UNCHANGED <<cache, pos, disc>>
    BY <1>2 DEF tables
  <2> QED BY <1>2, <2>3, <2>4, Kept DEF TypeInv
<1> QED BY <1>1, <1>2 DEF node_rx_unlink

(* The count less one keeps the types, from the value that the search read *)
(* or from the one of now: below zero the step is a fault.                 *)
LEMMA RxShrinkTyped ==
  ASSUME TypeInv, node_rx_shrink
  PROVE  TypeInv'
<1>1. CASE Crash("underflow")
  BY <1>1, CrashTyped DEF Faults
<1>2. ASSUME NEW n \in {pos, rx.pos}, n > 0, rx.pc = "shrink", pos' = n - 1,
             rx' = [rx EXCEPT !.pc = "move", !.pos = n - 1],
             UNCHANGED <<cache, intf, ctrl, sock, ids, bridge, wq, disc, host, history, fault>>
      PROVE  TypeInv'
  <2>1. RxInv /\ rx \in RxStates /\ n \in 0..MaxNodes
    BY DEF TypeInv, RxInv, RxStates, TablesInv
  <2>2. n - 1 \in CacheSlots /\ n - 1 \in 0..MaxNodes
    BY <1>2, <2>1, ConstantsAssumption DEF CacheSlots
  <2>3. rx' \in RxStates
    BY <1>2, <2>1, <2>2, Zenon DEF RxStates, RxPcs
  <2>4. /\ rx'.pc = "move" /\ rx'.fds = rx.fds /\ rx'.rev = rx.rev /\ rx'.i = rx.i
        /\ rx'.idx = rx.idx /\ rx'.pos = n - 1
    BY <1>2, <2>1 DEF RxStates
  <2>5. RxInv'
    BY <1>2, <2>1, <2>2, <2>3, <2>4 DEF RxInv, Looping
  <2>6. TablesInv' /\ FillInv'
    BY <1>2, <2>2 DEF TypeInv, TablesInv, FillInv
  <2> QED BY <1>2, <2>5, <2>6, Kept DEF TypeInv
<1> QED BY <1>1, <1>2 DEF node_rx_shrink

(* Moving the last entry keeps the types.                                  *)
LEMMA RxMoveTyped ==
  ASSUME TypeInv, node_rx_move
  PROVE  TypeInv'
<1>1. /\ rx.pc = "move"
      /\ cache' = node_cache_remove_at(cache, rx.pos + 1, rx.idx)
      /\ rx' = [rx EXCEPT !.pc = "free"]
      /\ UNCHANGED <<pos, intf, ctrl, sock, ids, bridge, wq, disc, host, history, fault>>
  BY DEF node_rx_move
<1>2. RxInv /\ TablesInv /\ rx.idx \in CacheSlots /\ rx.pos \in CacheSlots
  BY <1>1 DEF TypeInv, RxInv
<1>3. cache' \in [CacheSlots -> Slots]
  <2>1. cache \in [CacheSlots -> Slots] /\ cache[rx.pos] \in Slots
    BY <1>2 DEF TablesInv
  <2>2. PICK n : n = rx.pos + 1
    OBVIOUS
  <2>3. cache' = [cache EXCEPT ![rx.idx] = cache[n - 1]]
    BY <1>1, <2>2 DEF node_cache_remove_at
  <2>4. n - 1 = rx.pos
    BY <1>2, <2>2, ConstantsAssumption DEF CacheSlots
  <2> QED BY <2>1, <2>3, <2>4
<1>4. TablesInv' /\ FillInv'
  BY <1>1, <1>2, <1>3 DEF TypeInv, TablesInv, FillInv
<1>5. RxInv'
  BY <1>1, <1>2, RxMoves DEF Looping
<1> QED BY <1>1, <1>4, <1>5, Kept DEF TypeInv

(* Freeing its blocks keeps the types.                                     *)
LEMMA RxFreeTyped ==
  ASSUME TypeInv, node_rx_free
  PROVE  TypeInv'
<1>1. CASE Crash("stale_remove")
  BY <1>1, CrashTyped DEF Faults
<1>2. CASE /\ rx.pc = "free"
           /\ free_blocks(rx.inf)
           /\ rx' = RxNext
           /\ UNCHANGED <<cache, pos, sock, ids, bridge, wq, disc, host, history>>
  <2>1. TablesInv' /\ FaultInv'
    BY <1>2, FreeTyped DEF TypeInv, TablesInv
  <2>2. RxInv'
    BY <1>2, RxNextTyped DEF TypeInv, Looping
  <2> QED BY <1>2, <2>1, <2>2, Kept DEF TypeInv
<1> QED BY <1>1, <1>2 DEF node_rx_free

(* An address that discovery reports keeps the types.                      *)
LEMMA FilterTyped ==
  ASSUME TypeInv, NEW a \in Addrs, node_filter(a)
  PROVE  TypeInv'
<1>1. /\ disc' = [disc EXCEPT !.pc = "create", !.addr = a]
      /\ UNCHANGED <<tables, ids, bridge, wq, rx, host, history, fault>>
  BY DEF node_filter
<1>2. disc \in DiscStates
  BY DEF TypeInv, DiscInv
<1>3. disc' \in DiscStates
  BY <1>1, <1>2, Zenon DEF DiscStates
<1>4. disc'.pc = "create"
  BY <1>1, <1>2 DEF DiscStates
<1>5. DiscInv'
  BY <1>3, <1>4 DEF DiscInv
<1>6. FillInv'
  BY <1>1, <1>4 DEF TypeInv, FillInv, tables
<1> QED BY <1>1, <1>5, <1>6, Kept DEF TypeInv

(* Discovery sleeps again.                                                 *)
LEMMA SleepTyped ==
  ASSUME TypeInv, UNCHANGED <<cache, pos>>, disc' = DiscSleeping(FALSE)
  PROVE  DiscInv' /\ FillInv'
<1>1. disc' \in DiscStates
  BY Values
<1>2. disc'.pc = "sleep"
  BY DEF DiscSleeping
<1> QED BY <1>1, <1>2 DEF TypeInv, DiscInv, FillInv

(* The allocation of an interface keeps the types: a block that is taken   *)
(* gets its id and its control block in the same step.                     *)
LEMMA CreateInterfaceTyped ==
  ASSUME TypeInv, node_create_interface
  PROVE  TypeInv'
<1>1. UNCHANGED <<cache, pos, sock, bridge, wq, rx, host, history, fault>>
  BY DEF node_create_interface
<1>2. CASE disc' = DiscSleeping(FALSE) /\ UNCHANGED <<ctrl, intf, ids>>
  <2>1. DiscInv' /\ FillInv'
    BY <1>1, <1>2, SleepTyped
  <2> QED BY <1>1, <1>2, <2>1, Kept DEF TypeInv, tables
<1>3. ASSUME NEW b \in IntfBlocks, free_ctrl >= 0,
             ctrl' = [ctrl EXCEPT ![free_ctrl] = [used |-> TRUE, sock |-> -1]],
             intf' = [intf EXCEPT ![b] = [used |-> TRUE, id |-> id_counter,
                                          ctrl |-> free_ctrl]],
             new_interface_id, created' = created + 1,
             disc' = [disc EXCEPT !.pc = "fill", !.inf = b, !.id = id_counter]
      PROVE  TypeInv'
  <2>1. TablesInv /\ IdsInv /\ DiscInv /\ FillInv
    BY DEF TypeInv
  <2>2. PICK c \in CtrlBlocks : c = free_ctrl
    BY <1>3, FreeIndex
  <2>3. [used |-> TRUE, sock |-> -1] \in Controls
    BY DEF Controls
  <2>4. [used |-> TRUE, id |-> id_counter, ctrl |-> c] \in Interfaces
    BY <2>1, <2>2 DEF Interfaces, IdsInv
  <2>5. ctrl' \in [CtrlBlocks -> Controls]
    BY <1>3, <2>1, <2>3 DEF TablesInv
  <2>6. intf' \in [IntfBlocks -> Interfaces]
    BY <1>3, <2>1, <2>2, <2>4 DEF TablesInv
  <2>7. ASSUME NEW d \in IntfBlocks, intf'[d].used
        PROVE  intf'[d].id \in InterfaceIds /\ intf'[d].ctrl \in CtrlBlocks
    <3>1. CASE d = b
      BY <1>3, <2>1, <2>2, <3>1 DEF TablesInv, IdsInv
    <3>2. CASE d # b
      <4>1. intf'[d] = intf[d]
        BY <1>3, <2>1, <3>2 DEF TablesInv
      <4> QED BY <2>1, <2>7, <4>1 DEF TablesInv
    <3> QED BY <3>1, <3>2
  <2>8. TablesInv'
    BY <1>1, <2>1, <2>5, <2>6, <2>7 DEF TablesInv
  <2>9. IdsInv'
    BY <1>3, <2>1, ConstantsAssumption
    DEF IdsInv, new_interface_id, InterfaceIds, INTERFACE_ID_START
  <2>10. disc' \in DiscStates
    <3>1. id_counter \in InterfaceIds \cup {0} /\ b \in IntfBlocks \cup {NULL}
      BY <2>1 DEF IdsInv
    <3> QED BY <1>3, <2>1, <3>1, Zenon DEF DiscInv, DiscStates
  <2>11. disc'.pc = "fill" /\ disc'.inf = b
    BY <1>3, <2>1 DEF DiscInv, DiscStates
  <2>12. DiscInv'
    BY <2>10, <2>11 DEF DiscInv
  <2>13. FillInv'
    BY <1>1, <2>1, <2>11 DEF FillInv
  <2> QED BY <1>1, <2>8, <2>9, <2>12, <2>13, Kept DEF TypeInv
<1> QED BY <1>2, <1>3 DEF node_create_interface

(* The entry that node_cache_add writes keeps the types.                   *)
LEMMA FillTyped ==
  ASSUME TypeInv, node_cache_add_fill
  PROVE  TypeInv'
<1>1. UNCHANGED <<pos, intf, sock, ids, bridge, wq, rx, host, history>>
  BY DEF node_cache_add_fill
<1>2. TablesInv /\ DiscInv /\ FillInv /\ disc \in DiscStates /\ disc.inf \in IntfBlocks
  BY DEF TypeInv, DiscInv, node_cache_add_fill
<1>3. CASE /\ ctrl' = [ctrl EXCEPT ![intf[disc.inf].ctrl] = FreeCtrl]
           /\ k_mem_slab_free
           /\ disc' = DiscSleeping(FALSE)
           /\ UNCHANGED cache
  <2>1. DiscInv' /\ FillInv'
    BY <1>1, <1>3, SleepTyped
  <2>2. TablesInv'
    BY <1>1, <1>2, <1>3, Values DEF TablesInv
  <2>3. FaultInv'
    BY <1>3 DEF k_mem_slab_free, FaultInv, Faults
  <2> QED BY <1>1, <2>1, <2>2, <2>3, Kept DEF TypeInv
<1>4. CASE /\ pos < MaxNodes
           /\ cache' = [cache EXCEPT ![pos] =
                [sock |-> -1, id |-> intf[disc.inf].id, addr |-> disc.addr,
                 inf |-> disc.inf]]
           /\ disc' = [disc EXCEPT !.pc = "commit", !.pos = pos]
           /\ UNCHANGED <<ctrl, fault>>
  <2> DEFINE e == [sock |-> -1, id |-> intf[disc.inf].id, addr |-> disc.addr,
                   inf |-> disc.inf]
  <2>1. pos \in CacheSlots /\ pos \in Nat
    BY <1>2, <1>4, ConstantsAssumption DEF TablesInv, CacheSlots
  <2>2. e \in Slots /\ e.sock = -1
    <3>1. intf[disc.inf].id \in InterfaceIds \cup {0}
      BY <1>2 DEF TablesInv, Interfaces
    <3>2. disc.addr \in Addrs \cup {NoAddr}
      BY <1>2 DEF DiscStates
    <3> QED BY <1>2, <3>1, <3>2 DEF Slots
  <2> HIDE DEF e
  <2>3. cache' = [cache EXCEPT ![pos] = e]
    BY <1>4 DEF e
  <2>4. TablesInv'
    BY <1>1, <1>2, <1>4, <2>2, <2>3 DEF TablesInv
  <2>5. disc' \in DiscStates
    BY <1>2, <1>4, <2>1, Zenon DEF DiscStates
  <2>6. disc'.pc = "commit" /\ disc'.pos = pos
    BY <1>2, <1>4 DEF DiscStates
  <2>7. DiscInv'
    BY <2>5, <2>6 DEF DiscInv
  <2>8. FillInv'
    BY <1>1, <2>1, <2>6 DEF FillInv
  <2> QED BY <1>1, <1>4, <2>4, <2>7, <2>8, Kept DEF TypeInv
<1> QED BY <1>3, <1>4 DEF node_cache_add_fill

(* The count that node_cache_add advances keeps the types, from the value  *)
(* it read before or from the one of now: both are slots of the array.     *)
LEMMA CommitTyped ==
  ASSUME TypeInv, node_cache_add_commit
  PROVE  TypeInv'
<1>1. /\ disc.pc = "commit" /\ pos' \in {pos + 1, disc.pos + 1}
      /\ disc' = [disc EXCEPT !.pc = "announce"]
      /\ UNCHANGED <<cache, intf, ctrl, sock, ids, bridge, wq, rx, host, history, fault>>
  BY DEF node_cache_add_commit
<1>2. TablesInv /\ FillInv /\ disc \in DiscStates
  BY DEF TypeInv, DiscInv
<1>3. disc.pos \in CacheSlots /\ pos \in CacheSlots
  BY <1>1, <1>2 DEF FillInv
<1>4. pos' \in 0..MaxNodes
  BY <1>1, <1>2, <1>3, ConstantsAssumption DEF TablesInv, CacheSlots
<1>5. TablesInv'
  BY <1>1, <1>2, <1>4 DEF TablesInv
<1>6. disc' \in DiscStates
  BY <1>1, <1>2, Zenon DEF DiscStates
<1>7. disc'.pc = "announce"
  BY <1>1, <1>2 DEF DiscStates
<1>8. DiscInv'
  BY <1>6, <1>7 DEF DiscInv
<1>9. FillInv'
  BY <1>7 DEF FillInv
<1> QED BY <1>1, <1>5, <1>8, <1>9, Kept DEF TypeInv

(* The announcement of a module keeps the types.                           *)
LEMMA InsertedTyped ==
  ASSUME TypeInv, svc_send_module_inserted
  PROVE  TypeInv'
<1>1. CASE Crash("stale_announce")
  BY <1>1, CrashTyped DEF Faults
<1>2. CASE /\ ins' = [ins EXCEPT ![intf[disc.inf].id] = @ + 1]
           /\ disc' = DiscSleeping(FALSE)
           /\ UNCHANGED <<tables, ids, bridge, wq, rx, rem, ap, history, fault>>
  <2>1. UNCHANGED <<cache, pos>>
    BY <1>2 DEF tables
  <2>2. DiscInv' /\ FillInv'
    BY <1>2, <2>1, SleepTyped
  <2>3. ins' \in [InterfaceIds -> Nat]
    <3>1. ins \in [InterfaceIds -> Nat]
      BY DEF TypeInv, HostInv
    <3>2. \A x \in InterfaceIds : ins[x] + 1 \in Nat
      BY <3>1
    <3> QED BY <1>2, <3>1, <3>2
  <2>4. HostInv'
    BY <1>2, <2>3 DEF TypeInv, HostInv
  <2> QED BY <1>2, <2>2, <2>4, Kept DEF TypeInv
<1> QED BY <1>1, <1>2 DEF svc_send_module_inserted

(* The host that handles a removal keeps the types.                        *)
LEMMA HostRemovedTyped ==
  ASSUME TypeInv, NEW id \in InterfaceIds, ap_module_removed(id)
  PROVE  TypeInv'
<1> DEFINE conn == [c \in ApCports |->
                      IF ap.conn[c].st = "open" /\ ap.conn[c].id = id
                      THEN [ap.conn[c] EXCEPT !.st = "closing"] ELSE ap.conn[c]]
           seen == [ap.seen EXCEPT ![id] = @ + 1]
<1>1. ap \in Hosts
  BY DEF TypeInv, HostInv
<1>2. /\ UNCHANGED <<tables, ids, bridge, wq, rx, disc, ins, rem, history, fault>>
      /\ ap' = [ap EXCEPT !.seen = seen, !.conn = conn]
  BY <1>1 DEF ap_module_removed, Hosts
<1>3. conn \in [ApCports -> Connections]
  <2>1. \A c \in ApCports : ap.conn[c] \in Connections
    BY <1>1 DEF Hosts
  <2>2. \A r \in Connections : [r EXCEPT !.st = "closing"] \in Connections
    BY DEF Connections
  <2> QED BY <2>1, <2>2
<1>4. seen \in [InterfaceIds -> Nat]
  <2>1. ap.seen \in [InterfaceIds -> Nat]
    BY <1>1 DEF Hosts
  <2>2. \A x \in InterfaceIds : ap.seen[x] + 1 \in Nat
    BY <2>1
  <2> QED BY <2>1, <2>2
<1> HIDE DEF conn, seen
<1>5. ap' \in Hosts
  BY <1>1, <1>2, <1>3, <1>4, Zenon DEF Hosts
<1>6. HostInv'
  BY <1>2, <1>5 DEF TypeInv, HostInv
<1>7. UNCHANGED <<cache, pos, disc>>
  BY <1>2 DEF tables
<1> QED BY <1>2, <1>6, <1>7, Kept DEF TypeInv

(* The nodes change their sockets only.                                    *)
LEMMA SocketTyped ==
  ASSUME TypeInv, NEW f \in Fds, NEW s \in Sockets, sock' = [sock EXCEPT ![f] = s],
         UNCHANGED <<cache, pos, intf, ctrl, ids, bridge, wq, rx, disc, host, fault>>,
         HistoryInv'
  PROVE  TypeInv'
<1>1. TablesInv'
  BY DEF TypeInv, TablesInv
<1> QED BY <1>1, Kept DEF TypeInv

(* What a node does to its connection keeps the types.                     *)
LEMMA PeerTyped ==
  ASSUME TypeInv, NEW f \in Fds,
         \/ PeerSendsPart(f)
         \/ \E n \in NodeCports : PeerSends(f, n)
         \/ PeerCloses(f)
         \/ PeerResets(f)
  PROVE  TypeInv'
<1>1. sock \in [Fds -> Sockets] /\ sock[f] \in Sockets
  BY DEF TypeInv, TablesInv
<1>2. CASE PeerSendsPart(f)
  <2>1. sock' = [sock EXCEPT ![f] = [sock[f] EXCEPT !.part = TRUE]]
    BY <1>1, <1>2 DEF PeerSendsPart
  <2>2. [sock[f] EXCEPT !.part = TRUE] \in Sockets
    BY <1>1, Zenon DEF Sockets
  <2> QED BY <1>2, <2>1, <2>2, SocketTyped, Kept DEF PeerSendsPart
<1>3. ASSUME NEW n \in NodeCports, PeerSends(f, n)
      PROVE  TypeInv'
  <2> DEFINE r == [sock[f] EXCEPT !.part = FALSE, !.inq = Append(@, n)]
  <2>1. sock' = [sock EXCEPT ![f] = r]
    BY <1>1, <1>3, Zenon DEF PeerSends, Sockets
  <2>2. r \in Sockets
    <3>1. Append(sock[f].inq, n) \in Seq(NodeCports)
      BY <1>1 DEF Sockets
    <3> QED BY <1>1, <3>1, Zenon DEF Sockets
  <2>3. HistoryInv'
    <3>1. sent' \in Counts
      BY <1>3 DEF PeerSends, TypeInv, HistoryInv, Counts
    <3> QED BY <1>3, <3>1 DEF PeerSends, TypeInv, HistoryInv
  <2> HIDE DEF r
  <2> QED BY <1>3, <2>1, <2>2, <2>3, SocketTyped DEF PeerSends
<1>4. CASE PeerCloses(f)
  <2>1. sock' = [sock EXCEPT ![f] = [sock[f] EXCEPT !.peer = "eof"]]
    BY <1>1, <1>4 DEF PeerCloses
  <2>2. [sock[f] EXCEPT !.peer = "eof"] \in Sockets
    BY <1>1, Zenon DEF Sockets
  <2> QED BY <1>4, <2>1, <2>2, SocketTyped, Kept DEF PeerCloses
<1>5. CASE PeerResets(f)
  <2> DEFINE r == [sock[f] EXCEPT !.peer = "err", !.part = FALSE, !.inq = <<>>]
  <2>1. sock' = [sock EXCEPT ![f] = r]
    BY <1>1, <1>5, Zenon DEF PeerResets, Sockets
  <2>2. r \in Sockets
    <3>1. <<>> \in Seq(NodeCports)
      OBVIOUS
    <3> QED BY <1>1, <3>1, Zenon DEF Sockets
  <2> HIDE DEF r
  <2> QED BY <1>5, <2>1, <2>2, SocketTyped, Kept DEF PeerResets
<1> QED BY <1>2, <1>3, <1>4, <1>5

(* Every step keeps the types.                                             *)
LEMMA TypeStep ==
  ASSUME TypeInv, [Next]_vars
  PROVE  TypeInv'
<1>1. CASE WqStep
  BY <1>1, StartTyped, StopTyped, StopNextTyped, StopDoneTyped, CreateTyped,
     ConnectedTyped, ConnectFailedTyped, ConnDestroyTyped, SubmitTyped, WriteOkTyped,
     SendFailedTyped, WriteFailedTyped DEF WqStep
<1>2. CASE RxStep
  BY <1>2, RxStartTyped, RxPopulateTyped, RxFdsLenTyped, RxPollFailedTyped, RxPollTyped,
     RxDispatchTyped, RxReceiveTyped, RxRemoveTyped, RxCloseTyped, RxUnlinkTyped,
     RxShrinkTyped, RxMoveTyped, RxFreeTyped DEF RxStep
<1>3. CASE DiscStep
  BY <1>3, FilterTyped, CreateInterfaceTyped, FillTyped, CommitTyped, InsertedTyped
  DEF DiscStep
<1>4. CASE PeerStep
  <2>1. CASE \E id \in InterfaceIds : ap_module_removed(id)
    BY <2>1, HostRemovedTyped
  <2>2. ASSUME NEW f \in Fds,
               PeerSendsPart(f) \/ (\E n \in NodeCports : PeerSends(f, n))
               \/ PeerCloses(f) \/ PeerResets(f)
        PROVE  TypeInv'
    BY <2>2, PeerTyped
  <2> QED BY <1>4, <2>1, <2>2 DEF PeerStep
<1>5. CASE UNCHANGED vars
  <2>1. UNCHANGED <<tables, ids, bridge, wq, rx, disc, host, history, fault>>
        /\ UNCHANGED <<cache, pos, disc>>
    BY <1>5 DEF vars, tables
  <2> QED BY <2>1, Kept DEF TypeInv
<1> QED BY <1>1, <1>2, <1>3, <1>4, <1>5 DEF Next

(* The bridge keeps its types whatever the AP and the nodes do, crashes    *)
(* included: a cache index is used within the array, a descriptor within   *)
(* its range, and node_cache_pos never passes the end of the array, also   *)
(* when disc stores a value of it that it loaded before.                   *)
THEOREM BridgeTyped == Spec => []TypeOK
<1>1. Init => TypeInv
  BY TypeInit
<1>2. TypeInv /\ [Next]_vars => TypeInv'
  BY TypeStep
<1>3. TypeInv => TypeOK
  BY TypeInvImplies
<1> QED BY <1>1, <1>2, <1>3, PTL DEF Spec

-----------------------------------------------------------------------------
(* While the nodes keep their connections.                                 *)

(* The setting of the run steady: no node closes or resets a connection,   *)
(* and the AP starts the SVC once.  It may connect, disconnect and write,  *)
(* nodes may refuse connections and send, and equal priorities may be      *)
(* time-sliced.  A slot of fds that was never written does not happen to   *)
(* hold the number of a descriptor.                                        *)
Steady ==
  /\ PeerFaults \cap {"close", "reset"} = {}
  /\ ApCommands \cap {"stop", "reboot"} = {}
  /\ StaleFds \cap Fds = {}

(* A socket that nobody will close: it is open and not being connected.    *)
Usable(f) == f \in Fds /\ sock[f].open /\ ~(wq.pc = "connect" /\ wq.fd = f)

(* The slots in use, with the one that disc has filled and not committed.  *)
Filled(i) == i \in CacheSlots /\ (i < pos \/ (disc.pc = "commit" /\ i = pos))

(* The control block of the interface in a slot.                           *)
Control(i) == intf[cache[i].inf].ctrl

(* The slot that a search for its id finds.                                *)
First(i) == \A j \in CacheSlots : j < i => cache[j].id # cache[i].id

(* Every node has its interface and a control block of its own, which      *)
(* knows the same socket, and the node that disc adds will.                *)
LinkInv ==
  /\ \A i \in CacheSlots : Filled(i) =>
       /\ LiveIntf(cache[i].inf, cache[i].id)
       /\ ctrl[Control(i)].used
       /\ cache[i].sock = ctrl[Control(i)].sock
  /\ \A i, j \in CacheSlots : Filled(i) /\ Filled(j) /\ i # j => Control(i) # Control(j)
  /\ disc.pc \in {"fill", "commit", "announce"} => LiveIntf(disc.inf, disc.id)
  /\ disc.pc = "fill" =>
       /\ ctrl[intf[disc.inf].ctrl].used
       /\ ctrl[intf[disc.inf].ctrl].sock = -1
       /\ \A i \in CacheSlots : Filled(i) => Control(i) # intf[disc.inf].ctrl
  /\ disc.pc = "commit" => disc.pos = pos

(* The socket of a node is usable and was opened for it.                   *)
SockInv ==
  /\ \A f \in Fds : sock[f].peer = "up"
  /\ \A i \in CacheSlots : Filled(i) /\ cache[i].sock # -1 =>
       Usable(cache[i].sock) /\ sock[cache[i].sock].owner = cache[i].id

(* The node that wq connects to has not moved and has no socket; the       *)
(* socket that wq writes to is the one of the connection's interface.      *)
WqSteady ==
  /\ wq.pc \in {"idle", "connect", "send"}
  /\ wq.pc = "connect" =>
       /\ wq.idx \in CacheSlots /\ wq.idx < pos
       /\ cache[wq.idx].inf = wq.inf /\ cache[wq.idx].id = wq.id
       /\ cache[wq.idx].sock = -1
       /\ First(wq.idx)
       /\ sock[wq.fd].open /\ sock[wq.fd].owner = wq.id
       /\ ap.up /\ wq.ap_cport # 0
  /\ wq.pc = "send" => Usable(wq.fd) /\ sock[wq.fd].owner = ap.conn[wq.ap_cport].id

(* rx removes no node: each descriptor that it polls is usable and brings  *)
(* messages only.                                                          *)
RxSteady ==
  /\ rx.pc \notin {"remove", "destroy", "unlink", "shrink", "move", "free"}
  /\ ~rx.flag
  /\ \A j \in DOMAIN rx.fds : rx.fds[j] \in Fds => Usable(rx.fds[j])
  /\ rx.pc \in {"loop", "recv"} =>
       \A j \in DOMAIN rx.fds :
         rx.fds[j] \in Fds \cup {-1} => rx.rev[j] \in {"none", "POLLIN"}
  /\ rx.pc = "recv" => rx.idx < pos /\ cache[rx.idx].sock = rx.fds[rx.i]

(* AP cport c leads to the node that it is connected to, over a socket.    *)
Connected(c) ==
  /\ node_ap_map[c].node_id = ap.conn[c].id
  /\ node_ap_map[c].node_cport = ap.conn[c].cport
  /\ \E i \in CacheSlots :
       /\ i < pos
       /\ cache[i].inf = node_ap_map[c].node_intf
       /\ cache[i].id = ap.conn[c].id
       /\ cache[i].sock # -1
       /\ First(i)

(* The table and the AP agree.                                             *)
RouteSteady ==
  /\ node_ap_map[0].node_id = SVC_INF_ID
  /\ ap.conn[0].st = "free"
  /\ \A c \in ApCports \ {0} :
       /\ ap.conn[c].st = "free" => node_ap_map[c] = NoConnection
       /\ ap.conn[c].st # "free" => Connected(c)
  /\ ~ap.up => \A c \in ApCports : ap.conn[c].st = "free"

SteadyInv ==
  /\ LinkInv /\ SockInv /\ WqSteady /\ RxSteady /\ RouteSteady
  /\ RxRouting /\ TxRouting /\ NoFault

(* At power-up nothing is connected and nothing is in the cache.           *)
LEMMA SteadyInit == Init => SteadyInv
<1> SUFFICES ASSUME Init PROVE SteadyInv
  OBVIOUS
<1>1. disc.pc = "sleep" /\ wq.pc = "idle" /\ pos = 0
  BY DEF Init, DiscSleeping, WqIdle
<1>2. \A i \in CacheSlots : ~Filled(i)
  BY <1>1, ConstantsAssumption DEF Filled, CacheSlots
<1>3. LinkInv
  BY <1>1, <1>2 DEF LinkInv
<1>4. SockInv
  BY <1>2 DEF Init, SockInv, ClosedSocket
<1>5. WqSteady
  BY <1>1 DEF WqSteady
<1>6. RxSteady
  BY DEF Init, RxSteady
<1>7. RouteSteady
  <2>1. \A c \in ApCports : node_ap_map[c] = NoConnection /\ ap.conn[c] = NotConnected
    BY DEF Init
  <2>2. 0 \in ApCports
    BY ConstantsAssumption DEF ApCports
  <2> QED BY <2>1, <2>2 DEF RouteSteady, NoConnection, NotConnected
<1>8. RxRouting /\ TxRouting /\ NoFault
  BY DEF Init, RxRouting, TxRouting, NoFault
<1> QED BY <1>3, <1>4, <1>5, <1>6, <1>7, <1>8 DEF SteadyInv

-----------------------------------------------------------------------------
(* What a step leaves alone.                                               *)

(* A node in the cache stays where it is; it may get a socket.             *)
EntriesKept ==
  /\ pos' >= pos
  /\ \A i \in CacheSlots : i < pos =>
       /\ cache'[i].inf = cache[i].inf
       /\ cache'[i].id = cache[i].id
       /\ cache[i].sock # -1 => cache'[i].sock = cache[i].sock

SocketsKept ==
  \A f \in Fds : Usable(f) => Usable(f)' /\ sock'[f].owner = sock[f].owner

(* When the cache does not change.                                         *)
LEMMA SameEntries ==
  ASSUME TypeInv, UNCHANGED <<cache, pos>>
  PROVE  EntriesKept
<1>1. pos >= pos
  BY DEF TypeInv, TablesInv
<1> QED BY <1>1 DEF EntriesKept

(* When neither the sockets nor wq change.                                 *)
LEMMA SameSockets ==
  ASSUME UNCHANGED <<sock, wq>>
  PROVE  SocketsKept
  BY DEF SocketsKept, Usable

(* The numbers below pos.                                                  *)
LEMMA Below ==
  ASSUME TypeInv, TypeInv', EntriesKept, NEW i \in CacheSlots, i < pos
  PROVE  i < pos' /\ (\A j \in CacheSlots : j < i => j < pos)
<1>1. pos \in Int /\ pos' \in Int /\ i \in Int /\ \A j \in CacheSlots : j \in Int
  BY ConstantsAssumption DEF TypeInv, TablesInv, CacheSlots
<1>2. pos' >= pos
  BY DEF EntriesKept
<1> QED BY <1>1, <1>2

(* The slot that a search finds is still the one it finds.                 *)
LEMMA FirstKept ==
  ASSUME TypeInv, TypeInv', EntriesKept, NEW i \in CacheSlots, i < pos, First(i)
  PROVE  First(i)'
<1>1. ASSUME NEW j \in CacheSlots, j < i PROVE cache'[j].id # cache'[i].id
  <2>1. j < pos
    BY <1>1, Below
  <2> QED BY <1>1, <2>1 DEF EntriesKept, First
<1> QED BY <1>1 DEF First

(* A cport that leads to its node still does after a step that keeps the   *)
(* entries.                                                                *)
LEMMA ConnectedKept ==
  ASSUME TypeInv, TypeInv', EntriesKept, NEW c, Connected(c),
         node_ap_map'[c] = node_ap_map[c],
         ap'.conn[c].id = ap.conn[c].id, ap'.conn[c].cport = ap.conn[c].cport
  PROVE  Connected(c)'
<1>1. PICK i \in CacheSlots :
        /\ i < pos
        /\ cache[i].inf = node_ap_map[c].node_intf
        /\ cache[i].id = ap.conn[c].id
        /\ cache[i].sock # -1
        /\ First(i)
  BY DEF Connected
<1>2. i < pos' /\ First(i)'
  BY <1>1, Below, FirstKept
<1>3. cache'[i].inf = cache[i].inf /\ cache'[i].id = cache[i].id
      /\ cache'[i].sock = cache[i].sock
  BY <1>1 DEF EntriesKept
<1> QED BY <1>1, <1>2, <1>3 DEF Connected

(* So the table and the AP still agree after a step of another part.       *)
LEMMA RouteKept ==
  ASSUME TypeInv, TypeInv', EntriesKept, RouteSteady, UNCHANGED <<node_ap_map, ap>>
  PROVE  RouteSteady'
<1>1. \A c \in ApCports : Connected(c) => Connected(c)'
  BY ConnectedKept
<1> QED BY <1>1 DEF RouteSteady

(* rx still polls usable sockets and still holds the index of its node.    *)
LEMMA RxKept ==
  ASSUME TypeInv, TypeInv', EntriesKept, SocketsKept, RxSteady, UNCHANGED rx
  PROVE  RxSteady'
<1>1. \A f : Usable(f) => Usable(f)'
  BY DEF SocketsKept, Usable
<1>2. ASSUME rx.pc = "recv" PROVE rx.idx < pos' /\ cache'[rx.idx].sock = rx.fds[rx.i]
  <2>1. rx.idx \in CacheSlots /\ rx.idx < pos /\ rx.fds[rx.i] \in Fds
        /\ cache[rx.idx].sock = rx.fds[rx.i]
    BY <1>2 DEF RxSteady, TypeInv, RxInv
  <2>2. cache[rx.idx].sock # -1
    BY <2>1, ConstantsAssumption DEF Fds
  <2> QED BY <2>1, <2>2, Below DEF EntriesKept
<1> QED BY <1>1, <1>2 DEF RxSteady

(* LinkInv is about the slots that are filled.                             *)
LEMMA LinkKept ==
  ASSUME LinkInv, UNCHANGED <<cache, pos, intf, ctrl>>,
         \/ /\ disc'.pc = disc.pc /\ disc'.inf = disc.inf /\ disc'.id = disc.id
            /\ disc'.pos = disc.pos
         \/ disc'.pc \in {"sleep", "create"}
  PROVE  LinkInv' /\ \A i \in CacheSlots : Filled(i)' => Filled(i)
<1>1. \A i \in CacheSlots : Filled(i)' => Filled(i)
  BY DEF Filled
<1>2. \A i \in CacheSlots : Filled(i)' =>
        /\ LiveIntf(cache[i].inf, cache[i].id)'
        /\ (ctrl[Control(i)].used)'
        /\ (cache[i].sock = ctrl[Control(i)].sock)'
  BY <1>1 DEF LinkInv, LiveIntf, Control
<1>3. \A i, j \in CacheSlots : Filled(i)' /\ Filled(j)' /\ i # j => Control(i)' # Control(j)'
  BY <1>1 DEF LinkInv, Control
<1>4. disc'.pc \in {"fill", "commit", "announce"} => LiveIntf(disc.inf, disc.id)'
  BY DEF LinkInv, LiveIntf
<1>5. disc'.pc = "fill" =>
       /\ (ctrl[intf[disc.inf].ctrl].used)'
       /\ (ctrl[intf[disc.inf].ctrl].sock = -1)'
       /\ \A i \in CacheSlots : Filled(i)' => Control(i)' # (intf[disc.inf].ctrl)'
  BY <1>1 DEF LinkInv, Control
<1>6. disc'.pc = "commit" => disc'.pos = pos'
  BY DEF LinkInv
<1> QED BY <1>1, <1>2, <1>3, <1>4, <1>5, <1>6 DEF LinkInv

(* The sockets of the nodes are still theirs.                              *)
LEMMA SockKept ==
  ASSUME SockInv, UNCHANGED cache, \A i \in CacheSlots : Filled(i)' => Filled(i),
         SocketsKept, \A f \in Fds : sock'[f].peer = "up"
  PROVE  SockInv'
<1>1. ASSUME NEW i \in CacheSlots, Filled(i)', cache'[i].sock # -1
      PROVE  Usable(cache[i].sock)' /\ sock'[cache[i].sock].owner = cache[i].id
  <2>1. PICK f : f = cache[i].sock
    OBVIOUS
  <2>2. Usable(f) /\ sock[f].owner = cache[i].id /\ f \in Fds
    BY <1>1, <2>1 DEF SockInv, Usable
  <2>3. Usable(f)' /\ sock'[f].owner = cache[i].id
    BY <2>2 DEF SocketsKept
  <2> QED BY <2>1, <2>3 DEF Usable
<1> QED BY <1>1 DEF SockInv

(* A step without traffic or fault keeps the properties of the history.    *)
LEMMA HistoryKept ==
  ASSUME SteadyInv, UNCHANGED <<from_nodes, to_nodes, fault>>
  PROVE  RxRouting' /\ TxRouting' /\ NoFault'
  BY DEF SteadyInv, RxRouting, TxRouting, NoFault

(* wq is idle, or left alone by a step that changes no entry and no socket *)
(* in use.                                                                 *)
LEMMA WqKept ==
  ASSUME TypeInv, TypeInv', WqSteady, UNCHANGED wq, EntriesKept, SocketsKept,
         \A i \in CacheSlots : i < pos => cache'[i].sock = cache[i].sock,
         \A f \in Fds : sock[f].open => sock'[f].open /\ sock'[f].owner = sock[f].owner,
         ap'.up <=> ap.up, \A c \in ApCports : ap'.conn[c].id = ap.conn[c].id
  PROVE  WqSteady'
<1>1. ASSUME wq.pc = "connect"
      PROVE  /\ wq.idx < pos'
             /\ cache'[wq.idx].inf = wq.inf /\ cache'[wq.idx].id = wq.id
             /\ cache'[wq.idx].sock = -1
             /\ First(wq.idx)'
             /\ sock'[wq.fd].open /\ sock'[wq.fd].owner = wq.id
             /\ ap'.up
  <2>1. wq.idx \in CacheSlots /\ wq.idx < pos /\ First(wq.idx)
    BY <1>1 DEF WqSteady
  <2>2. PICK i \in CacheSlots : i = wq.idx
    BY <2>1
  <2>3. i < pos' /\ First(i)'
    BY <2>1, <2>2, Below, FirstKept
  <2>4. First(wq.idx)'
    BY <2>2, <2>3 DEF First
  <2>5. wq.fd \in Fds
    BY <1>1 DEF TypeInv, WqInv
  <2> QED BY <1>1, <2>1, <2>2, <2>3, <2>4, <2>5 DEF WqSteady, EntriesKept
<1>2. ASSUME wq.pc = "send"
      PROVE  Usable(wq.fd)' /\ sock'[wq.fd].owner = ap'.conn[wq.ap_cport].id
  <2>1. PICK f : f = wq.fd
    OBVIOUS
  <2>2. Usable(f) /\ sock[f].owner = ap.conn[wq.ap_cport].id /\ f \in Fds
    BY <1>2, <2>1 DEF WqSteady, Usable
  <2>3. wq.ap_cport \in ApCports
    BY DEF TypeInv, WqInv, WqStates
  <2>4. Usable(f)' /\ sock'[f].owner = sock[f].owner
    BY <2>2 DEF SocketsKept
  <2> QED BY <2>1, <2>2, <2>3, <2>4 DEF Usable
<1> QED BY <1>1, <1>2 DEF WqSteady

-----------------------------------------------------------------------------
(* Every step keeps the invariant while the nodes keep their connections.  *)

(* A step that changes neither the tables nor, in the invariant's eyes,    *)
(* disc.                                                                   *)
LEMMA TablesQuiet ==
  ASSUME TypeInv, SteadyInv, UNCHANGED tables, UNCHANGED wq,
         \/ /\ disc'.pc = disc.pc /\ disc'.inf = disc.inf /\ disc'.id = disc.id
            /\ disc'.pos = disc.pos
         \/ disc'.pc \in {"sleep", "create"}
  PROVE  LinkInv' /\ SockInv' /\ EntriesKept /\ SocketsKept
<1>1. EntriesKept /\ SocketsKept
  BY SameEntries, SameSockets DEF tables
<1>2. LinkInv' /\ \A i \in CacheSlots : Filled(i)' => Filled(i)
  BY LinkKept DEF SteadyInv, tables
<1>3. SockInv'
  BY <1>1, <1>2, SockKept DEF SteadyInv, SockInv, tables
<1> QED BY <1>1, <1>2, <1>3

(* ... and leaves wq and what the AP knows alone.                          *)
LEMMA WqQuiet ==
  ASSUME TypeInv, TypeInv', SteadyInv, UNCHANGED <<tables, wq, ap>>
  PROVE  WqSteady'
<1>1. EntriesKept /\ SocketsKept
  BY SameEntries, SameSockets DEF tables
<1> QED BY <1>1, WqKept DEF SteadyInv, tables

(* START, which the host gives once, finds an empty table.                 *)
LEMMA StartSteady ==
  ASSUME Steady, TypeInv, TypeInv', SteadyInv, control_svc_start
  PROVE  SteadyInv'
<1>1. UNCHANGED <<tables, ids, pipe, wq, rx, ins, rem, history, fault>> /\ ~ap.up
      /\ wq.pc = "idle"
  BY DEF control_svc_start, Steady
<1>2. disc'.pc = disc.pc /\ disc'.inf = disc.inf /\ disc'.id = disc.id
      /\ disc'.pos = disc.pos
  <2>1. disc \in DiscStates
    BY DEF TypeInv, DiscInv
  <2>2. disc' = disc \/ disc' = [disc EXCEPT !.susp = FALSE]
    BY DEF control_svc_start
  <2> QED BY <2>1, <2>2 DEF DiscStates
<1>3. LinkInv' /\ SockInv' /\ EntriesKept /\ SocketsKept
  BY <1>1, <1>2, TablesQuiet
<1>4. WqSteady'
  BY <1>1 DEF WqSteady
<1>5. RxSteady'
  BY <1>1, <1>3, RxKept DEF SteadyInv
<1>6. RouteSteady'
  <2>1. node_ap_map \in [ApCports -> Routes] /\ 0 \in ApCports
    BY ConstantsAssumption DEF TypeInv, BridgeInv, ApCports
  <2>2. ap'.up /\ \A c \in ApCports : ap'.conn[c] = NotConnected
    BY DEF control_svc_start, FreshHost
  <2>3. node_ap_map' = node_ap_map
        \/ node_ap_map' = node_ap_add(node_ap_map, 0, 0, SVC_INTF, SVC_INF_ID)
    BY DEF control_svc_start
  <2>4. node_ap_map[0].node_id = SVC_INF_ID
    BY DEF SteadyInv, RouteSteady
  <2>5. node_ap_map'[0].node_id = SVC_INF_ID
        /\ \A c \in ApCports \ {0} : node_ap_map'[c] = node_ap_map[c]
    BY <2>1, <2>3, <2>4 DEF node_ap_add
  <2>6. \A c \in ApCports \ {0} : node_ap_map[c] = NoConnection
    BY <1>1 DEF SteadyInv, RouteSteady
  <2>7. NotConnected.st = "free"
    BY DEF NotConnected
  <2> QED BY <2>1, <2>2, <2>5, <2>6, <2>7 DEF RouteSteady
<1>7. RxRouting' /\ TxRouting' /\ NoFault'
  BY <1>1, HistoryKept DEF history
<1> QED BY <1>3, <1>4, <1>5, <1>6, <1>7 DEF SteadyInv

(* The end of connection_create: the AP cport leads to the node in slot i. *)
LEMMA AddSteady ==
  ASSUME TypeInv, TypeInv', RouteSteady, EntriesKept, ap.up,
         NEW c \in ApCports \ {0}, NEW id, NEW n, NEW b, NEW i \in CacheSlots,
         i < pos', cache'[i].inf = b, cache'[i].id = id, cache'[i].sock # -1, First(i)',
         intf[b].id = id, connection_create_add(c, id, n, b)
  PROVE  RouteSteady'
<1>1. CASE UNCHANGED <<node_ap_map, ap>>
  BY <1>1, RouteKept
<1>2. CASE /\ node_ap_map' = node_ap_add(node_ap_map, c, n, b, intf[b].id)
           /\ ApConnected(c, id, n)
  <2>1. node_ap_map \in [ApCports -> Routes] /\ 0 \in ApCports
    BY ConstantsAssumption DEF TypeInv, BridgeInv, ApCports
  <2>2. /\ node_ap_map'[c] = [node_intf |-> b, node_cport |-> n, node_id |-> id]
        /\ \A d \in ApCports : d # c => node_ap_map'[d] = node_ap_map[d]
    BY <1>2, <2>1 DEF node_ap_add
  <2> DEFINE r == [st |-> IF ins[id] > ap.seen[id] THEN "open" ELSE "closing",
                   id |-> id, cport |-> n]
  <2>3. r.id = id /\ r.cport = n /\ r.st # "free"
    OBVIOUS
  <2>4. ap' = [ap EXCEPT !.conn[c] = r] /\ ap \in Hosts
    BY <1>2 DEF ApConnected, TypeInv, HostInv
  <2> HIDE DEF r
  <2>5. /\ ap'.up = ap.up /\ ap'.conn[c] = r
        /\ \A d \in ApCports : d # c => ap'.conn[d] = ap.conn[d]
    BY <2>4 DEF Hosts
  <2>6. Connected(c)'
    BY <2>2, <2>3, <2>5 DEF Connected
  <2>7. ASSUME NEW d \in ApCports, d # c, Connected(d) PROVE Connected(d)'
    <3>1. node_ap_map'[d] = node_ap_map[d] /\ ap'.conn[d] = ap.conn[d]
      BY <2>2, <2>5, <2>7
    <3> QED BY <2>7, <3>1, ConnectedKept
  <2>8. ap'.up
    BY <2>5
  <2>9. \A d \in ApCports \ {0} :
          /\ ap'.conn[d].st = "free" => node_ap_map'[d] = NoConnection
          /\ ap'.conn[d].st # "free" => Connected(d)'
    BY <2>2, <2>3, <2>5, <2>6, <2>7 DEF RouteSteady
  <2>10. node_ap_map'[0].node_id = SVC_INF_ID /\ ap'.conn[0].st = "free"
    BY <2>1, <2>2, <2>5 DEF RouteSteady
  <2> QED BY <2>8, <2>9, <2>10 DEF RouteSteady
<1> QED BY <1>1, <1>2 DEF connection_create_add

(* The slot that node_find_by_id returns.                                  *)
LEMMA FoundFirst ==
  ASSUME TypeInv, NEW id, node_cache_find_by_id(cache, pos, id) >= 0
  PROVE  LET k == node_cache_find_by_id(cache, pos, id) IN
         k \in CacheSlots /\ k < pos /\ cache[k].id = id /\ First(k)
<1> DEFINE S == {i \in 0..(pos - 1) : cache[i].id = id}
           k == node_cache_find_by_id(cache, pos, id)
<1>1. pos \in 0..MaxNodes
  BY DEF TypeInv, TablesInv
<1>2. k \in CacheSlots /\ k < pos /\ cache[k].id = id
  BY <1>1, CacheIndex
<1>3. \A j \in S : k <= j
  <2>1. S \in SUBSET Nat
    BY <1>1, ConstantsAssumption
  <2>2. \A j \in S : FirstIndex(S) <= j
    <3> HIDE DEF S
    <3> QED BY <2>1, FirstIndexFound
  <2> QED BY <2>2 DEF node_cache_find_by_id
<1> HIDE DEF k
<1>4. ASSUME NEW j \in CacheSlots, j < k PROVE cache[j].id # id
  <2>1. j \in 0..(pos - 1) /\ ~(k <= j)
    BY <1>1, <1>2, <1>4, ConstantsAssumption DEF CacheSlots
  <2> QED BY <1>3, <2>1
<1>5. First(k)
  BY <1>2, <1>4 DEF First
<1> QED BY <1>2, <1>5 DEF k

(* Two slots that searches find for the same id are the same.              *)
LEMMA FirstUnique ==
  ASSUME NEW i \in CacheSlots, NEW j \in CacheSlots, First(i), First(j),
         cache[i].id = cache[j].id
  PROVE  i = j
<1>1. i \in Int /\ j \in Int
  BY ConstantsAssumption DEF CacheSlots
<1>2. ~(i < j) /\ ~(j < i)
  BY DEF First
<1> QED BY <1>1, <1>2

(* CONN_CREATE: the entry with the wanted id is the first that has it;     *)
(* either it has a socket and the cport leads there at once, or a new      *)
(* socket is opened for it, which no node has.                             *)
LEMMA CreateSteady ==
  ASSUME TypeInv, TypeInv', SteadyInv, NEW c \in ApCports, NEW id \in InterfaceIds,
         NEW n \in NodeCports, svc_connection_create(c, id, n)
  PROVE  SteadyInv'
<1> DEFINE f == zsock_socket
<1>1. wq.pc = "idle" /\ ApMayConnect(c, id, n) /\ node_cache_find_by_id(cache, pos, id) >= 0
  BY DEF svc_connection_create
<1>2. PICK k \in CacheSlots : /\ k = node_cache_find_by_id(cache, pos, id)
                             /\ k < pos /\ cache[k].id = id /\ First(k)
  BY <1>1, FoundFirst
<1> DEFINE b == cache[k].inf
<1>3. ap.up /\ c # 0
  BY <1>1 DEF ApMayConnect
<1>4. (f >= 0 => f \in Fds /\ ~sock[f].open)
  BY FreeIndex
<1> HIDE DEF f
<1>5. Filled(k)
  BY <1>2 DEF Filled
<1>6. LiveIntf(b, id) /\ cache[k].sock = ctrl[intf[b].ctrl].sock /\ intf[b].id = id
  <2>1. LiveIntf(b, id) /\ cache[k].sock = ctrl[intf[b].ctrl].sock
    BY <1>2, <1>5 DEF SteadyInv, LinkInv, Control
  <2> QED BY <2>1 DEF LiveIntf
<1>7. CASE /\ n # 0 \/ ctrl[intf[b].ctrl].sock >= 0
           /\ connection_create_add(c, id, n, b)
           /\ UNCHANGED <<tables, ids, svc_ready, pipe, wq, rx, disc, ins, rem,
                          history, fault>>
  <2>1. LinkInv' /\ SockInv' /\ EntriesKept /\ SocketsKept
    BY <1>7, TablesQuiet
  <2>2. WqSteady'
    BY <1>1, <1>7 DEF WqSteady
  <2>3. RxSteady'
    BY <1>7, <2>1, RxKept DEF SteadyInv
  <2>4. cache[k].sock # -1
    <3>1. CASE n = 0
      BY <1>6, <1>7, <3>1
    <3>2. CASE n # 0
      <4>1. PICK d \in ApCports : ap.conn[d] = [st |-> "open", id |-> id, cport |-> 0]
        BY <1>1, <3>2 DEF ApMayConnect
      <4>2. ap.conn[d].st = "open" /\ ap.conn[d].id = id
        BY <4>1
      <4>3. Connected(d)
        BY <4>2 DEF SteadyInv, RouteSteady
      <4>4. PICK i \in CacheSlots : First(i) /\ cache[i].id = id /\ cache[i].sock # -1
        BY <4>2, <4>3 DEF Connected
      <4>5. i = k
        BY <1>2, <4>4, FirstUnique
      <4> QED BY <4>4, <4>5
    <3> QED BY <3>1, <3>2
  <2>5. First(k)'
    BY <1>2, <2>1, FirstKept
  <2>6. RouteSteady'
    <3>1. PICK bb : bb = b
      OBVIOUS
    <3>2. /\ k < pos' /\ cache'[k].inf = bb /\ cache'[k].id = id /\ cache'[k].sock # -1
          /\ intf[bb].id = id /\ connection_create_add(c, id, n, bb)
      BY <1>2, <1>6, <1>7, <2>4, <3>1 DEF tables
    <3> QED BY <1>2, <1>3, <2>1, <2>5, <3>2, AddSteady DEF SteadyInv
  <2>7. RxRouting' /\ TxRouting' /\ NoFault'
    BY <1>7, HistoryKept DEF history
  <2> QED BY <2>1, <2>2, <2>3, <2>6, <2>7 DEF SteadyInv
<1>8. CASE /\ ctrl[intf[b].ctrl].sock < 0 /\ f >= 0
           /\ sock' = [sock EXCEPT ![f] = [ClosedSocket EXCEPT !.open = TRUE,
                                                  !.owner = cache[k].id]]
           /\ wq' = [pc |-> "connect", inf |-> b, idx |-> k, fd |-> f,
                     ap_cport |-> c, id |-> id, cport |-> n]
           /\ UNCHANGED <<cache, pos, intf, ctrl, ids, bridge, rx, disc, host,
                          history, fault>>
  <2> DEFINE r == [ClosedSocket EXCEPT !.open = TRUE, !.owner = cache[k].id]
  <2>1. r.open /\ r.owner = id /\ r.peer = "up"
    BY <1>2 DEF ClosedSocket
  <2>2. sock \in [Fds -> Sockets] /\ f \in Fds /\ ~sock[f].open
    BY <1>4, <1>8 DEF TypeInv, TablesInv
  <2>3. sock' = [sock EXCEPT ![f] = r]
    BY <1>8
  <2> HIDE DEF r
  <2>4. sock'[f] = r /\ \A g \in Fds : g # f => sock'[g] = sock[g]
    BY <2>2, <2>3
  <2>5. \A g \in Fds : sock'[g].peer = "up"
    BY <2>1, <2>4 DEF SteadyInv, SockInv
  <2>6. wq'.pc = "connect" /\ wq'.fd = f /\ wq'.idx = k /\ wq'.inf = b /\ wq'.id = id
        /\ wq'.ap_cport = c
    BY <1>8
  <2>7. SocketsKept
    BY <2>2, <2>4, <2>6 DEF SocketsKept, Usable
  <2>8. LinkInv' /\ \A i \in CacheSlots : Filled(i)' => Filled(i)
    BY <1>8, LinkKept DEF SteadyInv
  <2>9. SockInv'
    BY <1>8, <2>5, <2>7, <2>8, SockKept DEF SteadyInv
  <2>10. EntriesKept
    BY <1>8, SameEntries
  <2>11. RxSteady' /\ RouteSteady'
    BY <1>8, <2>7, <2>10, RxKept, RouteKept DEF SteadyInv, bridge, host
  <2>12. WqSteady'
    <3>1. cache[k].sock = -1
      <4>1. cache[k].sock \in {-1} \cup Fds /\ cache[k].sock < 0
        <5>1. intf[b].ctrl \in CtrlBlocks
          BY <1>6 DEF LiveIntf, TypeInv, TablesInv
        <5> QED BY <1>6, <1>8, <5>1 DEF TypeInv, TablesInv, Controls
      <4> QED BY <4>1, ConstantsAssumption DEF Fds
    <3>2. First(k)'
      BY <1>2, <2>10, FirstKept
    <3>3. First(wq.idx)'
      BY <2>6, <3>2 DEF First
    <3> QED BY <1>2, <1>3, <1>8, <2>1, <2>4, <2>6, <3>1, <3>3 DEF WqSteady, host
  <2>13. RxRouting' /\ TxRouting' /\ NoFault'
    BY <1>8, HistoryKept DEF history
  <2> QED BY <2>8, <2>9, <2>11, <2>12, <2>13 DEF SteadyInv
<1> QED BY <1>2, <1>6, <1>7, <1>8 DEF svc_connection_create, f

(* The end of a connect: the node has not moved, so both copies of its     *)
(* socket are set, and the cport leads to it.                              *)
LEMMA ConnectedSteady ==
  ASSUME TypeInv, TypeInv', SteadyInv, node_connected
  PROVE  SteadyInv'
<1>1. wq.pc = "connect" /\ wq.fd \in Fds /\ wq.ap_cport \in ApCports
  BY DEF node_connected, TypeInv, WqInv, WqStates
<1>2. PICK k \in CacheSlots, f \in Fds, c \in ApCports \ {0} :
        k = wq.idx /\ f = wq.fd /\ c = wq.ap_cport
  BY <1>1 DEF SteadyInv, WqSteady
<1> PICK b, id, n : b = wq.inf /\ id = wq.id /\ n = wq.cport
  OBVIOUS
<1>3. /\ k < pos /\ cache[k].inf = b /\ cache[k].id = id /\ cache[k].sock = -1
      /\ First(k) /\ sock[f].open /\ sock[f].owner = id /\ ap.up
  BY <1>1, <1>2 DEF SteadyInv, WqSteady
<1>4. Filled(k) /\ LiveIntf(b, id) /\ b \in IntfBlocks /\ intf[b].id = id
  <2>1. Filled(k)
    BY <1>3 DEF Filled
  <2>2. LiveIntf(b, id)
    BY <1>3, <2>1 DEF SteadyInv, LinkInv
  <2> QED BY <2>1, <2>2 DEF LiveIntf
<1>5. PICK d : d = intf[b].ctrl
  OBVIOUS
<1>6. /\ store_socket(k, d, f)
      /\ connection_create_add(c, id, n, b)
      /\ wq' = WqIdle
      /\ UNCHANGED <<pos, intf, ids, svc_ready, rx, disc, ins, rem, from_nodes, to_nodes,
                     fault>>
  BY <1>2, <1>4, <1>5 DEF node_connected
<1>7. TablesInv /\ d \in CtrlBlocks
  BY <1>4, <1>5 DEF TypeInv, TablesInv, LiveIntf
<1>8. cache' = [cache EXCEPT ![k].sock = f] /\ ctrl' = [ctrl EXCEPT ![d].sock = f]
  BY <1>6 DEF store_socket
<1>9. /\ cache'[k].inf = b /\ cache'[k].id = id /\ cache'[k].sock = f
      /\ \A i \in CacheSlots : i # k => cache'[i] = cache[i]
      /\ ctrl'[d].sock = f /\ (ctrl'[d].used <=> ctrl[d].used)
      /\ \A e \in CtrlBlocks : e # d => ctrl'[e] = ctrl[e]
  <2>1. cache[k] \in Slots /\ cache \in [CacheSlots -> Slots]
        /\ ctrl[d] \in Controls /\ ctrl \in [CtrlBlocks -> Controls]
    BY <1>7 DEF TablesInv
  <2>2. cache'[k] = [cache[k] EXCEPT !.sock = f] /\ ctrl'[d] = [ctrl[d] EXCEPT !.sock = f]
    BY <1>7, <1>8, <2>1
  <2>3. cache'[k].inf = b /\ cache'[k].id = id /\ cache'[k].sock = f
    BY <1>3, <2>1, <2>2 DEF Slots
  <2>4. ctrl'[d].sock = f
    BY <2>1, <2>2 DEF Controls
  <2>5. ctrl'[d].used <=> ctrl[d].used
    BY <2>1, <2>2, Zenon DEF Controls
  <2>6. /\ \A i \in CacheSlots : i # k => cache'[i] = cache[i]
        /\ \A e \in CtrlBlocks : e # d => ctrl'[e] = ctrl[e]
    BY <1>8, <2>1
  <2> QED BY <2>3, <2>4, <2>5, <2>6
<1>10. EntriesKept
  <2>1. pos' >= pos
    BY <1>6, <1>7 DEF TablesInv
  <2> QED BY <1>3, <1>9, <2>1 DEF EntriesKept
<1>11. wq'.pc = "idle"
  BY <1>6 DEF WqIdle
<1>12. /\ \A g \in Fds : /\ sock'[g].open <=> sock[g].open
                         /\ sock'[g].owner = sock[g].owner /\ sock'[g].peer = sock[g].peer
       /\ SocketsKept
  <2>1. sock \in [Fds -> Sockets]
    BY <1>7 DEF TablesInv
  <2>2. ASSUME NEW g \in Fds
        PROVE  /\ sock'[g].open <=> sock[g].open
               /\ sock'[g].owner = sock[g].owner /\ sock'[g].peer = sock[g].peer
    <3>1. sock'[g] = sock[g] \/ sock'[g] = [sock[g] EXCEPT !.stray = TRUE]
      BY <1>6 DEF store_socket, pipe_send
    <3>2. sock[g] \in Sockets
      BY <2>1
    <3>3. sock'[g].open <=> sock[g].open
      BY <3>1, <3>2, Zenon DEF Sockets
    <3>4. sock'[g].owner = sock[g].owner /\ sock'[g].peer = sock[g].peer
      BY <3>1, <3>2 DEF Sockets
    <3> QED BY <3>3, <3>4
  <2> QED BY <1>11, <2>2 DEF SocketsKept, Usable
<1>13. \A i \in CacheSlots : /\ Filled(i)' <=> Filled(i)
                             /\ Control(i)' = Control(i)
                             /\ cache'[i].inf = cache[i].inf /\ cache'[i].id = cache[i].id
  BY <1>3, <1>6, <1>9 DEF Filled, Control
<1>14. Control(k) = d
  BY <1>3, <1>5 DEF Control
<1>15. \A i \in CacheSlots : Filled(i) /\ i # k => Control(i) # d /\ Control(i) \in CtrlBlocks
  <2>1. \A i \in CacheSlots : Filled(i) => Control(i) \in CtrlBlocks
    BY <1>7 DEF SteadyInv, LinkInv, LiveIntf, TablesInv, Control
  <2> QED BY <1>4, <1>14, <2>1 DEF SteadyInv, LinkInv
<1>16. LinkInv'
  <2>1. ASSUME NEW i \in CacheSlots, Filled(i)'
        PROVE  /\ LiveIntf(cache[i].inf, cache[i].id)'
               /\ ctrl'[Control(i)].used
               /\ cache'[i].sock = ctrl'[Control(i)].sock
    <3>1. /\ Filled(i) /\ LiveIntf(cache[i].inf, cache[i].id) /\ ctrl[Control(i)].used
          /\ cache[i].sock = ctrl[Control(i)].sock
      BY <1>13, <2>1 DEF SteadyInv, LinkInv
    <3>2. LiveIntf(cache[i].inf, cache[i].id)'
      BY <1>6, <1>13, <3>1 DEF LiveIntf
    <3>3. CASE i = k
      BY <1>9, <1>14, <3>1, <3>2, <3>3
    <3>4. CASE i # k
      <4>1. ctrl'[Control(i)] = ctrl[Control(i)] /\ cache'[i] = cache[i]
        BY <1>9, <1>15, <3>1, <3>4
      <4> QED BY <3>1, <3>2, <4>1
    <3> QED BY <3>3, <3>4
  <2>2. \A i, j \in CacheSlots :
          Filled(i)' /\ Filled(j)' /\ i # j => Control(i)' # Control(j)'
    BY <1>13 DEF SteadyInv, LinkInv
  <2>3. disc.pc \in {"fill", "commit", "announce"} => LiveIntf(disc.inf, disc.id)'
    BY <1>6 DEF SteadyInv, LinkInv, LiveIntf
  <2>4. ASSUME disc.pc = "fill"
        PROVE  /\ ctrl'[intf[disc.inf].ctrl].used
               /\ ctrl'[intf[disc.inf].ctrl].sock = -1
               /\ \A i \in CacheSlots : Filled(i)' => Control(i)' # intf[disc.inf].ctrl
    <3>1. /\ ctrl[intf[disc.inf].ctrl].used
          /\ ctrl[intf[disc.inf].ctrl].sock = -1
          /\ \A i \in CacheSlots : Filled(i) => Control(i) # intf[disc.inf].ctrl
          /\ LiveIntf(disc.inf, disc.id)
      BY <2>4 DEF SteadyInv, LinkInv
    <3>2. intf[disc.inf].ctrl \in CtrlBlocks /\ intf[disc.inf].ctrl # d
      BY <1>4, <1>7, <1>14, <3>1 DEF LiveIntf, TablesInv
    <3>3. ctrl'[intf[disc.inf].ctrl] = ctrl[intf[disc.inf].ctrl]
      BY <1>9, <3>2
    <3> QED BY <1>13, <3>1, <3>3
  <2>5. disc.pc = "commit" => disc.pos = pos
    BY DEF SteadyInv, LinkInv
  <2>6. \A i \in CacheSlots : Filled(i)' =>
          /\ LiveIntf(cache[i].inf, cache[i].id)'
          /\ (ctrl[Control(i)].used)'
          /\ (cache[i].sock = ctrl[Control(i)].sock)'
    BY <1>13, <2>1
  <2> QED BY <1>6, <2>2, <2>3, <2>4, <2>5, <2>6 DEF LinkInv
<1>17. SockInv'
  <2>1. ASSUME NEW i \in CacheSlots, Filled(i)', cache'[i].sock # -1
        PROVE  Usable(cache[i].sock)' /\ sock'[cache'[i].sock].owner = cache'[i].id
    <3>1. CASE i = k
      BY <1>2, <1>3, <1>9, <1>11, <1>12, <3>1 DEF Usable
    <3>2. CASE i # k
      <4>1. PICK g : g = cache[i].sock
        OBVIOUS
      <4>2. g = cache'[i].sock /\ Usable(g) /\ sock[g].owner = cache[i].id
        BY <1>9, <1>13, <2>1, <3>2, <4>1 DEF SteadyInv, SockInv
      <4>3. Usable(g)' /\ sock'[g].owner = sock[g].owner
        BY <1>11, <1>12, <4>2 DEF Usable
      <4> QED BY <1>13, <4>2, <4>3 DEF Usable
    <3> QED BY <3>1, <3>2
  <2> QED BY <1>12, <2>1 DEF SteadyInv, SockInv
<1>18. WqSteady'
  BY <1>11 DEF WqSteady
<1>19. RxSteady'
  BY <1>6, <1>10, <1>12, RxKept DEF SteadyInv
<1>20. RouteSteady'
  <2>1. First(k)'
    BY <1>3, <1>10, FirstKept
  <2>2. f # -1
    BY ConstantsAssumption DEF Fds
  <2> QED BY <1>3, <1>4, <1>6, <1>9, <1>10, <2>1, <2>2, AddSteady DEF SteadyInv
<1>21. RxRouting' /\ TxRouting' /\ NoFault'
  BY <1>6, HistoryKept
<1> QED BY <1>16, <1>17, <1>18, <1>19, <1>20, <1>21 DEF SteadyInv

(* A failed connect closes a socket that no node has.                      *)
LEMMA ConnectFailedSteady ==
  ASSUME TypeInv, TypeInv', SteadyInv, node_connect_failed
  PROVE  SteadyInv'
<1>1. /\ wq.pc = "connect" /\ wq'.pc = "idle"
      /\ sock' = [sock EXCEPT ![wq.fd] = ClosedSocket]
      /\ UNCHANGED <<cache, pos, intf, ctrl, ids, bridge, rx, disc, host, history, fault>>
  BY DEF node_connect_failed, WqIdle
<1>2. sock \in [Fds -> Sockets]
  BY DEF TypeInv, TablesInv
<1>3. \A f \in Fds : f # wq.fd => sock'[f] = sock[f]
  BY <1>1, <1>2
<1>4. SocketsKept
  BY <1>1, <1>3 DEF SocketsKept, Usable
<1>5. \A f \in Fds : sock'[f].peer = "up"
  <2>1. ClosedSocket.peer = "up"
    BY DEF ClosedSocket
  <2> QED BY <1>1, <1>2, <2>1 DEF SteadyInv, SockInv
<1>6. LinkInv' /\ \A i \in CacheSlots : Filled(i)' => Filled(i)
  BY <1>1, LinkKept DEF SteadyInv
<1>7. SockInv'
  BY <1>1, <1>4, <1>5, <1>6, SockKept DEF SteadyInv
<1>8. EntriesKept
  BY <1>1, SameEntries
<1>9. RxSteady' /\ RouteSteady'
  BY <1>1, <1>4, <1>8, RxKept, RouteKept DEF SteadyInv, bridge, host
<1>10. WqSteady'
  BY <1>1 DEF WqSteady
<1>11. RxRouting' /\ TxRouting' /\ NoFault'
  BY <1>1, HistoryKept DEF history
<1> QED BY <1>6, <1>7, <1>9, <1>10, <1>11 DEF SteadyInv

(* CONN_DESTROY frees the cport on both sides.                             *)
LEMMA ConnDestroySteady ==
  ASSUME TypeInv, TypeInv', SteadyInv, NEW c \in ApCports, svc_connection_destroy(c)
  PROVE  SteadyInv'
<1>1. /\ wq.pc = "idle"
      /\ node_ap_map' = node_ap_remove(node_ap_map, c)
      /\ ap' = [ap EXCEPT !.conn[c] = NotConnected]
      /\ UNCHANGED <<tables, ids, svc_ready, pipe, wq, rx, disc, ins, rem, history, fault>>
  BY DEF svc_connection_destroy
<1>2. LinkInv' /\ SockInv' /\ EntriesKept /\ SocketsKept
  BY <1>1, TablesQuiet
<1>3. WqSteady'
  BY <1>1 DEF WqSteady
<1>4. RxSteady'
  BY <1>1, <1>2, RxKept DEF SteadyInv
<1>5. RouteSteady'
  <2>1. node_ap_map \in [ApCports -> Routes] /\ ap \in Hosts /\ 0 \in ApCports
    BY ConstantsAssumption DEF TypeInv, BridgeInv, HostInv, ApCports
  <2>2. /\ node_ap_map'[c] = NoConnection
        /\ \A d \in ApCports : d # c => node_ap_map'[d] = node_ap_map[d]
    BY <1>1, <2>1 DEF node_ap_remove
  <2>3. /\ ap'.up = ap.up /\ ap'.conn[c] = NotConnected
        /\ \A d \in ApCports : d # c => ap'.conn[d] = ap.conn[d]
    BY <1>1, <2>1 DEF Hosts
  <2>4. ASSUME NEW d \in ApCports, d # c, Connected(d) PROVE Connected(d)'
    <3>1. node_ap_map'[d] = node_ap_map[d] /\ ap'.conn[d] = ap.conn[d]
      BY <2>2, <2>3, <2>4
    <3> QED BY <1>2, <2>4, <3>1, ConnectedKept
  <2>5. NotConnected.st = "free" /\ NoConnection.node_id = SVC_INF_ID
    BY DEF NotConnected, NoConnection
  <2>6. \A d \in ApCports \ {0} :
          /\ ap'.conn[d].st = "free" => node_ap_map'[d] = NoConnection
          /\ ap'.conn[d].st # "free" => Connected(d)'
    BY <2>2, <2>3, <2>4, <2>5 DEF SteadyInv, RouteSteady
  <2>7. node_ap_map'[0].node_id = SVC_INF_ID /\ ap'.conn[0].st = "free"
    BY <2>1, <2>2, <2>3, <2>5 DEF SteadyInv, RouteSteady
  <2>8. ~ap'.up => \A d \in ApCports : ap'.conn[d].st = "free"
    BY <2>3, <2>5 DEF SteadyInv, RouteSteady
  <2> QED BY <2>6, <2>7, <2>8 DEF RouteSteady
<1>6. RxRouting' /\ TxRouting' /\ NoFault'
  BY <1>1, HistoryKept DEF history
<1> QED BY <1>2, <1>3, <1>4, <1>5, <1>6 DEF SteadyInv

(* A message of the AP goes to a live interface that has a socket, which   *)
(* was opened for the node that the cport is connected to.                 *)
LEMMA SubmitSteady ==
  ASSUME TypeInv, TypeInv', SteadyInv, NEW c \in ApCports, ap_rx_submit(c)
  PROVE  SteadyInv'
<1>1. ap.conn[c].st = "open" /\ wq.pc = "idle"
  BY DEF ap_rx_submit
<1>2. Connected(c)
  BY <1>1 DEF SteadyInv, RouteSteady
<1>3. PICK i \in CacheSlots :
        /\ i < pos
        /\ cache[i].inf = node_ap_map[c].node_intf
        /\ cache[i].id = ap.conn[c].id
        /\ cache[i].sock # -1
        /\ node_ap_map[c].node_id = ap.conn[c].id
  BY <1>2 DEF Connected
<1>4. PICK b : b = node_ap_map[c].node_intf
  OBVIOUS
<1>5. LiveIntf(b, node_ap_map[c].node_id) /\ cache[i].sock = ctrl[intf[b].ctrl].sock
  <2>1. Filled(i)
    BY <1>3 DEF Filled
  <2> QED BY <1>3, <1>4, <2>1 DEF SteadyInv, LinkInv, Control
<1>6. b # NULL
  <2>1. b \in IntfBlocks
    BY <1>5 DEF LiveIntf
  <2> QED BY <2>1, ConstantsAssumption DEF IntfBlocks, NULL
<1>7. /\ wq' = [pc |-> "send", inf |-> b, idx |-> -1,
                fd |-> ctrl[intf[b].ctrl].sock, ap_cport |-> c,
                id |-> node_ap_map[c].node_id,
                cport |-> node_ap_map[c].node_cport]
      /\ UNCHANGED <<tables, ids, bridge, rx, disc, host, from_nodes, to_nodes, fault>>
  BY <1>4, <1>5, <1>6 DEF ap_rx_submit
<1>8. PICK f : f = cache[i].sock
  OBVIOUS
<1>9. Usable(f) /\ sock[f].owner = ap.conn[c].id
  <2>1. Filled(i)
    BY <1>3 DEF Filled
  <2> QED BY <1>3, <1>8, <2>1 DEF SteadyInv, SockInv
<1>10. wq'.pc = "send" /\ wq'.fd = f /\ wq'.ap_cport = c
  BY <1>5, <1>7, <1>8
<1>11. WqSteady'
  <2>1. Usable(f)' /\ sock'[f].owner = ap'.conn[c].id
    BY <1>7, <1>9, <1>10 DEF Usable, tables, host
  <2> QED BY <1>10, <2>1 DEF WqSteady, Usable
<1>12. SocketsKept
  BY <1>7, <1>10 DEF SocketsKept, Usable, tables
<1>13. LinkInv' /\ \A j \in CacheSlots : Filled(j)' => Filled(j)
  BY <1>7, LinkKept DEF SteadyInv, tables
<1>14. SockInv'
  BY <1>7, <1>12, <1>13, SockKept DEF SteadyInv, SockInv, tables
<1>15. EntriesKept
  BY <1>7, SameEntries DEF tables
<1>16. RxSteady' /\ RouteSteady'
  BY <1>7, <1>12, <1>15, RxKept, RouteKept DEF SteadyInv, bridge, host
<1>17. RxRouting' /\ TxRouting' /\ NoFault'
  BY <1>7, HistoryKept
<1> QED BY <1>11, <1>13, <1>14, <1>16, <1>17 DEF SteadyInv

(* The end of a write: the socket is still the node's.                     *)
LEMMA WriteOkSteady ==
  ASSUME TypeInv, TypeInv', SteadyInv, node_inf_write_ok
  PROVE  SteadyInv'
<1>1. /\ to_nodes' = to_nodes \cup
           {[to |-> ap.conn[wq.ap_cport].id, at |-> sock[wq.fd].owner,
             whole |-> ~sock[wq.fd].stray]}
      /\ wq.pc = "send" /\ wq'.pc = "idle"
      /\ UNCHANGED <<tables, ids, bridge, rx, disc, host, from_nodes, sent, fault>>
  BY DEF node_inf_write_ok, WqIdle
<1>2. WqSteady'
  BY <1>1 DEF WqSteady
<1>3. SocketsKept
  BY <1>1 DEF SocketsKept, Usable, tables
<1>4. LinkInv' /\ \A j \in CacheSlots : Filled(j)' => Filled(j)
  BY <1>1, LinkKept DEF SteadyInv, tables
<1>5. SockInv'
  BY <1>1, <1>3, <1>4, SockKept DEF SteadyInv, SockInv, tables
<1>6. EntriesKept
  BY <1>1, SameEntries DEF tables
<1>7. RxSteady' /\ RouteSteady'
  BY <1>1, <1>3, <1>6, RxKept, RouteKept DEF SteadyInv, bridge, host
<1>8. TxRouting'
  <2>1. sock[wq.fd].owner = ap.conn[wq.ap_cport].id
    BY <1>1 DEF SteadyInv, WqSteady
  <2>2. \A m \in to_nodes : m.to = m.at
    BY DEF SteadyInv, TxRouting
  <2>3. PICK w : w = ~sock[wq.fd].stray
    BY Zenon
  <2>4. to_nodes' = to_nodes \cup
          {[to |-> ap.conn[wq.ap_cport].id, at |-> sock[wq.fd].owner, whole |-> w]}
    BY <1>1, <2>3, Zenon
  <2>5. \A m \in to_nodes' : m.to = m.at
    BY <2>1, <2>2, <2>4
  <2> QED BY <2>5 DEF TxRouting
<1>9. RxRouting' /\ NoFault'
  BY <1>1 DEF SteadyInv, RxRouting, NoFault
<1> QED BY <1>2, <1>4, <1>5, <1>7, <1>8, <1>9 DEF SteadyInv

(* Nothing is stopped and no write fails.                                  *)
LEMMA NoOtherWqStep ==
  ASSUME Steady, SteadyInv
  PROVE  /\ ~control_svc_stop /\ ~node_destroy_all_next /\ ~node_destroy_all_done
         /\ ~gb_message_send_failed /\ ~node_inf_write_failed
<1>1. ~control_svc_stop
  BY DEF Steady, control_svc_stop
<1>2. ~node_destroy_all_next /\ ~node_destroy_all_done /\ ~node_inf_write_failed
  BY DEF SteadyInv, WqSteady, node_destroy_all_next, node_destroy_all_done,
         node_inf_write_failed
<1>3. ~gb_message_send_failed
  <2> SUFFICES ASSUME gb_message_send_failed PROVE FALSE
    OBVIOUS
  <2>1. wq.pc = "send" /\ ~(wq.fd >= 0 /\ sock[wq.fd].open /\ sock[wq.fd].peer = "up")
    BY DEF gb_message_send_failed, SendMayFail
  <2>2. Usable(wq.fd)
    BY <2>1 DEF SteadyInv, WqSteady
  <2>3. wq.fd \in Fds /\ sock[wq.fd].open /\ sock[wq.fd].peer = "up"
    BY <2>2 DEF Usable, SteadyInv, SockInv
  <2>4. wq.fd >= 0
    BY <2>3, ConstantsAssumption DEF Fds
  <2> QED BY <2>1, <2>3, <2>4
<1> QED BY <1>1, <1>2, <1>3

(* What the steps of rx that change no table have in common.               *)
LEMMA RxQuiet ==
  ASSUME TypeInv, TypeInv', SteadyInv, RxSteady',
         UNCHANGED <<tables, node_ap_map, wq, disc, host, history, fault>>
  PROVE  SteadyInv'
<1>1. LinkInv' /\ SockInv' /\ EntriesKept /\ SocketsKept
  BY TablesQuiet
<1>2. WqSteady' /\ RouteSteady'
  BY <1>1, WqQuiet, RouteKept DEF host, SteadyInv
<1>3. RxRouting' /\ TxRouting' /\ NoFault'
  BY HistoryKept DEF history
<1> QED BY <1>1, <1>2, <1>3 DEF SteadyInv

(* The next entry of the poll array.                                       *)
LEMMA RxNextSteady ==
  ASSUME TypeInv, RxSteady, UNCHANGED <<cache, pos>>, SocketsKept,
         rx.pc \in {"loop", "recv"}, rx' = RxNext
  PROVE  RxSteady'
<1>1. rx \in RxStates
  BY DEF TypeInv, RxInv
<1>2. rx'.pc = "loop" /\ rx'.fds = rx.fds /\ rx'.rev = rx.rev
  BY <1>1 DEF RxStates, RxNext
<1>3. rx'.flag <=> rx.flag
  BY <1>1, Zenon DEF RxStates, RxNext
<1>4. \A f : Usable(f) => Usable(f)'
  BY DEF SocketsKept, Usable
<1> QED BY <1>2, <1>3, <1>4 DEF RxSteady

(* A step of rx outside the loop over the results.                         *)
LEMMA RxOutsideSteady ==
  ASSUME TypeInv, TypeInv', SteadyInv,
         NEW pc \in {"ended", "populate", "length", "poll"}, NEW fds,
         rx' = [rx EXCEPT !.pc = pc, !.fds = fds],
         \A j \in DOMAIN fds : fds[j] \in Fds => Usable(fds[j]),
         UNCHANGED <<tables, node_ap_map, wq, disc, host, history, fault>>
  PROVE  SteadyInv'
<1>1. rx \in RxStates /\ RxSteady
  BY DEF TypeInv, RxInv, SteadyInv
<1>2. rx'.pc = pc /\ rx'.fds = fds
  BY <1>1 DEF RxStates
<1>3. rx'.flag <=> rx.flag
  BY <1>1, Zenon DEF RxStates
<1>4. RxSteady'
  BY <1>1, <1>2, <1>3 DEF RxSteady, Usable, tables
<1> QED BY <1>4, RxQuiet

(* The start of the receive thread, or its end.                            *)
LEMMA RxStartSteady ==
  ASSUME TypeInv, TypeInv', SteadyInv, node_rx_thread_start
  PROVE  SteadyInv'
<1>1. PICK pc \in {"ended", "populate"} : rx' = [rx EXCEPT !.pc = pc]
  BY DEF node_rx_thread_start
<1>2. UNCHANGED <<tables, node_ap_map, wq, disc, host, history, fault>>
  BY DEF node_rx_thread_start
<1>3. rx \in RxStates /\ RxSteady
  BY DEF TypeInv, RxInv, SteadyInv
<1>4. rx' = [rx EXCEPT !.pc = pc, !.fds = rx.fds]
  BY <1>1, <1>3 DEF RxStates
<1>5. \A j \in DOMAIN rx.fds : rx.fds[j] \in Fds => Usable(rx.fds[j])
  BY <1>3 DEF RxSteady
<1> QED BY <1>2, <1>4, <1>5, RxOutsideSteady

(* The poll array: the sockets in the cache are usable.                    *)
LEMMA RxPopulateSteady ==
  ASSUME TypeInv, TypeInv', SteadyInv, node_rx_populate
  PROVE  SteadyInv'
<1> DEFINE fds == [j \in 1..pos |-> cache[j - 1].sock]
<1>1. /\ rx' = [rx EXCEPT !.pc = "length", !.fds = fds]
      /\ UNCHANGED <<tables, ids, bridge, wq, disc, host, history, fault>>
  BY DEF node_rx_populate
<1>2. \A j \in DOMAIN fds : fds[j] \in Fds => Usable(fds[j])
  <2>1. ASSUME NEW j \in 1..pos, cache[j - 1].sock \in Fds
        PROVE  Usable(cache[j - 1].sock)
    <3>1. pos \in 0..MaxNodes
      BY DEF TypeInv, TablesInv
    <3>2. j - 1 \in CacheSlots /\ j - 1 < pos
      BY <3>1, ConstantsAssumption DEF CacheSlots
    <3>3. PICK i \in CacheSlots : i = j - 1 /\ i < pos
      BY <3>2
    <3>4. Filled(i) /\ cache[i].sock # -1
      BY <2>1, <3>3, ConstantsAssumption DEF Filled, Fds
    <3> QED BY <3>3, <3>4 DEF SteadyInv, SockInv
  <2> QED BY <2>1
<1> HIDE DEF fds
<1> QED BY <1>1, <1>2, RxOutsideSteady DEF bridge

(* The slots that the loop did not reach hold no descriptor.               *)
LEMMA RxFdsLenSteady ==
  ASSUME Steady, TypeInv, TypeInv', SteadyInv, node_rx_fds_len
  PROVE  SteadyInv'
<1>1. PICK n \in {Len(rx.fds), pos} : \E g \in [(Len(rx.fds) + 1)..n -> StaleFds] :
        rx' = [rx EXCEPT !.pc = "poll",
                 !.fds = [j \in 1..n |-> IF j <= Len(rx.fds) THEN rx.fds[j] ELSE g[j]]]
  BY DEF node_rx_fds_len
<1>2. PICK g \in [(Len(rx.fds) + 1)..n -> StaleFds] :
        rx' = [rx EXCEPT !.pc = "poll",
                 !.fds = [j \in 1..n |-> IF j <= Len(rx.fds) THEN rx.fds[j] ELSE g[j]]]
  BY <1>1
<1> DEFINE fds == [j \in 1..n |-> IF j <= Len(rx.fds) THEN rx.fds[j] ELSE g[j]]
<1>3. UNCHANGED <<tables, ids, bridge, wq, disc, host, history, fault>>
  BY DEF node_rx_fds_len
<1>4. \A j \in DOMAIN fds : fds[j] \in Fds => Usable(fds[j])
  <2>1. rx.fds \in Seq(Polled) /\ n \in Nat /\ RxSteady
    BY ConstantsAssumption DEF TypeInv, RxInv, RxStates, TablesInv, SteadyInv
  <2>2. ASSUME NEW j \in 1..n, fds[j] \in Fds PROVE Usable(fds[j])
    <3>1. CASE j <= Len(rx.fds)
      <4>1. fds[j] = rx.fds[j] /\ j \in DOMAIN rx.fds
        BY <2>1, <3>1
      <4> QED BY <2>1, <2>2, <4>1 DEF RxSteady
    <3>2. CASE ~(j <= Len(rx.fds))
      <4>1. j \in (Len(rx.fds) + 1)..n
        BY <2>1, <3>2
      <4>2. g[j] \in StaleFds /\ fds[j] = g[j]
        BY <3>2, <4>1
      <4> QED BY <2>2, <4>2 DEF Steady
    <3> QED BY <3>1, <3>2
  <2> QED BY <2>2
<1>5. rx' = [rx EXCEPT !.pc = "poll", !.fds = fds]
  BY <1>2
<1> HIDE DEF fds
<1> QED BY <1>3, <1>4, <1>5, RxOutsideSteady DEF bridge

(* A poll that fails.                                                      *)
LEMMA RxPollFailedSteady ==
  ASSUME TypeInv, TypeInv', SteadyInv, node_rx_poll_failed
  PROVE  SteadyInv'
<1>1. /\ rx' = [rx EXCEPT !.pc = "populate", !.fds = <<>>]
      /\ UNCHANGED <<tables, node_ap_map, wq, disc, host, history, fault>>
  BY DEF node_rx_poll_failed, bridge
<1>2. \A j \in DOMAIN <<>> : <<>>[j] \in Fds => Usable(<<>>[j])
  OBVIOUS
<1> DEFINE fds == <<>>
<1>3. /\ rx' = [rx EXCEPT !.pc = "populate", !.fds = fds]
      /\ \A j \in DOMAIN fds : fds[j] \in Fds => Usable(fds[j])
  BY <1>1, <1>2
<1> HIDE DEF fds
<1> QED BY <1>1, <1>3, RxOutsideSteady

(* A poll reports messages only: no socket is closed, no peer is gone.     *)
LEMMA RxPollSteady ==
  ASSUME TypeInv, TypeInv', SteadyInv, node_rx_poll
  PROVE  SteadyInv'
<1> DEFINE rev == [j \in DOMAIN rx.fds |-> Revents(rx.fds[j])]
<1>1. /\ rx' = [rx EXCEPT !.pc = "loop", !.i = 1, !.rev = rev]
      /\ UNCHANGED <<tables, node_ap_map, wq, disc, host, history, fault>>
  BY DEF node_rx_poll
<1>2. rx \in RxStates /\ RxSteady
  BY DEF TypeInv, RxInv, SteadyInv
<1>3. \A j \in DOMAIN rx.fds :
        rx.fds[j] \in Fds \cup {-1} => rev[j] \in {"none", "POLLIN"}
  <2>1. ASSUME NEW f, f = -1 \/ Usable(f) PROVE Revents(f) \in {"none", "POLLIN"}
    <3>1. CASE f = -1
      <4>1. ~OpenFd(f) /\ f < 0 /\ ~(f >= 0)
        BY <3>1, ConstantsAssumption DEF OpenFd, Fds
      <4> QED BY <4>1 DEF Revents
    <3>2. CASE Usable(f)
      <4>1. f \in Fds /\ sock[f].open /\ sock[f].peer = "up"
        BY <3>2 DEF Usable, SteadyInv, SockInv
      <4>2. f >= 0 /\ ~(f < 0)
        BY <4>1, ConstantsAssumption DEF Fds
      <4> QED BY <4>1, <4>2 DEF Revents, OpenFd
    <3> QED BY <2>1, <3>1, <3>2
  <2> QED BY <1>2, <2>1 DEF RxSteady
<1> HIDE DEF rev
<1>4. rx'.pc = "loop" /\ rx'.fds = rx.fds /\ rx'.rev = rev
  BY <1>1, <1>2 DEF RxStates
<1>5. rx'.flag <=> rx.flag
  BY <1>1, <1>2, Zenon DEF RxStates
<1>6. RxSteady'
  BY <1>1, <1>2, <1>3, <1>4, <1>5 DEF RxSteady, Usable, tables
<1> QED BY <1>1, <1>6, RxQuiet

(* A look at one entry: a socket that is readable is still some node's, so *)
(* its index is found.                                                     *)
LEMMA RxDispatchSteady ==
  ASSUME TypeInv, TypeInv', SteadyInv, node_rx_dispatch
  PROVE  SteadyInv'
<1> DEFINE k == node_cache_find_by_sock(cache, pos, rx.fds[rx.i])
<1>1. rx.pc = "loop" /\ UNCHANGED <<tables, ids, bridge, wq, disc, host, history, fault>>
  BY DEF node_rx_dispatch
<1>2. rx \in RxStates /\ RxSteady /\ RxInv
  BY DEF TypeInv, RxInv, SteadyInv
<1>3. k >= 0 => k \in CacheSlots /\ k < pos /\ cache[k].sock = rx.fds[rx.i]
  <2>1. pos \in 0..MaxNodes
    BY DEF TypeInv, TablesInv
  <2> QED BY <2>1, CacheIndex
<1> HIDE DEF k
<1>4. rx.i <= Len(rx.fds) /\ k >= 0 => rx.rev[rx.i] \in {"none", "POLLIN"}
  <2> SUFFICES ASSUME rx.i <= Len(rx.fds), k >= 0
               PROVE  rx.rev[rx.i] \in {"none", "POLLIN"}
    OBVIOUS
  <2>1. rx.fds \in Seq(Polled) /\ rx.i \in Nat /\ rx.i >= 1
    BY <1>2 DEF RxStates, RxInv
  <2>2. rx.i \in DOMAIN rx.fds
    BY <2>1
  <2>3. rx.fds[rx.i] \in Fds \cup {-1}
    <3>1. PICK i \in CacheSlots : i < pos /\ cache[i].sock = rx.fds[rx.i]
      BY <1>3
    <3>2. Filled(i)
      BY <3>1 DEF Filled
    <3> QED BY <3>1, <3>2 DEF SteadyInv, SockInv, Usable
  <2> QED BY <1>1, <1>2, <2>2, <2>3 DEF RxSteady
<1>5. CASE rx' = [rx EXCEPT !.pc = "populate", !.fds = <<>>, !.rev = <<>>, !.i = 1]
  <2>1. rx'.pc = "populate" /\ rx'.fds = <<>> /\ rx'.rev = <<>>
    BY <1>2, <1>5 DEF RxStates
  <2>2. rx'.flag <=> rx.flag
    BY <1>2, <1>5, Zenon DEF RxStates
  <2>3. RxSteady'
    BY <1>2, <2>1, <2>2 DEF RxSteady
  <2> QED BY <1>1, <2>3, RxQuiet DEF bridge
<1>6. CASE rx' = RxNext
  <2>1. RxSteady'
    BY <1>1, <1>2, <1>6, RxNextSteady, SameSockets DEF tables
  <2> QED BY <1>1, <2>1, RxQuiet DEF bridge
<1>7. CASE k >= 0 /\ rx' = [rx EXCEPT !.pc = "recv", !.idx = k]
  <2>1. /\ rx'.pc = "recv" /\ rx'.fds = rx.fds /\ rx'.rev = rx.rev /\ rx'.i = rx.i
        /\ rx'.idx = k
    BY <1>2, <1>7 DEF RxStates
  <2>2. rx'.flag <=> rx.flag
    BY <1>2, <1>7, Zenon DEF RxStates
  <2>3. RxSteady'
    BY <1>1, <1>2, <1>3, <1>7, <2>1, <2>2 DEF RxSteady, Usable, tables
  <2> QED BY <1>1, <2>3, RxQuiet DEF bridge
<1> QED BY <1>4, <1>5, <1>6, <1>7 DEF node_rx_dispatch, k

(* What steps that only move bytes through sockets have in common.         *)
LEMMA SocketsQuiet ==
  ASSUME TypeInv, TypeInv', SteadyInv,
         UNCHANGED <<cache, pos, intf, ctrl, node_ap_map, wq, disc, ap>>,
         \A f \in Fds : /\ sock'[f].open <=> sock[f].open
                        /\ sock'[f].owner = sock[f].owner /\ sock'[f].peer = sock[f].peer
  PROVE  /\ LinkInv' /\ SockInv' /\ WqSteady' /\ RouteSteady'
         /\ EntriesKept /\ SocketsKept
<1>1. EntriesKept
  BY SameEntries
<1>2. SocketsKept
  BY DEF SocketsKept, Usable
<1>3. LinkInv' /\ \A i \in CacheSlots : Filled(i)' => Filled(i)
  BY LinkKept DEF SteadyInv
<1>4. \A f \in Fds : sock'[f].peer = "up"
  BY DEF SteadyInv, SockInv
<1>5. SockInv'
  BY <1>2, <1>3, <1>4, SockKept DEF SteadyInv
<1>6. RouteSteady'
  BY <1>1, RouteKept DEF SteadyInv
<1>7. WqSteady'
  BY <1>1, <1>2, WqKept DEF SteadyInv
<1> QED BY <1>1, <1>2, <1>3, <1>5, <1>6, <1>7

(* A receive: rx reads from the node that its index names, and finds the   *)
(* AP cport by that node's id and the message's cport.                     *)
LEMMA RxReceiveSteady ==
  ASSUME TypeInv, TypeInv', SteadyInv, node_rx_receive
  PROVE  SteadyInv'
<1>1. rx.pc = "recv" /\ RecvReturns
      /\ UNCHANGED <<cache, pos, intf, ctrl, ids, bridge, wq, disc, host, to_nodes, sent, fault>>
  BY DEF node_rx_receive
<1>2. PICK f \in Fds, i \in CacheSlots :
        f = rx.fds[rx.i] /\ i = rx.idx /\ i < pos /\ cache[i].sock = f
  BY <1>1 DEF TypeInv, RxInv, SteadyInv, RxSteady
<1>3. Filled(i) /\ f # -1
  BY <1>2, ConstantsAssumption DEF Filled, Fds
<1>4. sock[f].open /\ sock[f].owner = cache[i].id /\ sock[f].peer = "up"
  BY <1>2, <1>3 DEF SteadyInv, SockInv, Usable
<1>5. sock[f].inq # <<>>
  BY <1>1, <1>2, <1>4 DEF RecvReturns
<1>6. ~rx.flag
  BY DEF SteadyInv, RxSteady
<1> DEFINE n   == Head(sock[f].inq)
           id  == cache[i].id
           apc == node_to_ap_cport(node_ap_map, id, n)
           m   == [from |-> id, cport |-> n, ap_cport |-> apc,
                   at |-> ap.conn[apc], elsewhere |-> ApHas(id, n)]
<1>7. /\ sock' = [sock EXCEPT ![f].inq = Tail(@)]
      /\ rx' = RxNext
      /\ from_nodes' = IF apc >= 0 THEN from_nodes \cup {m} ELSE from_nodes
  <2> DEFINE got  == sock[f].open /\ sock[f].inq # <<>>
             msg  == IF got THEN [cport |-> n, from |-> sock[f].owner] ELSE NoMsg
             flag == IF got THEN rx.flag ELSE sock[f].open /\ sock[f].peer = "eof"
             to   == node_to_ap_cport(node_ap_map, id, msg.cport)
  <2>1. /\ sock' = IF got THEN [sock EXCEPT ![f].inq = Tail(@)] ELSE sock
        /\ \/ flag \/ ~got
           \/ /\ rx' = RxNext
              /\ from_nodes' = IF to >= 0
                               THEN from_nodes \cup {[from |-> msg.from, cport |-> msg.cport,
                                                      ap_cport |-> to, at |-> ap.conn[to],
                                                      elsewhere |-> ApHas(msg.from, msg.cport)]}
                               ELSE from_nodes
    BY <1>2 DEF node_rx_receive
  <2>2. got /\ ~flag
    BY <1>4, <1>5, <1>6
  <2>3. msg.cport = n /\ msg.from = id
    BY <1>4, <2>2
  <2> HIDE DEF got, msg, flag, n, id
  <2> QED BY <2>1, <2>2, <2>3
<1>8. \A g \in Fds : /\ sock'[g].open <=> sock[g].open
                     /\ sock'[g].owner = sock[g].owner /\ sock'[g].peer = sock[g].peer
  <2>1. sock \in [Fds -> Sockets] /\ sock[f] \in Sockets
    BY DEF TypeInv, TablesInv
  <2>2. sock'[f] = [sock[f] EXCEPT !.inq = Tail(@)]
        /\ \A g \in Fds : g # f => sock'[g] = sock[g]
    BY <1>7, <2>1
  <2>3. sock'[f].open <=> sock[f].open
    BY <2>1, <2>2, Zenon DEF Sockets
  <2>4. sock'[f].owner = sock[f].owner /\ sock'[f].peer = sock[f].peer
    BY <2>1, <2>2 DEF Sockets
  <2> QED BY <2>2, <2>3, <2>4
<1>9. /\ LinkInv' /\ SockInv' /\ WqSteady' /\ RouteSteady'
      /\ EntriesKept /\ SocketsKept
  BY <1>1, <1>8, SocketsQuiet DEF bridge, host
<1>10. RxSteady'
  BY <1>1, <1>7, <1>9, RxNextSteady DEF SteadyInv
<1>11. apc >= 0 => /\ apc # 0
                   /\ ap.conn[apc].id = id /\ ap.conn[apc].cport = n
  <2> SUFFICES ASSUME apc >= 0
               PROVE  apc # 0 /\ ap.conn[apc].id = id /\ ap.conn[apc].cport = n
    OBVIOUS
  <2>1. /\ apc \in ApCports
        /\ node_ap_map[apc].node_id = id /\ node_ap_map[apc].node_cport = n
    BY RouteIndex DEF TypeInv, BridgeInv
  <2>2. id \in InterfaceIds
    <3>1. LiveIntf(cache[i].inf, cache[i].id)
      BY <1>3 DEF SteadyInv, LinkInv
    <3> QED BY <3>1 DEF LiveIntf, TypeInv, TablesInv
  <2> HIDE DEF apc, id, n
  <2>3. id # SVC_INF_ID
    BY <2>2, ConstantsAssumption DEF InterfaceIds, INTERFACE_ID_START, SVC_INF_ID
  <2>4. apc # 0 /\ node_ap_map[apc] # NoConnection
    BY <2>1, <2>3 DEF SteadyInv, RouteSteady, NoConnection
  <2>5. Connected(apc)
    BY <2>1, <2>4 DEF SteadyInv, RouteSteady
  <2> QED BY <2>1, <2>4, <2>5 DEF Connected
<1>12. RxRouting'
  <2>1. apc >= 0 => m.ap_cport # 0 /\ m.at.id = m.from /\ m.at.cport = m.cport
    BY <1>11
  <2>2. RxRouting
    BY DEF SteadyInv
  <2> HIDE DEF m, apc
  <2> QED BY <1>7, <2>1, <2>2 DEF RxRouting
<1>13. TxRouting' /\ NoFault'
  BY <1>1 DEF SteadyInv, TxRouting, NoFault
<1> QED BY <1>9, <1>10, <1>12, <1>13 DEF SteadyInv

(* rx removes no node.                                                     *)
LEMMA NoOtherRxStep ==
  ASSUME SteadyInv
  PROVE  /\ ~node_rx_remove /\ ~node_rx_close /\ ~node_rx_unlink
         /\ ~node_rx_shrink /\ ~node_rx_move /\ ~node_rx_free
  BY DEF SteadyInv, RxSteady, node_rx_remove, node_rx_close, node_rx_unlink,
         node_rx_shrink, node_rx_move, node_rx_free

(* An address that discovery reports.                                      *)
LEMMA FilterSteady ==
  ASSUME TypeInv, TypeInv', SteadyInv, NEW a \in Addrs, node_filter(a)
  PROVE  SteadyInv'
<1>1. /\ disc' = [disc EXCEPT !.pc = "create", !.addr = a]
      /\ UNCHANGED <<tables, ids, bridge, wq, rx, host, history, fault>>
  BY DEF node_filter
<1>2. disc'.pc = "create"
  BY <1>1 DEF TypeInv, DiscInv, DiscStates
<1>3. LinkInv' /\ SockInv' /\ EntriesKept /\ SocketsKept
  BY <1>1, <1>2, TablesQuiet
<1>4. WqSteady' /\ RouteSteady' /\ RxSteady'
  BY <1>1, <1>3, WqQuiet, RouteKept, RxKept DEF host, bridge, SteadyInv
<1>5. RxRouting' /\ TxRouting' /\ NoFault'
  BY <1>1, HistoryKept DEF history
<1> QED BY <1>3, <1>4, <1>5 DEF SteadyInv

(* What the steps of disc that add a node have in common.                  *)
LEMMA AddingQuiet ==
  ASSUME TypeInv, TypeInv', SteadyInv, LinkInv', SockInv',
         UNCHANGED <<sock, bridge, wq, rx, host, history, fault>>, pos' >= pos,
         \A i \in CacheSlots : i < pos => cache'[i] = cache[i]
  PROVE  SteadyInv'
<1>1. EntriesKept /\ SocketsKept
  BY SameSockets DEF EntriesKept
<1>2. RouteSteady' /\ RxSteady'
  BY <1>1, RouteKept, RxKept DEF host, bridge, SteadyInv
<1>3. WqSteady'
  BY <1>1, WqKept DEF SteadyInv, host
<1>4. RxRouting' /\ TxRouting' /\ NoFault'
  BY HistoryKept DEF history
<1> QED BY <1>2, <1>3, <1>4 DEF SteadyInv

(* The allocation of an interface takes a control block that no node has.  *)
LEMMA CreateInterfaceSteady ==
  ASSUME TypeInv, TypeInv', SteadyInv, node_create_interface
  PROVE  SteadyInv'
<1>1. disc.pc = "create"
      /\ UNCHANGED <<cache, pos, sock, bridge, wq, rx, host, history, fault>>
  BY DEF node_create_interface
<1>2. pos' >= pos
  BY <1>1 DEF TypeInv, TablesInv
<1>3. CASE disc' = DiscSleeping(FALSE) /\ UNCHANGED <<ctrl, intf, ids>>
  <2>1. disc'.pc = "sleep" /\ UNCHANGED tables
    BY <1>1, <1>3 DEF DiscSleeping, tables
  <2>2. LinkInv' /\ SockInv'
    BY <1>1, <2>1, TablesQuiet
  <2> QED BY <1>1, <1>2, <2>2, AddingQuiet
<1>4. ASSUME NEW b \in IntfBlocks, free_ctrl >= 0, ~intf[b].used,
             ctrl' = [ctrl EXCEPT ![free_ctrl] = [used |-> TRUE, sock |-> -1]],
             intf' = [intf EXCEPT ![b] = [used |-> TRUE, id |-> id_counter,
                                          ctrl |-> free_ctrl]],
             disc' = [disc EXCEPT !.pc = "fill", !.inf = b, !.id = id_counter]
      PROVE  SteadyInv'
  <2>1. PICK c \in CtrlBlocks : c = free_ctrl /\ ~ctrl[c].used
    BY <1>4, FreeIndex
  <2>2. TablesInv /\ LinkInv /\ SockInv
    BY DEF TypeInv, SteadyInv
  <2>3. /\ ctrl'[c] = [used |-> TRUE, sock |-> -1]
        /\ \A e \in CtrlBlocks : e # c => ctrl'[e] = ctrl[e]
        /\ intf'[b] = [used |-> TRUE, id |-> id_counter, ctrl |-> c]
        /\ \A e \in IntfBlocks : e # b => intf'[e] = intf[e]
    BY <1>4, <2>1, <2>2 DEF TablesInv
  <2>4. disc'.pc = "fill" /\ disc'.inf = b /\ disc'.id = id_counter
    BY <1>4 DEF TypeInv, DiscInv, DiscStates
  <2>5. \A i \in CacheSlots : Filled(i)' <=> Filled(i)
    BY <1>1, <2>4 DEF Filled
  <2>6. ASSUME NEW i \in CacheSlots, Filled(i)
        PROVE  /\ LiveIntf(cache[i].inf, cache[i].id)'
               /\ Control(i)' = Control(i) /\ Control(i) # c
               /\ ctrl'[Control(i)] = ctrl[Control(i)]
               /\ ctrl[Control(i)].used
               /\ cache[i].sock = ctrl[Control(i)].sock
    <3>1. /\ cache[i].inf \in IntfBlocks /\ intf[cache[i].inf].used
          /\ intf[cache[i].inf].id = cache[i].id
          /\ ctrl[Control(i)].used /\ cache[i].sock = ctrl[Control(i)].sock
      BY <2>2, <2>6 DEF LinkInv, LiveIntf
    <3>2. cache[i].inf # b
      BY <1>4, <3>1
    <3>3. intf'[cache[i].inf] = intf[cache[i].inf]
      BY <2>3, <3>1, <3>2
    <3>4. Control(i)' = Control(i) /\ Control(i) \in CtrlBlocks
      BY <1>1, <2>2, <3>1, <3>3 DEF Control, TablesInv
    <3>5. Control(i) # c
      BY <2>1, <3>1
    <3>6. LiveIntf(cache[i].inf, cache[i].id)'
      BY <1>1, <3>1, <3>3 DEF LiveIntf
    <3> QED BY <2>3, <3>1, <3>4, <3>5, <3>6
  <2>7. LinkInv'
    <3>1. \A i \in CacheSlots : Filled(i)' =>
            /\ LiveIntf(cache[i].inf, cache[i].id)'
            /\ (ctrl[Control(i)].used)'
            /\ (cache[i].sock = ctrl[Control(i)].sock)'
      BY <1>1, <2>5, <2>6
    <3>2. \A i, j \in CacheSlots :
            Filled(i)' /\ Filled(j)' /\ i # j => Control(i)' # Control(j)'
      BY <2>2, <2>5, <2>6 DEF LinkInv
    <3>3. LiveIntf(disc.inf, disc.id)'
      BY <2>3, <2>4 DEF LiveIntf
    <3>4. /\ (ctrl[intf[disc.inf].ctrl].used)'
          /\ (ctrl[intf[disc.inf].ctrl].sock = -1)'
          /\ \A i \in CacheSlots : Filled(i)' => Control(i)' # (intf[disc.inf].ctrl)'
      <4>1. (intf[disc.inf].ctrl)' = c
        BY <2>3, <2>4
      <4> QED BY <2>3, <2>5, <2>6, <4>1
    <3> QED BY <2>4, <3>1, <3>2, <3>3, <3>4 DEF LinkInv
  <2>8. SockInv'
    <3>1. SocketsKept
      BY <1>1, SameSockets
    <3> QED BY <1>1, <2>2, <2>5, <3>1, SockKept DEF SockInv
  <2> QED BY <1>1, <1>2, <2>7, <2>8, AddingQuiet
<1> QED BY <1>3, <1>4 DEF node_create_interface

(* The entry that node_cache_add writes, without a socket, above the       *)
(* entries in use.  There is room: each entry has a control block of its   *)
(* own, and so has the node to be added.                                   *)
LEMMA FillSteady ==
  ASSUME TypeInv, TypeInv', SteadyInv, node_cache_add_fill
  PROVE  SteadyInv'
<1>1. disc.pc = "fill"
      /\ UNCHANGED <<pos, intf, sock, ids, bridge, wq, rx, host, history>>
  BY DEF node_cache_add_fill
<1>2. pos \in Nat /\ pos' >= pos /\ pos \in 0..MaxNodes
  BY <1>1, ConstantsAssumption DEF TypeInv, TablesInv
<1>3. TablesInv /\ LinkInv /\ SockInv /\ disc \in DiscStates
  BY DEF TypeInv, SteadyInv, DiscInv
<1>4. PICK b, c : b = disc.inf /\ c = intf[b].ctrl
  OBVIOUS
<1>5. /\ LiveIntf(b, disc.id) /\ ctrl[c].used /\ ctrl[c].sock = -1
      /\ \A i \in CacheSlots : Filled(i) => Control(i) # c
  BY <1>1, <1>3, <1>4 DEF LinkInv
<1>6. c \in CtrlBlocks /\ b \in IntfBlocks /\ intf[b].used /\ intf[b].id = disc.id
  BY <1>3, <1>4, <1>5 DEF LiveIntf, TablesInv
<1>7. \A i \in CacheSlots : Filled(i) <=> i < pos
  BY <1>1 DEF Filled
<1>8. pos < MaxNodes
  <2> SUFFICES ASSUME ~(pos < MaxNodes) PROVE FALSE
    OBVIOUS
  <2>1. MaxNodes \in Nat /\ pos = MaxNodes
    BY <1>2, ConstantsAssumption
  <2> DEFINE F == [i \in 0..MaxNodes |-> IF i < MaxNodes THEN Control(i) ELSE c]
  <2>2. ASSUME NEW i \in 0..MaxNodes, i < MaxNodes
        PROVE  i \in CacheSlots /\ Filled(i)
    BY <1>7, <2>1, <2>2 DEF CacheSlots
  <2>3. \A i \in CacheSlots : Filled(i) => Control(i) \in CtrlBlocks /\ Control(i) # c
    BY <1>3, <1>5 DEF LinkInv, LiveIntf, TablesInv, Control
  <2>4. F \in [0..MaxNodes -> CtrlBlocks]
    BY <1>6, <2>2, <2>3
  <2>5. ASSUME NEW i \in 0..MaxNodes, NEW j \in 0..MaxNodes, i # j PROVE F[i] # F[j]
    <3>1. CASE i < MaxNodes /\ j < MaxNodes
      <4>1. F[i] = Control(i) /\ F[j] = Control(j)
        BY <3>1
      <4>2. i \in CacheSlots /\ j \in CacheSlots /\ Filled(i) /\ Filled(j)
        BY <2>2, <3>1
      <4> QED BY <1>3, <2>5, <4>1, <4>2 DEF LinkInv
    <3>2. CASE i < MaxNodes /\ ~(j < MaxNodes)
      BY <2>2, <2>3, <3>2
    <3>3. CASE ~(i < MaxNodes) /\ j < MaxNodes
      BY <2>2, <2>3, <3>3
    <3>4. CASE ~(i < MaxNodes) /\ ~(j < MaxNodes)
      BY <2>1, <2>5, <3>4
    <3> QED BY <3>1, <3>2, <3>3, <3>4
  <2> HIDE DEF F
  <2>6. /\ IsFiniteSet(0..MaxNodes) /\ Cardinality(0..MaxNodes) = MaxNodes + 1
        /\ IsFiniteSet(CtrlBlocks) /\ Cardinality(CtrlBlocks) = MaxNodes
    <3>1. \A x, y \in Int : IsFiniteSet(x..y)
                            /\ Cardinality(x..y) = IF x > y THEN 0 ELSE y - x + 1
      BY FS_Interval
    <3>2. 0 \in Int /\ 1 \in Int /\ MaxNodes \in Int /\ ~(0 > MaxNodes) /\ ~(1 > MaxNodes)
      BY ConstantsAssumption
    <3>3. MaxNodes - 0 + 1 = MaxNodes + 1 /\ MaxNodes - 1 + 1 = MaxNodes
      BY <3>2
    <3> QED BY <3>1, <3>2, <3>3 DEF CtrlBlocks
  <2>7. Cardinality(CtrlBlocks) < Cardinality(0..MaxNodes)
    BY <2>1, <2>6
  <2>8. \E x, y \in 0..MaxNodes : x # y /\ F[x] = F[y]
    BY <2>4, <2>6, <2>7, FS_PigeonHole
  <2> QED BY <2>5, <2>8
<1>9. CASE /\ pos < MaxNodes
           /\ cache' = [cache EXCEPT ![pos] =
                [sock |-> -1, id |-> intf[disc.inf].id, addr |-> disc.addr,
                 inf |-> disc.inf]]
           /\ disc' = [disc EXCEPT !.pc = "commit", !.pos = pos]
           /\ UNCHANGED <<ctrl, fault>>
  <2>1. PICK p \in CacheSlots : p = pos
    BY <1>2, <1>9, ConstantsAssumption DEF CacheSlots
  <2>2. /\ cache'[p].sock = -1 /\ cache'[p].id = disc.id /\ cache'[p].inf = b
        /\ \A i \in CacheSlots : i # p => cache'[i] = cache[i]
    BY <1>3, <1>4, <1>6, <1>9, <2>1 DEF TablesInv
  <2>3. disc'.pc = "commit" /\ disc'.pos = pos /\ disc'.inf = b /\ disc'.id = disc.id
    BY <1>3, <1>4, <1>9 DEF DiscStates
  <2>4. /\ \A i \in CacheSlots : Filled(i)' <=> (Filled(i) \/ i = p)
        /\ \A i \in CacheSlots : Filled(i) => i # p
    BY <1>1, <1>2, <1>7, <2>1, <2>3 DEF Filled
  <2>5. Control(p)' = c /\ \A i \in CacheSlots : Filled(i) => Control(i)' = Control(i)
    BY <1>1, <1>4, <2>2, <2>4 DEF Control
  <2>6. LinkInv'
    <3>1. ASSUME NEW i \in CacheSlots, Filled(i)'
          PROVE  /\ LiveIntf(cache[i].inf, cache[i].id)'
                 /\ (ctrl[Control(i)].used)'
                 /\ (cache[i].sock = ctrl[Control(i)].sock)'
      <4>1. CASE i = p
        <5>1. LiveIntf(cache[i].inf, cache[i].id)'
          BY <1>1, <1>6, <2>2, <4>1 DEF LiveIntf
        <5> QED BY <1>5, <1>9, <2>2, <2>5, <4>1, <5>1
      <4>2. CASE i # p
        <5>1. Filled(i) /\ cache'[i] = cache[i] /\ Control(i)' = Control(i)
          BY <2>2, <2>4, <2>5, <3>1, <4>2
        <5>2. LiveIntf(cache[i].inf, cache[i].id)'
          BY <1>1, <1>3, <5>1 DEF LinkInv, LiveIntf
        <5> QED BY <1>3, <1>9, <5>1, <5>2 DEF LinkInv
      <4> QED BY <4>1, <4>2
    <3>2. \A i, j \in CacheSlots :
            Filled(i)' /\ Filled(j)' /\ i # j => Control(i)' # Control(j)'
      BY <1>3, <1>5, <2>4, <2>5 DEF LinkInv
    <3>3. LiveIntf(disc.inf, disc.id)'
      BY <1>1, <1>6, <2>3 DEF LiveIntf
    <3> QED BY <1>1, <2>3, <3>1, <3>2, <3>3 DEF LinkInv
  <2>7. SockInv'
    <3>1. ASSUME NEW i \in CacheSlots, Filled(i)', cache'[i].sock # -1
          PROVE  Usable(cache[i].sock)' /\ sock'[cache'[i].sock].owner = cache'[i].id
      <4>1. Filled(i) /\ cache'[i] = cache[i]
        BY <2>2, <2>4, <3>1
      <4> QED BY <1>1, <1>3, <3>1, <4>1 DEF SockInv, Usable
    <3> QED BY <1>1, <1>3, <3>1 DEF SockInv
  <2>8. \A i \in CacheSlots : i < pos => cache'[i] = cache[i]
    BY <1>7, <2>2, <2>4
  <2> QED BY <1>1, <1>2, <1>9, <2>6, <2>7, <2>8, AddingQuiet
<1>10. ~(pos >= MaxNodes)
  BY <1>2, <1>8, ConstantsAssumption
<1> QED BY <1>9, <1>10 DEF node_cache_add_fill

(* The count that node_cache_add advances: nothing was removed since the   *)
(* entry was written, so the count is right either way.                    *)
LEMMA CommitSteady ==
  ASSUME TypeInv, TypeInv', SteadyInv, node_cache_add_commit
  PROVE  SteadyInv'
<1>1. /\ disc.pc = "commit" /\ pos' \in {pos + 1, disc.pos + 1}
      /\ disc' = [disc EXCEPT !.pc = "announce"]
      /\ UNCHANGED <<cache, intf, ctrl, sock, ids, bridge, wq, rx, host, history, fault>>
  BY DEF node_cache_add_commit
<1>2. LinkInv /\ SockInv /\ disc \in DiscStates
  BY DEF TypeInv, SteadyInv, DiscInv
<1>3. pos' = pos + 1
  BY <1>1, <1>2 DEF LinkInv
<1>4. disc'.pc = "announce" /\ disc'.inf = disc.inf /\ disc'.id = disc.id
  BY <1>1, <1>2 DEF DiscStates
<1>5. pos \in Int /\ \A i \in CacheSlots : i \in Int
  BY ConstantsAssumption DEF TypeInv, TablesInv, CacheSlots
<1>6. \A i \in CacheSlots : Filled(i)' <=> Filled(i)
  BY <1>1, <1>3, <1>4, <1>5 DEF Filled
<1>7. LinkInv'
  <2>1. \A i \in CacheSlots : Filled(i)' =>
          /\ LiveIntf(cache[i].inf, cache[i].id)'
          /\ (ctrl[Control(i)].used)'
          /\ (cache[i].sock = ctrl[Control(i)].sock)'
    BY <1>1, <1>2, <1>6 DEF LinkInv, LiveIntf, Control
  <2>2. \A i, j \in CacheSlots :
          Filled(i)' /\ Filled(j)' /\ i # j => Control(i)' # Control(j)'
    BY <1>1, <1>2, <1>6 DEF LinkInv, Control
  <2>3. LiveIntf(disc.inf, disc.id)'
    BY <1>1, <1>2, <1>4 DEF LinkInv, LiveIntf
  <2> QED BY <1>4, <2>1, <2>2, <2>3 DEF LinkInv
<1>8. SockInv'
  <2>1. SocketsKept
    BY <1>1, SameSockets
  <2> QED BY <1>1, <1>2, <1>6, <2>1, SockKept DEF SockInv
<1>9. pos' >= pos
  BY <1>3, <1>5
<1> QED BY <1>1, <1>7, <1>8, <1>9, AddingQuiet

(* The announcement of a module whose interface is live.                   *)
LEMMA InsertedSteady ==
  ASSUME TypeInv, TypeInv', SteadyInv, svc_send_module_inserted
  PROVE  SteadyInv'
<1>1. LiveIntf(disc.inf, disc.id)
  BY DEF svc_send_module_inserted, SteadyInv, LinkInv
<1>2. /\ disc' = DiscSleeping(FALSE)
      /\ UNCHANGED <<tables, ids, bridge, wq, rx, rem, ap, history, fault>>
  BY <1>1 DEF svc_send_module_inserted
<1>3. disc'.pc = "sleep"
  BY <1>2 DEF DiscSleeping
<1>4. LinkInv' /\ SockInv' /\ EntriesKept /\ SocketsKept
  BY <1>2, <1>3, TablesQuiet
<1>5. WqSteady' /\ RouteSteady' /\ RxSteady'
  BY <1>2, <1>4, WqQuiet, RouteKept, RxKept DEF bridge, SteadyInv
<1>6. RxRouting' /\ TxRouting' /\ NoFault'
  BY <1>2, HistoryKept DEF history
<1> QED BY <1>4, <1>5, <1>6 DEF SteadyInv

(* A cport that the host is going to disconnect still leads to its node.   *)
LEMMA HostRemovedSteady ==
  ASSUME TypeInv, TypeInv', SteadyInv, NEW id \in InterfaceIds, ap_module_removed(id)
  PROVE  SteadyInv'
<1>1. UNCHANGED <<tables, ids, bridge, wq, rx, disc, ins, rem, history, fault>>
  BY DEF ap_module_removed
<1>2. ap \in Hosts
  BY DEF TypeInv, HostInv
<1>3. /\ ap'.up <=> ap.up
      /\ \A c \in ApCports :
           ap'.conn[c] = IF ap.conn[c].st = "open" /\ ap.conn[c].id = id
                         THEN [ap.conn[c] EXCEPT !.st = "closing"] ELSE ap.conn[c]
  <2>1. ap'.up <=> ap.up
    BY <1>2, Zenon DEF ap_module_removed, Hosts
  <2>2. \A c \in ApCports :
           ap'.conn[c] = IF ap.conn[c].st = "open" /\ ap.conn[c].id = id
                         THEN [ap.conn[c] EXCEPT !.st = "closing"] ELSE ap.conn[c]
    BY <1>2 DEF ap_module_removed, Hosts
  <2> QED BY <2>1, <2>2
<1>4. ASSUME NEW c \in ApCports
      PROVE  /\ ap'.conn[c].id = ap.conn[c].id /\ ap'.conn[c].cport = ap.conn[c].cport
             /\ ap'.conn[c].st = "free" <=> ap.conn[c].st = "free"
  <2>1. ap.conn[c] \in Connections
    BY <1>2 DEF Hosts
  <2> QED BY <1>3, <2>1 DEF Connections
<1>5. LinkInv' /\ SockInv' /\ EntriesKept /\ SocketsKept
  BY <1>1, TablesQuiet
<1>6. WqSteady'
  BY <1>1, <1>3, <1>4, <1>5, WqKept DEF SteadyInv, tables
<1>7. RxSteady'
  BY <1>1, <1>5, RxKept DEF SteadyInv
<1>8. RouteSteady'
  <2>1. RouteSteady /\ 0 \in ApCports
    BY ConstantsAssumption DEF SteadyInv, ApCports
  <2>2. \A c \in ApCports : Connected(c) => Connected(c)'
    BY <1>1, <1>4, <1>5, ConnectedKept DEF bridge
  <2> QED BY <1>1, <1>3, <1>4, <2>1, <2>2 DEF RouteSteady, bridge
<1>9. RxRouting' /\ TxRouting' /\ NoFault'
  BY <1>1, HistoryKept DEF history
<1> QED BY <1>5, <1>6, <1>7, <1>8, <1>9 DEF SteadyInv

(* A node sends a message or a part of one; it does not close or reset.    *)
LEMMA PeerSteady ==
  ASSUME Steady, TypeInv, TypeInv', SteadyInv, NEW f \in Fds,
         \/ PeerSendsPart(f)
         \/ \E n \in NodeCports : PeerSends(f, n)
         \/ PeerCloses(f)
         \/ PeerResets(f)
  PROVE  SteadyInv'
<1>1. ~PeerCloses(f) /\ ~PeerResets(f)
  BY DEF Steady, PeerCloses, PeerResets
<1>2. UNCHANGED <<cache, pos, intf, ctrl, ids, bridge, wq, rx, disc, host, from_nodes,
                  to_nodes, fault>>
  BY <1>1 DEF PeerSendsPart, PeerSends, history
<1>3. \A g \in Fds : /\ sock'[g].open <=> sock[g].open
                     /\ sock'[g].owner = sock[g].owner /\ sock'[g].peer = sock[g].peer
  <2>1. sock \in [Fds -> Sockets] /\ sock[f] \in Sockets
    BY DEF TypeInv, TablesInv
  <2>2. CASE PeerSendsPart(f)
    <3>1. sock' = [sock EXCEPT ![f].part = TRUE]
      BY <2>2 DEF PeerSendsPart
    <3>2. sock'[f] = [sock[f] EXCEPT !.part = TRUE]
          /\ \A g \in Fds : g # f => sock'[g] = sock[g]
      BY <2>1, <3>1
    <3>3. sock'[f].open <=> sock[f].open
      BY <2>1, <3>2, Zenon DEF Sockets
    <3>4. sock'[f].owner = sock[f].owner /\ sock'[f].peer = sock[f].peer
      BY <2>1, <3>2, Zenon DEF Sockets
    <3> QED BY <3>2, <3>3, <3>4
  <2>3. ASSUME NEW n \in NodeCports, PeerSends(f, n)
        PROVE  \A g \in Fds : /\ sock'[g].open <=> sock[g].open
                              /\ sock'[g].owner = sock[g].owner
                              /\ sock'[g].peer = sock[g].peer
    <3> DEFINE r == [sock[f] EXCEPT !.part = FALSE, !.inq = Append(@, n)]
    <3>1. sock' = [sock EXCEPT ![f] = r]
      BY <2>1, <2>3, Zenon DEF PeerSends, Sockets
    <3>2. r.open <=> sock[f].open
      BY <2>1, Zenon DEF Sockets
    <3>3. r.owner = sock[f].owner /\ r.peer = sock[f].peer
      BY <2>1, Zenon DEF Sockets
    <3> HIDE DEF r
    <3>4. sock'[f] = r /\ \A g \in Fds : g # f => sock'[g] = sock[g]
      BY <2>1, <3>1
    <3> QED BY <3>2, <3>3, <3>4
  <2> QED BY <1>1, <2>2, <2>3
<1>4. /\ LinkInv' /\ SockInv' /\ WqSteady' /\ RouteSteady'
      /\ EntriesKept /\ SocketsKept
  BY <1>2, <1>3, SocketsQuiet DEF bridge, host
<1>5. RxSteady'
  BY <1>2, <1>4, RxKept DEF SteadyInv
<1>6. RxRouting' /\ TxRouting' /\ NoFault'
  BY <1>2, HistoryKept
<1> QED BY <1>4, <1>5, <1>6 DEF SteadyInv

(* Every step.                                                             *)
LEMMA SteadyStep ==
  ASSUME Steady, TypeInv, TypeInv', SteadyInv, [Next]_vars
  PROVE  SteadyInv'
<1>1. CASE WqStep
  BY <1>1, NoOtherWqStep, StartSteady, CreateSteady, ConnectedSteady,
     ConnectFailedSteady, ConnDestroySteady, SubmitSteady, WriteOkSteady DEF WqStep
<1>2. CASE RxStep
  BY <1>2, NoOtherRxStep, RxStartSteady, RxPopulateSteady, RxFdsLenSteady,
     RxPollFailedSteady, RxPollSteady, RxDispatchSteady, RxReceiveSteady DEF RxStep
<1>3. CASE DiscStep
  BY <1>3, FilterSteady, CreateInterfaceSteady, FillSteady, CommitSteady, InsertedSteady
  DEF DiscStep
<1>4. CASE PeerStep
  <2>1. CASE \E id \in InterfaceIds : ap_module_removed(id)
    BY <2>1, HostRemovedSteady
  <2>2. ASSUME NEW f \in Fds,
               PeerSendsPart(f) \/ (\E n \in NodeCports : PeerSends(f, n))
               \/ PeerCloses(f) \/ PeerResets(f)
        PROVE  SteadyInv'
    BY <2>2, PeerSteady
  <2> QED BY <1>4, <2>1, <2>2 DEF PeerStep
<1>5. CASE UNCHANGED vars
  <2>1. UNCHANGED <<tables, node_ap_map, wq, rx, disc, host, history, fault>>
    BY <1>5 DEF vars, bridge
  <2>2. RxSteady'
    BY <2>1 DEF SteadyInv, RxSteady, Usable, tables
  <2> QED BY <2>1, <2>2, RxQuiet
<1> QED BY <1>1, <1>2, <1>3, <1>4, <1>5 DEF Next

(* The invariant of a bridge whose nodes keep their connections.           *)
THEOREM SteadyCorrect == Steady => (Spec => [](TypeInv /\ SteadyInv))
<1> SUFFICES ASSUME Steady PROVE Spec => [](TypeInv /\ SteadyInv)
  OBVIOUS
<1>1. Init => TypeInv /\ SteadyInv
  BY TypeInit, SteadyInit
<1>2. TypeInv /\ SteadyInv /\ [Next]_vars => (TypeInv /\ SteadyInv)'
  BY TypeStep, SteadyStep
<1> QED BY <1>1, <1>2, PTL DEF Spec

(* While the nodes keep their connections the bridge uses no freed block,  *)
(* dereferences no NULL and fails no assertion, for any number of nodes,   *)
(* even when ids are used twice and equal priorities are time-sliced.      *)
THEOREM SteadyNoFault == Steady => (Spec => []NoFault)
<1> SUFFICES ASSUME Steady PROVE Spec => []NoFault
  OBVIOUS
<1>1. TypeInv /\ SteadyInv => NoFault
  BY DEF SteadyInv
<1> QED BY <1>1, SteadyCorrect, PTL

(* The socket that rx polls for a node is the one that writes use.         *)
THEOREM SteadySockets == Steady => (Spec => []SockCoherent)
<1> SUFFICES ASSUME Steady PROVE Spec => []SockCoherent
  OBVIOUS
<1>1. TypeInv /\ SteadyInv => SockCoherent
  <2> SUFFICES ASSUME TypeInv, SteadyInv, NEW i \in Cached
               PROVE  cache[i].sock = ctrl[intf[cache[i].inf].ctrl].sock
    BY DEF SockCoherent
  <2>1. i \in CacheSlots /\ i < pos
    BY ConstantsAssumption DEF Cached, TypeInv, TablesInv, CacheSlots
  <2>2. Filled(i)
    BY <2>1 DEF Filled
  <2> QED BY <2>1, <2>2 DEF SteadyInv, LinkInv, Control
<1> QED BY <1>1, SteadyCorrect, PTL

(* A message of a node reaches the AP at the cport connected to it, though *)
(* gb_message_receive blocks between the lookup of the node and the use of *)
(* its entry.                                                              *)
THEOREM SteadyRxRouting == Steady => (Spec => []RxRouting)
<1> SUFFICES ASSUME Steady PROVE Spec => []RxRouting
  OBVIOUS
<1>1. TypeInv /\ SteadyInv => RxRouting
  BY DEF SteadyInv
<1> QED BY <1>1, SteadyCorrect, PTL

(* A message of the AP reaches the node that it connected the cport to.    *)
THEOREM SteadyTxRouting == Steady => (Spec => []TxRouting)
<1> SUFFICES ASSUME Steady PROVE Spec => []TxRouting
  OBVIOUS
<1>1. TypeInv /\ SteadyInv => TxRouting
  BY DEF SteadyInv
<1> QED BY <1>1, SteadyCorrect, PTL

=============================================================================
