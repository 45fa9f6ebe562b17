----------------------------- MODULE NodeBridge -----------------------------
(***************************************************************************)
(* The Greybus bridge: the nodes found on the network, their interfaces    *)
(* and sockets, and the table that routes messages between them and the    *)
(* AP.  It composes node.c, apbridge.c, greybus_interfaces.c, the node     *)
(* part of svc.c, tcp_discovery.c and the control commands of main.c.      *)
(*                                                                         *)
(* Three threads share this state without a lock:                          *)
(*   wq    hdlc_rx_workqueue, priority 5: runs every frame of the AP;      *)
(*   rx    node_rx_thread, priority 6: polls and reads the node sockets;   *)
(*   disc  tcp_discovery, priority 6: adds the nodes it discovers.         *)
(* wq preempts the other two anywhere and gives the CPU up only where it   *)
(* blocks (zsock_connect, zsock_send).  rx and disc switch where they      *)
(* block, and anywhere if the kernel time-slices equal priorities.         *)
(*                                                                         *)
(* A use of a freed block, a NULL dereference or a failed assertion ends   *)
(* the behaviour in a state where fault says which it was.                 *)
(***************************************************************************)
EXTENDS Integers, Sequences, FiniteSets, NodeCache, ApBridge

CONSTANTS
  Addrs,         \* addresses of the nodes on the network
  NoAddr,        \* the address in a cache slot that was never written
  MaxNodes,      \* CONFIG_BEAGLEPLAY_GREYBUS_MAX_NODES
  MaxInterfaces, \* CONFIG_BEAGLEPLAY_GREYBUS_MAX_INTERFACES
  UINT8_MAX,     \* the largest interface id
  MaxFds,        \* descriptors for node sockets
  NodeCports,    \* cports of a node that the AP connects to
  Timeslicing,   \* whether equal priorities are time-sliced
  SlabTakesBlock,\* whether k_mem_slab_free takes the block, not the address of its pointer
  StaleFds,      \* what a slot of fds may hold that the round did not write
  PeerFaults,    \* what nodes may do wrong: "refuse", "close", "reset", "partial"
  ApCommands,    \* what the AP may do beside CONN_CREATE: "data", "destroy", "stop", "reboot"
  MaxCreated,    \* bound: interfaces ever created
  MaxFromNodes,  \* bound: messages sent by the nodes
  MaxFromAp      \* bound: messages sent by the AP to the nodes

INTERFACE_ID_START == 3

ASSUME ConstantsAssumption ==
  /\ NoAddr \notin Addrs
  /\ MaxNodes \in Nat \ {0}
  /\ MaxInterfaces \in Nat \ {0}
  /\ MaxFds \in Nat
  /\ UINT8_MAX \in Nat /\ UINT8_MAX >= INTERFACE_ID_START
  /\ NodeCports \subseteq Nat
  /\ Timeslicing \in BOOLEAN
  /\ SlabTakesBlock \in BOOLEAN
  /\ StaleFds \subseteq Int
  /\ PeerFaults \subseteq {"refuse", "close", "reset", "partial"}
  /\ ApCommands \subseteq {"data", "destroy", "stop", "reboot"}
  /\ MaxCreated \in Nat
  /\ MaxFromNodes \in Nat
  /\ MaxFromAp \in Nat

VARIABLES
  cache,         \* node_cache
  pos,           \* node_cache_pos
  intf,          \* gb_interface_slab
  ctrl,          \* node_control_data_slab
  sock,          \* the node sockets, by descriptor
  id_counter,    \* interface_id_counter
  created,       \* interfaces created so far
  node_ap_map,   \* node_ap_map
  svc_ready,     \* svc_is_read_flag
  pipe,          \* the socket pair that wakes rx: is it open, bytes in it
  wq, rx, disc,  \* program counter and locals of each thread
  ins, rem,      \* MODULE_INSERTED and MODULE_REMOVED requests sent, by id
  ap,            \* the AP: is the SVC started, the removals it handled, its connections
  from_nodes,    \* messages the AP received
  to_nodes,      \* messages the nodes received
  sent,          \* messages sent so far
  astray,        \* has a socket been stored in the entry of another node
  fault

tables  == <<cache, pos, intf, ctrl, sock>>
ids     == <<id_counter, created>>
bridge  == <<node_ap_map, svc_ready, pipe>>
host    == <<ins, rem, ap>>
history == <<from_nodes, to_nodes, sent, astray>>
vars    == <<tables, ids, bridge, wq, rx, disc, host, history, fault>>

-----------------------------------------------------------------------------
(* Values.                                                                 *)

CacheSlots   == 0..(MaxNodes - 1)
IntfBlocks   == 1..MaxInterfaces
CtrlBlocks   == 1..MaxNodes
Fds          == 0..(MaxFds - 1)
ApCports     == 0..(MaxNodes - 1)
InterfaceIds == INTERFACE_ID_START..UINT8_MAX

(* The pointer to the static interface of the SVC.                         *)
SVC_INTF == MaxInterfaces + 1

FreeIntf     == [used |-> FALSE, id |-> 0, ctrl |-> NULL]
FreeCtrl     == [used |-> FALSE, sock |-> -1]
EmptySlot    == [sock |-> 0, id |-> 0, addr |-> NoAddr, inf |-> NULL]
(* owner: the id of the interface that the connection was opened for;      *)
(* part: the first bytes of a message that is not complete have arrived;   *)
(* stray: the node was sent a byte that belongs to no message.             *)
ClosedSocket == [open |-> FALSE, owner |-> 0, peer |-> "up", part |-> FALSE,
                 inq |-> <<>>, stray |-> FALSE]
(* A connection as the AP sees it.                                         *)
Connections  == [st : {"free", "open", "closing"}, id : InterfaceIds \cup {0},
                 cport : NodeCports \cup {0}]
NotConnected == [st |-> "free", id |-> 0, cport |-> 0]
NoMsg        == [cport |-> -1, from |-> 0]

WqIdle  == [pc |-> "idle", inf |-> NULL, idx |-> -1, fd |-> -1, ap_cport |-> 0,
            id |-> 0, cport |-> 0]
DiscSleeping(s) == [pc |-> "sleep", susp |-> s, addr |-> NoAddr, inf |-> NULL,
                    id |-> 0, pos |-> 0]

Init ==
  /\ cache = [i \in CacheSlots |-> EmptySlot]
  /\ pos = 0
  /\ intf = [b \in IntfBlocks |-> FreeIntf]
  /\ ctrl = [c \in CtrlBlocks |-> FreeCtrl]
  /\ sock = [f \in Fds |-> ClosedSocket]
  /\ id_counter = INTERFACE_ID_START
  /\ created = 0
  /\ node_ap_map = [c \in ApCports |-> NoConnection]
  /\ svc_ready = FALSE
  /\ pipe = [open |-> FALSE, bytes |-> 0]
  /\ wq = WqIdle
  /\ rx = [pc |-> "wait", fds |-> <<>>, rev |-> <<>>, i |-> 1, idx |-> -1,
           inf |-> NULL, id |-> 0, pos |-> 0, flag |-> FALSE, msg |-> NoMsg]
  /\ disc = DiscSleeping(TRUE)
  /\ ins = [i \in InterfaceIds |-> 0]
  /\ rem = [i \in InterfaceIds |-> 0]
  /\ ap = [up |-> FALSE, seen |-> rem, conn |-> [c \in ApCports |-> NotConnected]]
  /\ from_nodes = {}
  /\ to_nodes = {}
  /\ sent = [node |-> 0, ap |-> 0]
  /\ astray = FALSE
  /\ fault = "none"

-----------------------------------------------------------------------------
(* Steps shared by the threads.                                            *)

Crash(kind) ==
  /\ fault' = kind
  /\ UNCHANGED <<tables, ids, bridge, wq, rx, disc, host, history>>

(* A faulty pipe_send that wakes nobody.                                   *)
pipe_send_lost == UNCHANGED <<pipe, sock>>

(* pipe_send.  Before the socket pair exists local_pipe_writer is 0, and   *)
(* the byte goes to descriptor 0, which may be the socket of a node.       *)
pipe_send ==
  \/ /\ pipe.open
     /\ pipe' = [pipe EXCEPT !.bytes = @ + 1]
     /\ UNCHANGED sock
  \/ /\ ~pipe.open
     /\ sock' = [f \in Fds |-> IF f = 0 /\ sock[f].open
                               THEN [sock[f] EXCEPT !.stray = TRUE] ELSE sock[f]]
     /\ UNCHANGED pipe

(* A faulty test that takes descriptor 0 for "no socket".                  *)
close_node_sock_nonzero(s) == IF s > 0 THEN [sock EXCEPT ![s] = ClosedSocket] ELSE sock

close_node_sock(s) == IF s >= 0 THEN [sock EXCEPT ![s] = ClosedSocket] ELSE sock

(* k_mem_slab_free is called with the address of the pointer to the block. *)
(* Where it takes the block itself, the free list of the slab now leads to *)
(* the stack.                                                              *)
k_mem_slab_free == fault' = IF SlabTakesBlock THEN "wild_free" ELSE "none"

(* The end of node_destroy_interface: both blocks are freed.               *)
free_blocks(b) ==
  /\ ctrl' = [ctrl EXCEPT ![intf[b].ctrl] = FreeCtrl]
  /\ intf' = [intf EXCEPT ![b] = FreeIntf]
  /\ k_mem_slab_free

(* node_destroy_interface in wq, which nobody interrupts.                  *)
node_destroy_interface(b) ==
  LET k == node_cache_find_by_id(cache, pos, intf[b].id)
  IN /\ sock' = close_node_sock(ctrl[intf[b].ctrl].sock)
     /\ cache' = IF k >= 0 THEN node_cache_remove_at(cache, pos, k) ELSE cache
     /\ pos' = IF k >= 0 THEN pos - 1 ELSE pos
     /\ free_blocks(b)

(* svc_send_module_removed: tell the AP, then destroy the interface.  The  *)
(* request is always sent, to AP cport 0: SvcAtCportZero below.            *)
svc_send_module_removed(b) ==
  /\ rem' = [rem EXCEPT ![intf[b].id] = @ + 1]
  /\ node_destroy_interface(b)

(* Whether a pointer b that was taken to interface id may still be used:   *)
(* the block may have been freed since, and may be another interface now.  *)
LiveIntf(b, id) == b \in IntfBlocks /\ intf[b].used /\ intf[b].id = id

-----------------------------------------------------------------------------
(* wq: the frames of the AP.                                               *)

(* The host that starts the SVC knows of no module and of no connection.   *)
FreshHost(up) == [up |-> up, seen |-> ins, conn |-> [c \in ApCports |-> NotConnected]]

(* CONTROL_SVC_START.  connection_create finds the SVC interface because   *)
(* svc_init ran.  A host that starts again without a stop in between meets *)
(* an AP cport 0 that is taken (-EALREADY): neither the version nor the    *)
(* resumption of discovery follows.                                        *)
control_svc_start ==
  /\ wq.pc = "idle"
  /\ ap.up => "reboot" \in ApCommands
  /\ svc_ready' = TRUE
  /\ ap' = FreshHost(TRUE)
  /\ \/ /\ node_ap_may_add(node_ap_map, 0)
        /\ node_ap_map' = node_ap_add(node_ap_map, 0, 0, SVC_INTF, SVC_INF_ID)
        /\ disc' = [disc EXCEPT !.susp = FALSE]
     \/ /\ ~node_ap_may_add(node_ap_map, 0)
        /\ UNCHANGED <<node_ap_map, disc>>
  /\ UNCHANGED <<tables, ids, pipe, wq, rx, ins, rem, history, fault>>

(* CONTROL_SVC_STOP suspends discovery wherever it is, then runs the loop  *)
(* of node_destroy_all, whose index is wq.idx.                             *)
control_svc_stop ==
  /\ wq.pc = "idle"
  /\ "stop" \in ApCommands
  /\ ap.up
  /\ disc' = [disc EXCEPT !.susp = TRUE]
  /\ wq' = [WqIdle EXCEPT !.pc = "stop", !.idx = 0]
  /\ UNCHANGED <<tables, ids, bridge, rx, host, history, fault>>

node_destroy_all_next ==
  /\ wq.pc = "stop"
  /\ wq.idx < pos
  /\ LET b == cache[wq.idx].inf IN
     \/ /\ LiveIntf(b, cache[wq.idx].id)
        /\ node_destroy_interface(b)
        /\ wq' = [wq EXCEPT !.idx = @ + 1]
        /\ UNCHANGED <<ids, bridge, rx, disc, host, history>>
     \/ /\ ~LiveIntf(b, cache[wq.idx].id)
        /\ Crash("stale_remove")

(* The end of node_destroy_all, with its assertion, then svc_deinit and    *)
(* apbridge_deinit.  The AP forgets its connections and every id.          *)
node_destroy_all_done ==
  /\ wq.pc = "stop"
  /\ wq.idx >= pos
  /\ \/ /\ \A c \in CtrlBlocks : ~ctrl[c].used
        /\ pos' = 0
        /\ svc_ready' = FALSE
        /\ node_ap_map' = [c \in ApCports |-> NoConnection]
        /\ wq' = WqIdle
        /\ ap' = FreshHost(FALSE)
        /\ UNCHANGED <<cache, intf, ctrl, sock, ids, pipe, rx, disc, ins, rem,
                       history, fault>>
     \/ /\ \E c \in CtrlBlocks : ctrl[c].used
        /\ Crash("assert")

(* The AP as the host driver behaves: it connects to interfaces it was     *)
(* told of, each cport of an interface once, the control cport first, and  *)
(* from AP cports it is not using; cport 0 is the one of the SVC.          *)
ApMayConnect(ap_cport, id, cport) ==
  /\ ap.up
  /\ ap_cport # 0
  /\ ap.conn[ap_cport].st = "free"
  /\ ins[id] > ap.seen[id]
  /\ \A c \in ApCports : ap.conn[c].st # "free" =>
        <<ap.conn[c].id, ap.conn[c].cport>> # <<id, cport>>
  /\ cport # 0 => \E c \in ApCports : ap.conn[c] = [st |-> "open", id |-> id, cport |-> 0]

ApConnected(ap_cport, id, cport) ==
  ap' = [ap EXCEPT !.conn[ap_cport] =
           [st |-> IF ins[id] > ap.seen[id] THEN "open" ELSE "closing",
            id |-> id, cport |-> cport]]

(* The last part of connection_create, and the response to the AP.         *)
connection_create_add(ap_cport, id, cport, b) ==
  \/ /\ node_ap_may_add(node_ap_map, ap_cport)
     /\ node_ap_map' = node_ap_add(node_ap_map, ap_cport, cport, b, intf[b].id)
     /\ ApConnected(ap_cport, id, cport)
  \/ /\ ~node_ap_may_add(node_ap_map, ap_cport)
     /\ UNCHANGED <<node_ap_map, ap>>

(* The lowest free descriptor, as zsock_socket returns it.                 *)
zsock_socket == FirstIndex({f \in Fds : ~sock[f].open})

(* GB_SVC_TYPE_CONN_CREATE.  An unknown interface, or no free descriptor,  *)
(* is answered with an error.  Cports other than 0, and a cport 0 whose    *)
(* socket exists, need no socket; else wq blocks in connect to the address *)
(* of the node, holding its index.                                         *)
svc_connection_create(ap_cport, id, cport) ==
  LET k == node_cache_find_by_id(cache, pos, id)
      b == cache[k].inf
      f == zsock_socket
  IN /\ wq.pc = "idle"
     /\ ApMayConnect(ap_cport, id, cport)
     /\ k >= 0
     /\ \/ /\ ~LiveIntf(b, id)
           /\ Crash("stale_connect")
        \/ /\ LiveIntf(b, id)
           /\ cport # 0 \/ ctrl[intf[b].ctrl].sock >= 0
           /\ connection_create_add(ap_cport, id, cport, b)
           /\ UNCHANGED <<tables, ids, svc_ready, pipe, wq, rx, disc, ins, rem,
                          history, fault>>
        \/ /\ LiveIntf(b, id)
           /\ cport = 0
           /\ ctrl[intf[b].ctrl].sock < 0
           /\ f >= 0
           /\ sock' = [sock EXCEPT ![f] = [ClosedSocket EXCEPT !.open = TRUE,
                                                  !.owner = cache[k].id]]
           /\ wq' = [pc |-> "connect", inf |-> b, idx |-> k, fd |-> f,
                     ap_cport |-> ap_cport, id |-> id, cport |-> cport]
           /\ UNCHANGED <<cache, pos, intf, ctrl, ids, bridge, rx, disc, host,
                          history, fault>>

(* A faulty variant that leaves the control data without the socket.       *)
store_socket_cache_only(k, c, f) ==
  /\ cache' = [cache EXCEPT ![k].sock = f]
  /\ UNCHANGED ctrl
  /\ pipe_send

(* The end of node_intf_create_connection: the socket is stored at the     *)
(* index found before the connection was made and in the control data of   *)
(* the interface, and rx is woken.                                         *)
store_socket(k, c, f) ==
  /\ cache' = [cache EXCEPT ![k].sock = f]
  /\ ctrl' = [ctrl EXCEPT ![c].sock = f]
  /\ pipe_send

(* connect succeeds.                                                       *)
node_connected ==
  LET b == wq.inf IN
  /\ wq.pc = "connect"
  /\ \/ /\ ~LiveIntf(b, wq.id)
        /\ Crash("stale_connect")
     \/ /\ LiveIntf(b, wq.id)
        /\ store_socket(wq.idx, intf[b].ctrl, wq.fd)
        /\ connection_create_add(wq.ap_cport, wq.id, wq.cport, b)
        /\ wq' = WqIdle
        /\ astray' = (astray \/ wq.idx >= pos \/ cache[wq.idx].id # wq.id)
        /\ UNCHANGED <<pos, intf, ids, svc_ready, rx, disc, ins, rem, from_nodes,
                       to_nodes, sent, fault>>

(* connect fails: the socket is closed and the AP is answered with an      *)
(* error.                                                                  *)
node_connect_failed ==
  /\ wq.pc = "connect"
  /\ "refuse" \in PeerFaults
  /\ sock' = [sock EXCEPT ![wq.fd] = ClosedSocket]
  /\ wq' = WqIdle
  /\ UNCHANGED <<cache, pos, intf, ctrl, ids, bridge, rx, disc, host, history,
                 fault>>

(* GB_SVC_TYPE_CONN_DESTROY for a connection of the AP: node interfaces do *)
(* nothing, the routing entry is cleared.                                  *)
svc_connection_destroy(ap_cport) ==
  /\ wq.pc = "idle"
  /\ \/ ap.conn[ap_cport].st = "closing"
     \/ ap.conn[ap_cport].st = "open" /\ "destroy" \in ApCommands
  /\ node_ap_map' = node_ap_remove(node_ap_map, ap_cport)
  /\ ap' = [ap EXCEPT !.conn[ap_cport] = NotConnected]
  /\ UNCHANGED <<tables, ids, svc_ready, pipe, wq, rx, disc, ins, rem, history,
                 fault>>

(* connection_send from the AP to a node: ap_rx_submit reads the routing   *)
(* entry of the cport and calls write of its interface, which blocks in    *)
(* zsock_send.                                                             *)
ap_rx_submit(ap_cport) ==
  LET b == node_ap_map[ap_cport].node_intf IN
  /\ wq.pc = "idle"
  /\ "data" \in ApCommands
  /\ sent.ap < MaxFromAp
  /\ ap.conn[ap_cport].st = "open"
  /\ \/ /\ b = NULL
        /\ Crash("null_write")
     \/ /\ b # NULL
        /\ ~LiveIntf(b, node_ap_map[ap_cport].node_id)
        /\ Crash("stale_write")
     \/ /\ LiveIntf(b, node_ap_map[ap_cport].node_id)
        /\ wq' = [pc |-> "send", inf |-> b, idx |-> -1,
                  fd |-> ctrl[intf[b].ctrl].sock, ap_cport |-> ap_cport,
                  id |-> node_ap_map[ap_cport].node_id,
                  cport |-> node_ap_map[ap_cport].node_cport]
        /\ sent' = [sent EXCEPT !.ap = @ + 1]
        /\ UNCHANGED <<tables, ids, bridge, rx, disc, host, from_nodes, to_nodes,
                       astray, fault>>

SendMayWork(f) == f >= 0 /\ sock[f].open /\ sock[f].peer \in {"up", "eof"}
SendMayFail(f) == ~(f >= 0 /\ sock[f].open /\ sock[f].peer = "up")

(* gb_message_send wrote the whole message.                                *)
node_inf_write_ok ==
  /\ wq.pc = "send"
  /\ SendMayWork(wq.fd)
  /\ to_nodes' = to_nodes \cup
       {[to |-> ap.conn[wq.ap_cport].id, at |-> sock[wq.fd].owner,
         whole |-> ~sock[wq.fd].stray]}
  /\ wq' = WqIdle
  /\ UNCHANGED <<tables, ids, bridge, rx, disc, host, from_nodes, sent, astray,
                 fault>>

(* gb_message_send failed: it removes the node that has this socket.       *)
gb_message_send_failed ==
  LET k == node_cache_find_by_sock(cache, pos, wq.fd)
      b == cache[k].inf
  IN /\ wq.pc = "send"
     /\ SendMayFail(wq.fd)
     /\ \/ /\ k >= 0
           /\ LiveIntf(b, cache[k].id)
           /\ svc_send_module_removed(b)
           /\ wq' = [wq EXCEPT !.pc = "write_failed"]
           /\ UNCHANGED <<ids, bridge, rx, disc, ins, ap, history>>
        \/ /\ k >= 0
           /\ ~LiveIntf(b, cache[k].id)
           /\ Crash("stale_remove")
        \/ /\ k < 0
           /\ wq' = [wq EXCEPT !.pc = "write_failed"]
           /\ UNCHANGED <<tables, ids, bridge, rx, disc, host, history, fault>>

(* node_inf_write sees the error and removes its interface in turn.        *)
node_inf_write_failed ==
  /\ wq.pc = "write_failed"
  /\ \/ /\ LiveIntf(wq.inf, wq.id)
        /\ svc_send_module_removed(wq.inf)
        /\ wq' = WqIdle
        /\ UNCHANGED <<ids, bridge, rx, disc, ins, ap, history>>
     \/ /\ ~LiveIntf(wq.inf, wq.id)
        /\ Crash("stale_remove")

(* The AP handles MODULE_REMOVED: it stops using the connections to that   *)
(* interface and will destroy them.                                        *)
ap_module_removed(id) ==
  /\ ap.up
  /\ rem[id] > ap.seen[id]
  /\ ap' = [ap EXCEPT !.seen[id] = @ + 1,
                      !.conn = [c \in ApCports |->
                         IF ap.conn[c].st = "open" /\ ap.conn[c].id = id
                         THEN [ap.conn[c] EXCEPT !.st = "closing"]
                         ELSE ap.conn[c]]]
  /\ UNCHANGED <<tables, ids, bridge, wq, rx, disc, ins, rem, history, fault>>

-----------------------------------------------------------------------------
(* rx: node_rx_thread_entry.                                               *)

PollResults == {"none", "POLLNVAL", "POLLHUP", "POLLERR", "POLLIN"}

(* What zsock_poll reports for a descriptor, in the order the code tests   *)
(* the bits; negative descriptors are ignored.                             *)
OpenFd(f) == f \in Fds /\ sock[f].open
Revents(f) ==
  CASE f < 0                                -> "none"
    [] f >= 0 /\ ~OpenFd(f)                 -> "POLLNVAL"
    [] OpenFd(f) /\ sock[f].peer = "eof"    -> "POLLHUP"
    [] OpenFd(f) /\ sock[f].peer = "err"    -> "POLLERR"
    [] OpenFd(f) /\ sock[f].peer = "up"     ->
         IF sock[f].part \/ sock[f].inq # <<>> THEN "POLLIN" ELSE "none"

PollReturns == pipe.bytes > 0 \/ \E j \in DOMAIN rx.fds : Revents(rx.fds[j]) # "none"

(* gb_message_receive returns: a whole message is there, the peer has      *)
(* closed or reset the connection, or the descriptor is closed.            *)
RecvReturns ==
  LET s == sock[rx.fds[rx.i]] IN ~s.open \/ s.inq # <<>> \/ s.peer # "up"

RxBlocked ==
  \/ rx.pc \in {"wait", "ended"}
  \/ rx.pc = "poll" /\ ~PollReturns
  \/ rx.pc = "recv" /\ ~RecvReturns

WqYields == wq.pc \in {"idle", "connect", "send"}

RxMayRun == WqYields /\ (Timeslicing \/ disc.susp \/ disc.pc = "sleep")

(* Without its socket pair the thread ends for ever.                       *)
node_rx_thread_start ==
  /\ rx.pc = "wait"
  /\ RxMayRun
  /\ svc_ready
  /\ \/ /\ pipe' = [open |-> TRUE, bytes |-> 0]
        /\ rx' = [rx EXCEPT !.pc = "populate"]
     \/ /\ rx' = [rx EXCEPT !.pc = "ended"]
        /\ UNCHANGED pipe
  /\ UNCHANGED <<tables, ids, node_ap_map, svc_ready, wq, disc, host, history,
                 fault>>

(* The sockets of the nodes are copied ...                                 *)
node_rx_populate ==
  /\ rx.pc = "populate"
  /\ RxMayRun
  /\ rx' = [rx EXCEPT !.pc = "length", !.fds = [j \in 1..pos |-> cache[j - 1].sock]]
  /\ UNCHANGED <<tables, ids, bridge, wq, disc, host, history, fault>>

(* ... and fds_len is taken from node_cache_pos, read again or not.  Slots *)
(* that the loop did not reach hold what they held before.                 *)
node_rx_fds_len ==
  /\ rx.pc = "length"
  /\ RxMayRun
  /\ \E n \in {Len(rx.fds), pos} : \E g \in [(Len(rx.fds) + 1)..n -> StaleFds] :
       rx' = [rx EXCEPT !.pc = "poll",
                !.fds = [j \in 1..n |-> IF j <= Len(rx.fds) THEN rx.fds[j] ELSE g[j]]]
  /\ UNCHANGED <<tables, ids, bridge, wq, disc, host, history, fault>>

(* poll fails and the loop starts over.                                    *)
node_rx_poll_failed ==
  /\ rx.pc = "poll"
  /\ RxMayRun
  /\ rx' = [rx EXCEPT !.pc = "populate", !.fds = <<>>]
  /\ UNCHANGED <<tables, ids, bridge, wq, disc, host, history, fault>>

(* poll returns; one byte is drained from the pipe.                        *)
node_rx_poll ==
  /\ rx.pc = "poll"
  /\ RxMayRun
  /\ PollReturns
  /\ rx' = [rx EXCEPT !.pc = "loop", !.i = 1,
                      !.rev = [j \in DOMAIN rx.fds |-> Revents(rx.fds[j])]]
  /\ pipe' = [pipe EXCEPT !.bytes = IF @ > 0 THEN @ - 1 ELSE @]
  /\ UNCHANGED <<tables, ids, node_ap_map, svc_ready, wq, disc, host, history,
                 fault>>

RxNext == [rx EXCEPT !.pc = "loop", !.i = @ + 1, !.idx = -1, !.inf = NULL,
                     !.id = 0, !.pos = 0, !.msg = NoMsg]

(* One turn of the loop over the descriptors, up to the first call that    *)
(* blocks.  A descriptor that is no longer in the cache is skipped.        *)
node_rx_dispatch ==
  LET k == node_cache_find_by_sock(cache, pos, rx.fds[rx.i]) IN
  /\ rx.pc = "loop"
  /\ RxMayRun
  /\ \/ /\ rx.i > Len(rx.fds)
        /\ rx' = [rx EXCEPT !.pc = "populate", !.fds = <<>>, !.rev = <<>>, !.i = 1]
     \/ /\ rx.i <= Len(rx.fds)
        /\ rx.rev[rx.i] = "none" \/ k < 0
        /\ rx' = RxNext
     \/ /\ rx.i <= Len(rx.fds)
        /\ k >= 0
        /\ rx.rev[rx.i] \in {"POLLNVAL", "POLLHUP", "POLLERR"}
        /\ rx' = [rx EXCEPT !.pc = "remove", !.inf = cache[k].inf, !.id = cache[k].id]
     \/ /\ rx.i <= Len(rx.fds)
        /\ k >= 0
        /\ rx.rev[rx.i] = "POLLIN"
        /\ rx' = [rx EXCEPT !.pc = "recv", !.idx = k]
  /\ UNCHANGED <<tables, ids, bridge, wq, disc, host, history, fault>>

(* History: the AP has a cport connected to this cport of this node.       *)
ApHas(id, cport) == \E c \in ApCports : ap.conn[c] = [st |-> "open", id |-> id, cport |-> cport]

(* gb_message_receive and what follows it.  flag is written only when a    *)
(* read fails: TRUE when the peer closed (recv returned 0), FALSE on an    *)
(* error.  While flag is TRUE a whole message also leads to the removal.   *)
(* The node is the one at the index that was looked up before the call.    *)
node_rx_receive ==
  LET f    == rx.fds[rx.i]
      s    == sock[f]
      got  == s.open /\ s.inq # <<>>
      msg  == IF got THEN [cport |-> Head(s.inq), from |-> s.owner] ELSE NoMsg
      flag == IF got THEN rx.flag ELSE s.open /\ s.peer = "eof"
      node == cache[rx.idx]
      apc  == node_to_ap_cport(node_ap_map, node.id, msg.cport)
  IN /\ rx.pc = "recv"
     /\ RxMayRun
     /\ RecvReturns
     /\ sock' = IF got THEN [sock EXCEPT ![f].inq = Tail(@)] ELSE sock
     /\ \/ /\ flag \/ ~got
           /\ rx' = [rx EXCEPT !.pc = "remove", !.inf = node.inf, !.id = node.id,
                               !.flag = flag, !.msg = msg]
           /\ UNCHANGED from_nodes
        \/ /\ got /\ ~flag
           /\ rx' = RxNext
           /\ from_nodes' = IF apc >= 0
                            THEN from_nodes \cup {[from |-> msg.from, cport |-> msg.cport,
                                                   ap_cport |-> apc, at |-> ap.conn[apc],
                                                   elsewhere |-> ApHas(msg.from, msg.cport)]}
                            ELSE from_nodes
     /\ UNCHANGED <<cache, pos, intf, ctrl, ids, bridge, wq, disc, host, to_nodes,
                    sent, astray, fault>>

(* svc_send_module_removed in rx: the request is sent, which takes the     *)
(* UART a while, ...                                                       *)
node_rx_remove ==
  /\ rx.pc = "remove"
  /\ RxMayRun
  /\ \/ /\ ~LiveIntf(rx.inf, rx.id)
        /\ Crash("stale_remove")
     \/ /\ LiveIntf(rx.inf, rx.id)
        /\ rem' = [rem EXCEPT ![intf[rx.inf].id] = @ + 1]
        /\ rx' = [rx EXCEPT !.pc = "destroy"]
        /\ UNCHANGED <<tables, ids, bridge, wq, disc, ins, ap, history, fault>>

(* ... then node_destroy_interface closes the socket, ...                  *)
node_rx_close ==
  /\ rx.pc = "destroy"
  /\ RxMayRun
  /\ \/ /\ ~LiveIntf(rx.inf, rx.id)
        /\ Crash("stale_remove")
     \/ /\ LiveIntf(rx.inf, rx.id)
        /\ sock' = close_node_sock(ctrl[intf[rx.inf].ctrl].sock)
        /\ rx' = [rx EXCEPT !.pc = "unlink"]
        /\ UNCHANGED <<cache, pos, intf, ctrl, ids, bridge, wq, disc, host, history,
                       fault>>

(* ... node_cache_remove_by_id searches the entry, ...                     *)
node_rx_unlink ==
  LET k == node_cache_find_by_id(cache, pos, rx.id) IN
  /\ rx.pc = "unlink"
  /\ RxMayRun
  /\ \/ /\ ~LiveIntf(rx.inf, rx.id)
        /\ Crash("stale_remove")
     \/ /\ LiveIntf(rx.inf, rx.id)
        /\ rx' = IF k >= 0 THEN [rx EXCEPT !.pc = "shrink", !.idx = k, !.pos = pos]
                          ELSE [rx EXCEPT !.pc = "free"]
        /\ UNCHANGED <<tables, ids, bridge, wq, disc, host, history, fault>>

(* ... --node_cache_pos takes one off the count, as the search loaded it   *)
(* or as it is now; below zero the next line reads outside the array; ...  *)
node_rx_shrink ==
  /\ rx.pc = "shrink"
  /\ RxMayRun
  /\ \E n \in {pos, rx.pos} :
       \/ /\ n = 0
          /\ Crash("underflow")
       \/ /\ n > 0
          /\ pos' = n - 1
          /\ rx' = [rx EXCEPT !.pc = "move", !.pos = n - 1]
          /\ UNCHANGED <<cache, intf, ctrl, sock, ids, bridge, wq, disc, host, history,
                         fault>>

(* ... the last entry is copied into the gap; ...                          *)
node_rx_move ==
  /\ rx.pc = "move"
  /\ RxMayRun
  /\ cache' = node_cache_remove_at(cache, rx.pos + 1, rx.idx)
  /\ rx' = [rx EXCEPT !.pc = "free"]
  /\ UNCHANGED <<pos, intf, ctrl, sock, ids, bridge, wq, disc, host, history, fault>>

(* ... and the blocks are freed.                                           *)
node_rx_free ==
  /\ rx.pc = "free"
  /\ RxMayRun
  /\ \/ /\ ~LiveIntf(rx.inf, rx.id)
        /\ Crash("stale_remove")
     \/ /\ LiveIntf(rx.inf, rx.id)
        /\ free_blocks(rx.inf)
        /\ rx' = RxNext
        /\ UNCHANGED <<cache, pos, sock, ids, bridge, wq, disc, host, history>>

-----------------------------------------------------------------------------
(* disc: node_filter, one address at a time.                               *)

DiscMayRun == WqYields /\ ~disc.susp /\ (Timeslicing \/ RxBlocked)

node_filter(a) ==
  /\ disc.pc = "sleep"
  /\ DiscMayRun
  /\ created < MaxCreated
  /\ node_cache_find_by_addr(cache, pos, a) < 0
  /\ disc' = [disc EXCEPT !.pc = "create", !.addr = a]
  /\ UNCHANGED <<tables, ids, bridge, wq, rx, host, history, fault>>

(* Two faulty counters: one never advances, the other never wraps.         *)
new_interface_id_stuck == UNCHANGED id_counter
new_interface_id_no_wrap == id_counter' = id_counter + 1

new_interface_id ==
  id_counter' = IF id_counter = UINT8_MAX THEN INTERFACE_ID_START ELSE id_counter + 1

(* Control blocks are only reached through their interface, so which one   *)
(* the slab returns makes no difference; any free interface block may be.  *)
free_ctrl == FirstIndex({c \in CtrlBlocks : ~ctrl[c].used})

(* node_create_interface up to node_cache_add: a control block and an      *)
(* interface block, or nothing.                                            *)
node_create_interface ==
  /\ disc.pc = "create"
  /\ DiscMayRun
  /\ \/ \E b \in IntfBlocks : LET c == free_ctrl IN
          /\ c >= 0
          /\ ~intf[b].used
          /\ ctrl' = [ctrl EXCEPT ![c] = [used |-> TRUE, sock |-> -1]]
          /\ intf' = [intf EXCEPT ![b] = [used |-> TRUE, id |-> id_counter,
                                          ctrl |-> c]]
          /\ new_interface_id
          /\ created' = created + 1
          /\ disc' = [disc EXCEPT !.pc = "fill", !.inf = b, !.id = id_counter]
     \/ /\ \/ free_ctrl < 0
           \/ \A b \in IntfBlocks : intf[b].used
        /\ disc' = DiscSleeping(FALSE)
        /\ UNCHANGED <<ctrl, intf, ids>>
  /\ UNCHANGED <<cache, pos, sock, bridge, wq, rx, host, history, fault>>

(* node_cache_add: the entry is written at node_cache_pos ...  On -ENOMEM  *)
(* the control block is released and the interface block is not.           *)
node_cache_add_fill ==
  /\ disc.pc = "fill"
  /\ DiscMayRun
  /\ \/ /\ pos < MaxNodes
        /\ cache' = [cache EXCEPT ![pos] =
             [sock |-> -1, id |-> intf[disc.inf].id, addr |-> disc.addr,
              inf |-> disc.inf]]
        /\ disc' = [disc EXCEPT !.pc = "commit", !.pos = pos]
        /\ UNCHANGED <<ctrl, fault>>
     \/ /\ pos >= MaxNodes
        /\ ctrl' = [ctrl EXCEPT ![intf[disc.inf].ctrl] = FreeCtrl]
        /\ k_mem_slab_free
        /\ disc' = DiscSleeping(FALSE)
        /\ UNCHANGED cache
  /\ UNCHANGED <<pos, intf, sock, ids, bridge, wq, rx, host, history>>

(* ... and node_cache_pos++ follows.  The counter is a plain variable: the *)
(* compiler may increment the value it loaded before or the current one.   *)
node_cache_add_commit ==
  /\ disc.pc = "commit"
  /\ DiscMayRun
  /\ pos' \in {pos + 1, disc.pos + 1}
  /\ disc' = [disc EXCEPT !.pc = "announce"]
  /\ UNCHANGED <<cache, intf, ctrl, sock, ids, bridge, wq, rx, host, history,
                 fault>>

(* svc_send_module_inserted(inf->id).                                      *)
svc_send_module_inserted ==
  /\ disc.pc = "announce"
  /\ DiscMayRun
  /\ \/ /\ ~LiveIntf(disc.inf, disc.id)
        /\ Crash("stale_announce")
     \/ /\ LiveIntf(disc.inf, disc.id)
        /\ ins' = [ins EXCEPT ![intf[disc.inf].id] = @ + 1]
        /\ disc' = DiscSleeping(FALSE)
        /\ UNCHANGED <<tables, ids, bridge, wq, rx, rem, ap, history, fault>>

-----------------------------------------------------------------------------
(* The nodes at the other end of the sockets.                              *)

PeerUp(f) ==
  /\ sock[f].open
  /\ sock[f].peer = "up"
  /\ ~(wq.pc = "connect" /\ wq.fd = f)

PeerSendsPart(f) ==
  /\ PeerUp(f)
  /\ "partial" \in PeerFaults
  /\ ~sock[f].part
  /\ sent.node < MaxFromNodes
  /\ sock' = [sock EXCEPT ![f].part = TRUE]
  /\ UNCHANGED <<cache, pos, intf, ctrl, ids, bridge, wq, rx, disc, host, history,
                 fault>>

PeerSends(f, cport) ==
  /\ PeerUp(f)
  /\ sent.node < MaxFromNodes
  /\ sock' = [sock EXCEPT ![f].part = FALSE, ![f].inq = Append(@, cport)]
  /\ sent' = [sent EXCEPT !.node = @ + 1]
  /\ UNCHANGED <<cache, pos, intf, ctrl, ids, bridge, wq, rx, disc, host,
                 from_nodes, to_nodes, astray, fault>>

PeerCloses(f) ==
  /\ PeerUp(f)
  /\ "close" \in PeerFaults
  /\ sock' = [sock EXCEPT ![f].peer = "eof"]
  /\ UNCHANGED <<cache, pos, intf, ctrl, ids, bridge, wq, rx, disc, host, history,
                 fault>>

(* A reset discards what was received and not read.                        *)
PeerResets(f) ==
  /\ PeerUp(f)
  /\ "reset" \in PeerFaults
  /\ sock' = [sock EXCEPT ![f].peer = "err", ![f].part = FALSE, ![f].inq = <<>>]
  /\ UNCHANGED <<cache, pos, intf, ctrl, ids, bridge, wq, rx, disc, host, history,
                 fault>>

-----------------------------------------------------------------------------
WqStep ==
  \/ control_svc_start
  \/ control_svc_stop
  \/ node_destroy_all_next
  \/ node_destroy_all_done
  \/ \E c \in ApCports, id \in InterfaceIds, n \in NodeCports :
        svc_connection_create(c, id, n)
  \/ node_connected
  \/ node_connect_failed
  \/ \E c \in ApCports : svc_connection_destroy(c)
  \/ \E c \in ApCports : ap_rx_submit(c)
  \/ node_inf_write_ok
  \/ gb_message_send_failed
  \/ node_inf_write_failed

RxStep ==
  \/ node_rx_thread_start
  \/ node_rx_populate
  \/ node_rx_fds_len
  \/ node_rx_poll_failed
  \/ node_rx_poll
  \/ node_rx_dispatch
  \/ node_rx_receive
  \/ node_rx_remove
  \/ node_rx_close
  \/ node_rx_unlink
  \/ node_rx_shrink
  \/ node_rx_move
  \/ node_rx_free

DiscStep ==
  \/ \E a \in Addrs : node_filter(a)
  \/ node_create_interface
  \/ node_cache_add_fill
  \/ node_cache_add_commit
  \/ svc_send_module_inserted

PeerStep ==
  \/ \E id \in InterfaceIds : ap_module_removed(id)
  \/ \E f \in Fds : \/ PeerSendsPart(f)
                    \/ \E n \in NodeCports : PeerSends(f, n)
                    \/ PeerCloses(f)
                    \/ PeerResets(f)

Next == fault = "none" /\ (WqStep \/ RxStep \/ DiscStep \/ PeerStep)

Spec == Init /\ [][Next]_vars

-----------------------------------------------------------------------------
(* Type correctness of the firmware's state and of its environment.        *)
TypeOK ==
  /\ cache \in [CacheSlots -> [sock : {-1} \cup Fds \cup {0}, id : InterfaceIds \cup {0},
                               addr : Addrs \cup {NoAddr}, inf : IntfBlocks \cup {NULL}]]
  /\ pos \in 0..MaxNodes
  /\ intf \in [IntfBlocks -> [used : BOOLEAN, id : InterfaceIds \cup {0},
                              ctrl : CtrlBlocks \cup {NULL}]]
  /\ ctrl \in [CtrlBlocks -> [used : BOOLEAN, sock : {-1} \cup Fds]]
  /\ sock \in [Fds -> [open : BOOLEAN, owner : InterfaceIds \cup {0},
                       peer : {"up", "eof", "err"}, part : BOOLEAN,
                       inq : Seq(NodeCports), stray : BOOLEAN]]
  /\ id_counter \in InterfaceIds
  /\ created \in Nat
  /\ node_ap_map \in [ApCports -> [node_intf : IntfBlocks \cup {NULL, SVC_INTF},
                                   node_cport : NodeCports \cup {0},
                                   node_id : InterfaceIds \cup {SVC_INF_ID}]]
  /\ svc_ready \in BOOLEAN
  /\ pipe \in [open : BOOLEAN, bytes : Nat]
  /\ wq \in [pc : {"idle", "connect", "send", "write_failed", "stop"},
             inf : IntfBlocks \cup {NULL}, idx : Int, fd : {-1} \cup Fds,
             ap_cport : ApCports, id : InterfaceIds \cup {0},
             cport : NodeCports \cup {0}]
  /\ rx \in [pc : {"wait", "ended", "populate", "length", "poll", "loop", "recv", "remove",
                   "destroy", "unlink", "shrink", "move", "free"},
             fds : Seq({-1} \cup Fds \cup {0} \cup StaleFds), rev : Seq(PollResults),
             i : Nat, idx : Int, inf : IntfBlocks \cup {NULL},
             id : InterfaceIds \cup {0}, pos : 0..MaxNodes, flag : BOOLEAN,
             msg : [cport : NodeCports \cup {-1}, from : InterfaceIds \cup {0}]]
  /\ disc \in [pc : {"sleep", "create", "fill", "commit", "announce"}, susp : BOOLEAN,
               addr : Addrs \cup {NoAddr}, inf : IntfBlocks \cup {NULL},
               id : InterfaceIds \cup {0}, pos : Nat]
  /\ ins \in [InterfaceIds -> Nat]
  /\ rem \in [InterfaceIds -> Nat]
  /\ ap \in [up : BOOLEAN, seen : [InterfaceIds -> Nat],
             conn : [ApCports -> Connections]]
  /\ from_nodes \subseteq [from : InterfaceIds \cup {0}, cport : NodeCports,
                           ap_cport : ApCports, at : Connections, elsewhere : BOOLEAN]
  /\ to_nodes \subseteq [to : InterfaceIds \cup {0}, at : InterfaceIds \cup {0},
                         whole : BOOLEAN]
  /\ sent \in [node : Nat, ap : Nat]
  /\ astray \in BOOLEAN
  /\ fault \in {"none", "assert", "null_write", "stale_write", "stale_remove",
                "stale_connect", "stale_announce", "wild_free", "underflow"}
-----------------------------------------------------------------------------
(* Safety.  Each invariant is about the states before a fault: what memory *)
(* holds after a use of freed memory is not modelled.                      *)

Cached == 0..(pos - 1)

(* A block that disc has allocated and not yet published in the cache.     *)
Pending(b) == disc.pc \in {"fill", "commit"} /\ disc.inf = b

(* rx is removing interface b.                                             *)
Leaving(b) ==
  /\ rx.pc \in {"remove", "destroy", "unlink", "shrink", "move", "free"}
  /\ rx.inf = b

(* node_find_by_id finds by its id every interface that was added to the   *)
(* cache and is not being removed, and nothing that was freed, except      *)
(* while rx has the last entry in hand (node_cache_add,                    *)
(* node_cache_remove_by_id, new_interface_id).                             *)
FindsInterfaces ==
  fault = "none" /\ rx.pc # "move" =>
    /\ \A i \in Cached : LiveIntf(cache[i].inf, cache[i].id)
    /\ \A b \in IntfBlocks : intf[b].used /\ ~Pending(b) /\ ~Leaving(b) =>
         LET k == node_cache_find_by_id(cache, pos, intf[b].id)
         IN k >= 0 /\ cache[k].inf = b

(* The socket that rx polls for a node is the socket that writes to that   *)
(* node use: node_intf_create_connection stores it twice, in the cache and *)
(* in the control data, after a connect during which the cache may change. *)
SockCoherent ==
  fault = "none" =>
    \A i \in Cached : cache[i].sock = ctrl[intf[cache[i].inf].ctrl].sock

(* rx is about to free control block c and has closed its socket.          *)
ClosedBy(c) ==
  /\ rx.pc \in {"unlink", "shrink", "move", "free"}
  /\ LiveIntf(rx.inf, rx.id)
  /\ intf[rx.inf].ctrl = c

(* Every open socket has one owner that will close it: the control data of *)
(* one interface, or the connect in progress.  A socket without one can    *)
(* never be closed again (connect_to_node, node_destroy_interface).  Once  *)
(* a socket went to the entry of another node this is lost: rx then        *)
(* removes an interface that wq is connecting.                             *)
NoFdLeak ==
  fault = "none" /\ ~astray =>
    \A f \in Fds : sock[f].open =>
      LET owners == {c \in CtrlBlocks : ctrl[c].used /\ ctrl[c].sock = f /\ ~ClosedBy(c)}
      IN IF wq.pc = "connect" /\ wq.fd = f THEN owners = {}
                                           ELSE Cardinality(owners) = 1

(* The AP is told of every interface once, and that it is gone at most     *)
(* once and never before it was told of it (node_filter,                   *)
(* svc_send_module_removed), although insertions are sent by disc and      *)
(* removals by rx and wq.                                                  *)
AnnounceOrder ==
  fault = "none" =>
    \A id \in InterfaceIds : rem[id] <= ins[id] /\ ins[id] <= rem[id] + 1

(* A message of a node reaches the AP at the cport that the AP connected   *)
(* to that cport of that node, or at one that the AP no longer uses:       *)
(* node_rx_thread_entry, connection_send, node_to_ap_cport.                *)
RxRouting ==
  \A m \in from_nodes : m.ap_cport # 0 /\
    ((m.at.st = "free" /\ ~m.elsewhere) \/ (m.at.id = m.from /\ m.at.cport = m.cport))

(* A message of the AP reaches the node that the AP connected the cport    *)
(* to: the chain AP cport, interface, control data, socket, address.       *)
TxRouting == \A m \in to_nodes : m.to = m.at

(* A node that is written a message can read it: the bytes that it was     *)
(* sent before make up whole messages (node_inf_write, pipe_send).         *)
WholeMessages == \A m \in to_nodes : m.whole

(* The SVC sends its requests and responses to cport 0 of the AP, whatever *)
(* is connected: node_to_ap_cport returns the first entry that looks like  *)
(* cport 0 of the SVC, and a zeroed entry does.                            *)
SvcAtCportZero == node_to_ap_cport(node_ap_map, SVC_INF_ID, 0) = 0

(* No use of freed memory, NULL dereference or failed assertion.           *)
NoFault == fault = "none"

(* node_destroy_all destroys every node in the cache before it empties the *)
(* cache and asserts that no control block is left.                        *)
StopDestroysAll == (wq.pc = "stop" /\ wq.idx >= pos) => Cached = {}

(* When node_destroy_all has destroyed every node in the cache, no control *)
(* block is in use: what its assertion says, also when the thread that     *)
(* adds nodes was suspended in the middle.                                 *)
NothingLeftOver ==
  (wq.pc = "stop" /\ wq.idx >= pos /\ Cached = {}) => \A c \in CtrlBlocks : ~ctrl[c].used

(* node_destroy_interface and gb_interface_dealloc give their blocks back  *)
(* to the slabs they came from.                                            *)
BlocksReturned == fault # "wild_free"

(* A write that fails returns its error to the AP side: neither            *)
(* gb_message_send nor node_inf_write touches an interface that the other  *)
(* has already destroyed.                                                  *)
WriteReturns == wq.pc = "write_failed" => LiveIntf(wq.inf, wq.id)

(* rx takes a socket for closed by its peer ("Socket closed by peer") only *)
(* when its read met the end of the stream, not when it read a message.    *)
ClosedIsClosed == (rx.pc = "remove" /\ rx.flag) => rx.msg = NoMsg

-----------------------------------------------------------------------------
(* Liveness, under the fairness of the scheduler: each thread that can run *)
(* runs eventually, and a connect or a send ends eventually because TCP    *)
(* times out.  A poll that has something to report does not fail each      *)
(* time; nothing obliges it to fail, nor the AP or the nodes to do         *)
(* anything.                                                               *)
Fairness ==
  /\ WF_vars(fault = "none" /\ rx.pc # "poll" /\ RxStep)
  /\ SF_vars(fault = "none" /\ node_rx_poll)
  /\ WF_vars(fault = "none" /\ DiscStep)
  /\ WF_vars(fault = "none" /\ (node_connected \/ node_connect_failed))
  /\ WF_vars(fault = "none" /\ (node_inf_write_ok \/ gb_message_send_failed))
  /\ WF_vars(fault = "none" /\ node_inf_write_failed)

FairSpec == Spec /\ Fairness

(* rx waits for the rest of a message that a node has only begun.          *)
RxStalled == rx.pc = "recv" /\ ~RecvReturns

(* Whatever a connected node sends is read by rx: after a connection is    *)
(* made rx must be woken (pipe_send) or it polls the old set forever.      *)
(* Nothing but a node that stops in the middle of its message, in          *)
(* gb_message_receive, keeps rx from the others, unless rx has ended       *)
(* because it got no socket pair.                                          *)
NodeHeard ==
  \A f \in Fds : sock[f].inq # <<>> ~> (sock[f].inq = <<>> \/ RxStalled \/ rx.pc = "ended")

=============================================================================
