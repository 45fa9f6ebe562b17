-------------------------------- MODULE Svc ---------------------------------
(***************************************************************************)
(* The SVC and the local node: what the AP asks of them and how they       *)
(* answer, with the heap that every message comes from and the operation   *)
(* ids that the SVC draws for its own requests.                            *)
(*                                                                         *)
(* wq handles a frame of the AP without interruption, except while it      *)
(* waits for a node (node_inf_write, connect).  rx and disc run meanwhile, *)
(* and wq preempts them between any two of their steps.  Between nodes and *)
(* firmware only what needs the heap is modelled here: a message of a node *)
(* arrives, a node appears, a node goes away.  NodeBridge has the sockets. *)
(***************************************************************************)
EXTENDS Messages, ApBridge, FiniteSets, Sequences

CONSTANTS
  AP_MAX_NODES,   \* AP cports
  Types,          \* types of requests that the AP uses (representatives)
  MaxInbox,       \* frames that wait for wq
  MaxAsks,        \* bound: requests of the AP
  MaxStarts,      \* bound: START commands
  MaxArrivals     \* bound: insertions of the node

LOCAL_NODE_ID == 2
INTERFACE_ID_START == 3

(* Pointers to the interfaces.                                             *)
SVC_INTF   == 1
LOCAL_INTF == 2

(* Nodes get their ids in the order in which they appear; an interface of  *)
(* a node is pointed to by its id.                                         *)
NodeIds == INTERFACE_ID_START..(INTERFACE_ID_START + MaxArrivals - 1)

ApCports == 0..(AP_MAX_NODES - 1)

(* gb_handle_msg and the control protocol of the local node: the type of a *)
(* request and whether the payload of its answer is empty.                 *)
EmptyReplies ==
  {"INTF_DEVICE_ID", "ROUTE_CREATE", "ROUTE_DESTROY", "PING", "CONN_CREATE", "CONN_DESTROY"}
PayloadReplies ==
  {"DME_PEER_GET", "DME_PEER_SET", "INTF_SET_PWRM", "PWRMON_RAIL_COUNT_GET",
   "INTF_VSYS_ENABLE", "INTF_VSYS_DISABLE", "INTF_REFCLK_ENABLE", "INTF_REFCLK_DISABLE",
   "INTF_UNIPRO_ENABLE", "INTF_UNIPRO_DISABLE", "INTF_ACTIVATE", "INTF_RESUME"}
ControlEmptyReplies ==
  {"CPORT_SHUTDOWN", "CONNECTED", "DISCONNECTING", "DISCONNECTED", "TIMESYNC_ENABLE",
   "TIMESYNC_DISABLE", "TIMESYNC_AUTHORITATIVE", "INTF_HIBERNATE_ABORT"}
ControlPayloadReplies == {"VERSION", "GET_MANIFEST_SIZE", "GET_MANIFEST"}

SvcReplies     == EmptyReplies \cup PayloadReplies
ControlReplies == ControlEmptyReplies \cup ControlPayloadReplies
HasPayload(ty) == ty \in PayloadReplies \cup ControlPayloadReplies

(* What the AP may connect a cport to: cport 0 of the local node, cport 0  *)
(* of a node, and a cport that the SVC does not have.                      *)
Targets == {[id |-> i, cport |-> 0] : i \in NodeIds \cup {LOCAL_NODE_ID}}
           \cup {[id |-> SVC_INF_ID, cport |-> 1]}
Unconnected == [id |-> -1, cport |-> 0]
SvcTarget   == [id |-> SVC_INF_ID, cport |-> 0]

(* A frame of the AP: a command, a request or response on an AP cport.  c  *)
(* and to are the arguments of CONN_CREATE and CONN_DESTROY.               *)
Frame(type, cport, id, c, to) ==
  [type |-> type, cport |-> cport, id |-> id, c |-> c, to |-> to]
Command(type) == Frame(type, 0, 0, 0, Unconnected)

Response == [PROTOCOL_VERSION |-> "VERSION_RESPONSE", SVC_HELLO |-> "HELLO_RESPONSE",
             MODULE_INSERTED |-> "INSERTED_RESPONSE", MODULE_REMOVED |-> "REMOVED_RESPONSE"]
Responses == {Response[r] : r \in DOMAIN Response}

ASSUME SvcAssumption ==
  /\ AP_MAX_NODES \in Nat \ {0}
  /\ Types \subseteq STRING
  /\ {MaxInbox, MaxAsks, MaxStarts, MaxArrivals} \subseteq Nat

VARIABLES
  heap,       \* blocks of greybus_messages_heap in use
  counter,    \* operation_id_counter
  ready,      \* svc_is_read_flag
  map,        \* node_ap_map
  node,       \* each node: none, allocated (it has an interface), listed (and is in
              \* node_cache), linked (and has a socket)
  wq,         \* work queue: idle, or waiting for the node with its message
  th,         \* rx and disc: program counter, message, node, and the request being made
  flag,       \* of node_rx_thread_entry
  suspended,  \* disc is suspended
  inbox,      \* frames of the AP that wq has not taken yet
  ap,         \* the AP: its session, whether that began after a STOP or at power-up,
              \* its connections, the requests it waits for
  ops,        \* history: the operation ids drawn, in order, and their fate
  dropped,    \* history: requests without a message, for them or their answer
  unrouted,   \* history: blocks of the messages that nobody frees
  arrivals, starts, asks,   \* bounds
  fault       \* "none", or what the firmware died of

vars == <<heap, counter, ready, map, node, wq, th, flag, suspended, inbox, ap, ops,
          dropped, unrouted, arrivals, starts, asks, fault>>
bounds == <<arrivals, starts, asks>>

NoFrame == Command("none")
Resting == [pc |-> "idle", msg |-> NoMessage, node |-> 0, op |-> 0]

Init ==
  /\ heap = {}
  /\ counter = OPERATION_ID_START
  /\ ready = FALSE
  /\ map = [c \in ApCports |-> NoConnection]
  /\ node = [i \in NodeIds |-> "none"]
  /\ wq = [pc |-> "idle", msg |-> NoMessage, frame |-> NoFrame]
  /\ th = [t \in {"rx", "disc"} |-> Resting]
  /\ flag = FALSE
  /\ suspended = TRUE
  /\ inbox = <<>>
  /\ ap = [session |-> "down", fresh |-> FALSE, conn |-> [c \in ApCports |-> Unconnected], wait |-> {}]
  /\ ops = <<>>
  /\ dropped = {}
  /\ unrouted = 0
  /\ arrivals = 0 /\ starts = 0 /\ asks = 0
  /\ fault = "none"

-----------------------------------------------------------------------------
(* Interfaces and routes.                                                  *)

(* The nodes in node_cache, where node_find_by_id looks.                   *)
Cached == {"listed", "linked"}

(* gb_interface_find_by_id, svc_interface, local_node_interface.           *)
gb_interface_find_by_id(id) ==
  CASE id = SVC_INF_ID    -> IF ready THEN SVC_INTF ELSE NULL
    [] id = LOCAL_NODE_ID -> LOCAL_INTF
    [] OTHER              -> IF id \in {i \in NodeIds : node[i] \in Cached} THEN id ELSE NULL

(* A faulty ap_send that keeps the message.                                *)
ap_send_keeps(h, b) == h

(* ap_send frees the message once it has been written.                     *)
ap_send(h, b) == gb_message_dealloc(h, b)

(* connection_send towards the AP: the heap after it.  A message without a *)
(* route is nobody's.  Those of the SVC always have one, since a zeroed    *)
(* entry is taken for the SVC's own: control_send_request never fails, and *)
(* svc_send_module_removed goes on to destroy the interface.               *)
Routed(m, id, cport) == node_to_ap_cport(m, id, cport) >= 0
send_to_ap(h, m, id, cport, b) == IF Routed(m, id, cport) THEN ap_send(h, b) ELSE h

(* A thread stands between the increment and the reset of the counter.     *)
Resetting == \E t \in DOMAIN th : th[t].pc = "reset"

Op(type, n, st) == [type |-> type, node |-> n, id |-> operation_id(counter), raced |-> Resetting,
                     st |-> st]

Dies(why) ==
  /\ fault' = why
  /\ UNCHANGED <<heap, counter, ready, map, node, wq, th, flag, suspended, inbox, ap,
                 ops, dropped, unrouted, bounds>>

(* wq makes requests of the SVC: no thread runs in between.  h is the heap *)
(* with what wq holds, held the message it frees afterwards.  The id that  *)
(* is read from the message after it was freed is not used.                *)
control_send_request(type, h, held) ==
  /\ heap' = send_to_ap(h \cup gb_message_alloc(h, 1), map, SVC_INF_ID, 0,
                        gb_message_alloc(h, 1)) \ held
  /\ counter' = counter_after(counter)
  /\ ops' = Append(ops, Op(type, 0, "sent"))

-----------------------------------------------------------------------------
(* Commands of the host, in wq.                                            *)

Take(type) ==
  /\ fault = "none"
  /\ wq.pc = "idle"
  /\ inbox # <<>>
  /\ Head(inbox).type \in type

(* START: a cport 0 that is still connected ends it (-EALREADY) before the *)
(* version request is sent and discovery resumed.                          *)
control_svc_start ==
  /\ Take({"START"})
  /\ \/ /\ ~node_ap_may_add(map, 0)
        /\ ready' = TRUE
        /\ inbox' = Tail(inbox)
        /\ UNCHANGED <<heap, counter, map, node, wq, th, flag, suspended, ap, ops,
                       dropped, unrouted, bounds, fault>>
     \/ /\ node_ap_may_add(map, 0)
        /\ gb_message_alloc(heap, 1) # NoMessage
        /\ ready' = TRUE
        /\ inbox' = Tail(inbox)
        /\ map' = node_ap_add(map, 0, 0, SVC_INTF, SVC_INF_ID)
        /\ control_send_request("PROTOCOL_VERSION", heap, NoMessage)
        /\ suspended' = FALSE
        /\ UNCHANGED <<node, wq, th, flag, ap, dropped, unrouted, bounds, fault>>
     \/ /\ node_ap_may_add(map, 0)
        /\ CopiesToNull(gb_message_alloc(heap, 1), TRUE)
        /\ Dies("null_copy")

(* node_destroy_all: its index passes over the node that is moved into the *)
(* place of the one it destroys, so only a single node is destroyed for    *)
(* sure; the assertion at its end fails over every node that keeps its     *)
(* control data, one that is not in node_cache yet included.               *)
DestroysAll ==
  /\ \A i \in NodeIds : node[i] # "allocated"
  /\ \A i, j \in NodeIds : node[i] # "none" /\ node[j] # "none" => i = j

(* Two faulty STOPs: one leaves the routing table as it is, the other      *)
(* leaves discovery running.                                               *)
control_svc_stop_disc_runs ==
  /\ Take({"STOP"})
  /\ DestroysAll
  /\ node' = [i \in NodeIds |-> "none"]
  /\ ready' = FALSE
  /\ map' = [c \in ApCports |-> NoConnection]
  /\ inbox' = Tail(inbox)
  /\ UNCHANGED <<heap, counter, wq, th, flag, suspended, ap, ops, dropped, unrouted, bounds,
                 fault>>

control_svc_stop_keeps_map ==
  /\ Take({"STOP"})
  /\ DestroysAll
  /\ suspended' = TRUE
  /\ node' = [i \in NodeIds |-> "none"]
  /\ ready' = FALSE
  /\ inbox' = Tail(inbox)
  /\ UNCHANGED <<heap, counter, map, wq, th, flag, ap, ops, dropped, unrouted, bounds,
                 fault>>

(* STOP: tcp_discovery_stop, node_destroy_all, svc_deinit and              *)
(* apbridge_deinit.                                                        *)
control_svc_stop ==
  /\ Take({"STOP"})
  /\ \/ /\ DestroysAll
        /\ suspended' = TRUE
        /\ node' = [i \in NodeIds |-> "none"]
        /\ ready' = FALSE
        /\ map' = [c \in ApCports |-> NoConnection]
        /\ inbox' = Tail(inbox)
        /\ UNCHANGED <<heap, counter, wq, th, flag, ap, ops, dropped, unrouted, bounds, fault>>
     \/ /\ ~DestroysAll
        /\ Dies("assertion")

-----------------------------------------------------------------------------
(* Messages of the AP, in wq.  hdlc_process_greybus_frame allocates the    *)
(* message; a frame that finds no memory is dropped.                       *)

Msg    == gb_message_alloc(heap, 1)
Filled == heap \cup Msg
Entry  == map[Head(inbox).cport]

GreybusTypes == SvcReplies \cup ControlReplies \cup Responses \cup {"UNSUPPORTED", "DATA"}

frame_dropped ==
  /\ Take(GreybusTypes)
  /\ Msg = NoMessage
  /\ inbox' = Tail(inbox)
  /\ dropped' = dropped \cup {Head(inbox).id}
  /\ UNCHANGED <<heap, counter, ready, map, node, wq, th, flag, suspended, ap, ops, unrouted,
                 bounds, fault>>

(* The message reaches the interface that the AP cport is connected to;    *)
(* connection_send calls it without a test (see NoNullCall).               *)
Deliver(intf, types) ==
  /\ Take(types)
  /\ Msg # NoMessage
  /\ Entry.node_intf = intf

(* What the AP knows once its request f has been answered with ok.         *)
ApLearns(f, ok) ==
  LET conn == IF ok /\ f.type = "CONN_CREATE" THEN [ap.conn EXCEPT ![f.c] = f.to]
              ELSE IF ok /\ f.type = "CONN_DESTROY" THEN [ap.conn EXCEPT ![f.c] = Unconnected]
              ELSE ap.conn
  IN [ap EXCEPT !.conn = IF f \in ap.wait THEN conn ELSE @, !.wait = @ \ {f}]

(* svc_response_helper and response_helper of the local node, for request  *)
(* f, when the heap is h and the table m, and the end of the handler: the  *)
(* response is allocated, sent to where the interface id is connected and  *)
(* freed, then the request b is freed.                                     *)
response_helper(f, h, b, m, id, ok) ==
  LET r == gb_message_alloc(h, 1) IN
  \/ /\ CopiesToNull(r, HasPayload(f.type))
     /\ fault' = "null_copy"
     /\ UNCHANGED <<heap, ap, dropped>>
  \/ /\ r = NoMessage /\ ~HasPayload(f.type)
     /\ heap' = gb_message_dealloc(h, b)
     /\ dropped' = dropped \cup {f.id}
     /\ UNCHANGED <<ap, fault>>
  \/ /\ r # NoMessage
     /\ heap' = gb_message_dealloc(send_to_ap(h \cup r, m, id, 0, r), b)
     /\ ap' = IF node_to_ap_cport(m, id, 0) = f.cport THEN ApLearns(f, ok) ELSE ap
     /\ UNCHANGED <<dropped, fault>>

(* gb_handle_msg, the requests that are answered with a constant.          *)
svc_request ==
  /\ Deliver(SVC_INTF, SvcReplies \ {"CONN_CREATE", "CONN_DESTROY"})
  /\ Entry.node_cport = 0
  /\ response_helper(Head(inbox), Filled, Msg, map, SVC_INF_ID, TRUE)
  /\ inbox' = Tail(inbox)
  /\ UNCHANGED <<counter, ready, map, node, wq, th, flag, suspended, ops, unrouted, bounds>>

(* CONN_CREATE.  Refused: a loop or two interfaces other than the AP, an   *)
(* interface that is not there, an AP cport in use.  The first connection  *)
(* to a node waits for its socket.                                         *)
Refused(to) == to = Unconnected \/ gb_interface_find_by_id(to.id) = NULL
NeedsSocket(to) == to.id \in NodeIds /\ node[to.id] = "listed"

(* A faulty rest of connection_create, which answers success always.       *)
connect_answers_success(f, h, b, intf, ok) ==
  LET added == ok /\ node_ap_may_add(map, f.c)
      m == IF added THEN node_ap_add(map, f.c, f.to.cport, intf, f.to.id) ELSE map
  IN /\ map' = m
     /\ response_helper(f, h, b, m, SVC_INF_ID, TRUE)

(* The rest of connection_create, and the answer.                          *)
Connect(f, h, b, intf, ok) ==
  LET added == ok /\ node_ap_may_add(map, f.c)
      m == IF added THEN node_ap_add(map, f.c, f.to.cport, intf, f.to.id) ELSE map
  IN /\ map' = m
     /\ response_helper(f, h, b, m, SVC_INF_ID, added)

svc_connection_create ==
  LET f == Head(inbox) IN
  /\ Deliver(SVC_INTF, {"CONN_CREATE"})
  /\ Entry.node_cport = 0
  /\ inbox' = Tail(inbox)
  /\ \/ /\ ~Refused(f.to) /\ NeedsSocket(f.to)
        /\ heap' = Filled
        /\ wq' = [pc |-> "connect", msg |-> Msg, frame |-> f]
        /\ UNCHANGED <<map, ap, dropped, fault>>
     \/ /\ Refused(f.to) \/ ~NeedsSocket(f.to)
        /\ Connect(f, Filled, Msg, gb_interface_find_by_id(f.to.id), ~Refused(f.to))
        /\ UNCHANGED wq
  /\ UNCHANGED <<counter, ready, node, th, flag, suspended, ops, unrouted, bounds>>

(* The connect returns, with a socket or not.  The interface must still be *)
(* there.                                                                  *)
node_connect_returns ==
  LET i == wq.frame.to.id
      done(ok) ==
        /\ node[i] # "none"
        /\ node' = IF ok THEN [node EXCEPT ![i] = "linked"] ELSE node
        /\ Connect(wq.frame, heap, wq.msg, i, ok)
        /\ wq' = [pc |-> "idle", msg |-> NoMessage, frame |-> NoFrame]
        /\ UNCHANGED <<counter, ready, th, flag, suspended, inbox, ops, unrouted, bounds>>
  IN /\ fault = "none"
     /\ wq.pc = "connect"
     /\ \/ \E ok \in BOOLEAN : done(ok)
        \/ node[i] = "none" /\ Dies("stale_interface")

(* A faulty CONN_DESTROY, silent once the SVC's own connection is gone.    *)
svc_connection_destroy_silent ==
  LET f == Head(inbox)
      m == node_ap_remove(map, f.c)
  IN /\ Deliver(SVC_INTF, {"CONN_DESTROY"})
     /\ Entry.node_cport = 0
     /\ ready' = (ready /\ f.to # SvcTarget)
     /\ map' = m
     /\ \/ f.to # SvcTarget /\ response_helper(f, Filled, Msg, m, SVC_INF_ID, TRUE)
        \/ f.to = SvcTarget /\ UNCHANGED <<heap, ap, dropped, fault>>
     /\ inbox' = Tail(inbox)
     /\ UNCHANGED <<counter, node, wq, th, flag, suspended, ops, unrouted, bounds>>

(* CONN_DESTROY.  That of its own connection makes the SVC uninitialized,  *)
(* and is still answered.                                                  *)
svc_connection_destroy ==
  LET f == Head(inbox)
      m == node_ap_remove(map, f.c)
  IN /\ Deliver(SVC_INTF, {"CONN_DESTROY"})
     /\ Entry.node_cport = 0
     /\ ready' = (ready /\ f.to # SvcTarget)
     /\ map' = m
     /\ response_helper(f, Filled, Msg, m, SVC_INF_ID, TRUE)
     /\ inbox' = Tail(inbox)
     /\ UNCHANGED <<counter, node, wq, th, flag, suspended, ops, unrouted, bounds>>

(* Responses to the SVC's requests: that to the version leads to the hello *)
(* request, the others to a line in the log.                               *)
svc_response ==
  LET hello == Head(inbox).type = "VERSION_RESPONSE" IN
  /\ Deliver(SVC_INTF, Responses \cup {"UNSUPPORTED"})
  /\ Entry.node_cport = 0
  /\ \/ /\ ~hello
        /\ heap' = gb_message_dealloc(Filled, Msg)
        /\ inbox' = Tail(inbox)
        /\ UNCHANGED <<counter, ready, map, node, wq, th, flag, suspended, ap, ops, dropped,
                       unrouted, bounds, fault>>
     \/ /\ hello
        /\ gb_message_alloc(Filled, 1) # NoMessage
        /\ control_send_request("SVC_HELLO", Filled, Msg)
        /\ inbox' = Tail(inbox)
        /\ UNCHANGED <<ready, map, node, wq, th, flag, suspended, ap, dropped, unrouted,
                       bounds, fault>>
     \/ /\ hello
        /\ CopiesToNull(gb_message_alloc(Filled, 1), TRUE)
        /\ Dies("null_copy")

(* svc_inf_write for a cport other than 0 returns without freeing.         *)
svc_unknown_cport ==
  /\ Deliver(SVC_INTF, GreybusTypes)
  /\ Entry.node_cport # 0
  /\ heap' = Filled
  /\ unrouted' = unrouted + 1
  /\ inbox' = Tail(inbox)
  /\ UNCHANGED <<counter, ready, map, node, wq, th, flag, suspended, ap, ops, dropped, bounds,
                 fault>>

(* The local node: intf_write, control_protocol_handle.                    *)
local_node_write ==
  LET f == Head(inbox) IN
  /\ Deliver(LOCAL_INTF, GreybusTypes)
  /\ \/ /\ f.type \in ControlReplies
        /\ response_helper(f, Filled, Msg, map, LOCAL_NODE_ID, TRUE)
     \/ /\ f.type \notin ControlReplies
        /\ heap' = gb_message_dealloc(Filled, Msg)
        /\ UNCHANGED <<ap, dropped, fault>>
  /\ inbox' = Tail(inbox)
  /\ UNCHANGED <<counter, ready, map, node, wq, th, flag, suspended, ops, unrouted, bounds>>

(* node_inf_write: wq waits in gb_message_send.                            *)
node_inf_write ==
  /\ \E i \in NodeIds : Deliver(i, GreybusTypes)
  /\ \/ /\ node[Entry.node_intf] = "linked"
        /\ heap' = Filled
        /\ wq' = [pc |-> "write", msg |-> Msg, frame |-> Head(inbox)]
        /\ inbox' = Tail(inbox)
        /\ UNCHANGED <<counter, ready, map, node, th, flag, suspended, ap, ops, dropped,
                       unrouted, bounds, fault>>
     \/ /\ node[Entry.node_intf] # "linked"
        /\ Dies("stale_interface")

(* The write ends well; or it fails, a removal is sent and the interface   *)
(* is used once more after it was destroyed (see NodeBridge).              *)
node_write_returns ==
  /\ fault = "none"
  /\ wq.pc = "write"
  /\ \/ /\ heap' = gb_message_dealloc(heap, wq.msg)
        /\ wq' = [pc |-> "idle", msg |-> NoMessage, frame |-> NoFrame]
        /\ UNCHANGED <<counter, ready, map, node, th, flag, suspended, inbox, ap, ops, dropped,
                       unrouted, bounds, fault>>
     \/ Dies(IF CopiesToNull(gb_message_alloc(heap, 1), TRUE) THEN "null_copy"
             ELSE "stale_interface")

-----------------------------------------------------------------------------
(* rx and disc.  th[t].op is the position in ops of the request that t     *)
(* makes; a step of t ends where wq may slip in with effect.               *)
Runs(t, pc) ==
  /\ fault = "none"
  /\ th[t].pc = pc
  /\ t = "disc" => ~suspended

rest == <<ready, map, wq, suspended, inbox, ap, dropped, arrivals, starts, asks>>

(* node_filter finds a new node: node_create_interface allocates the       *)
(* control data and the interface ...                                      *)
node_filter ==
  LET i == INTERFACE_ID_START + arrivals IN
  /\ Runs("disc", "idle")
  /\ arrivals < MaxArrivals
  /\ arrivals' = arrivals + 1
  /\ node' = [node EXCEPT ![i] = "allocated"]
  /\ th' = [th EXCEPT !["disc"].pc = "cache", !["disc"].node = i]
  /\ UNCHANGED <<heap, counter, ready, map, wq, flag, suspended, inbox, ap, ops, dropped,
                 unrouted, starts, asks, fault>>

(* ... and node_cache_add lists it.                                        *)
node_cache_add ==
  /\ Runs("disc", "cache")
  /\ node' = [node EXCEPT ![th["disc"].node] = "listed"]
  /\ th' = [th EXCEPT !["disc"].pc = "MODULE_INSERTED"]
  /\ UNCHANGED <<heap, counter, flag, ops, unrouted, fault, rest>>

(* gb_message_receive in rx: a header has been read and a message of the   *)
(* size that it announces is allocated; without one the node is removed.   *)
(* A node that hangs up is removed as well, and so is one whose cport or   *)
(* header cannot be read, which sets flag (the peer closed) or clears it   *)
(* (another error).                                                        *)
gb_message_receive(i) ==
  /\ Runs("rx", "idle")
  /\ node[i] = "linked"
  /\ \/ \E n \in 1..HeapBlocks :
          /\ gb_message_alloc(heap, n) # NoMessage
          /\ heap' = heap \cup gb_message_alloc(heap, n)
          /\ th' = [th EXCEPT !["rx"].pc = "payload", !["rx"].node = i,
                              !["rx"].msg = gb_message_alloc(heap, n)]
          /\ UNCHANGED flag
     \/ /\ th' = [th EXCEPT !["rx"].pc = "MODULE_REMOVED", !["rx"].node = i]
        /\ flag' \in BOOLEAN
        /\ UNCHANGED heap
  /\ UNCHANGED <<counter, node, ops, unrouted, fault, rest>>

(* The payload is complete, the peer has closed or the read failed.  While *)
(* flag is set a complete message is forgotten and the node removed.       *)
rx_payload_complete ==
  LET lost == unrouted + Cardinality(th["rx"].msg) IN
  /\ Runs("rx", "payload")
  /\ \/ /\ flag
        /\ th' = [th EXCEPT !["rx"].pc = "MODULE_REMOVED", !["rx"].msg = NoMessage]
        /\ unrouted' = lost
        /\ UNCHANGED heap
     \/ /\ ~flag
        /\ th' = [th EXCEPT !["rx"] = Resting]
        /\ heap' = send_to_ap(heap, map, th["rx"].node, 0, th["rx"].msg)
        /\ unrouted' = IF Routed(map, th["rx"].node, 0) THEN unrouted ELSE lost
  /\ UNCHANGED <<counter, node, flag, ops, fault, rest>>

(* A read that fails: free_msg, and the node is removed.                   *)
rx_payload_cut ==
  /\ Runs("rx", "payload")
  /\ flag' \in BOOLEAN
  /\ heap' = gb_message_dealloc(heap, th["rx"].msg)
  /\ th' = [th EXCEPT !["rx"].pc = "MODULE_REMOVED", !["rx"].msg = NoMessage]
  /\ UNCHANGED <<counter, node, ops, unrouted, fault, rest>>

(* control_send_request in a thread that wq may preempt.  new_operation_id *)
(* increments the counter ...                                              *)
new_operation_id(t) ==
  /\ \E type \in {"MODULE_INSERTED", "MODULE_REMOVED"} :
       Runs(t, type) /\ ops' = Append(ops, Op(type, th[t].node, "drawn"))
  /\ counter' = counter + 1
  /\ th' = [th EXCEPT ![t].op = Len(ops) + 1,
                      ![t].pc = IF must_reset(counter) THEN "reset" ELSE "alloc"]
  /\ UNCHANGED <<heap, node, flag, unrouted, fault, rest>>

(* ... and resets it in a step of its own;                                 *)
operation_id_reset(t) ==
  /\ Runs(t, "reset")
  /\ counter' = OPERATION_ID_START
  /\ th' = [th EXCEPT ![t].pc = "alloc"]
  /\ UNCHANGED <<heap, node, flag, ops, unrouted, fault, rest>>

(* the message is allocated and filled;                                    *)
gb_message_request_alloc(t) ==
  LET m == gb_message_alloc(heap, 1) IN
  /\ Runs(t, "alloc")
  /\ \/ /\ m # NoMessage
        /\ heap' = heap \cup m
        /\ th' = [th EXCEPT ![t].pc = "send", ![t].msg = m]
        /\ UNCHANGED <<counter, node, flag, ops, unrouted, fault, rest>>
     \/ /\ CopiesToNull(m, TRUE)
        /\ Dies("null_copy")

(* it is sent and freed, by ap_send;                                       *)
module_request_sent(t) ==
  /\ Runs(t, "send")
  /\ heap' = send_to_ap(heap, map, SVC_INF_ID, 0, th[t].msg)
  /\ ops' = [ops EXCEPT ![th[t].op].st = "sent"]
  /\ th' = [th EXCEPT ![t].pc = "sent"]
  /\ UNCHANGED <<counter, node, flag, unrouted, fault, rest>>

(* the operation id is read from the message that has been freed, and      *)
(* after a removal the interface is destroyed.                             *)
module_request_returns(t) ==
  LET removal == ops[th[t].op].type = "MODULE_REMOVED" IN
  /\ Runs(t, "sent")
  /\ \/ /\ removal => node[th[t].node] # "none"
        /\ node' = IF removal THEN [node EXCEPT ![th[t].node] = "none"] ELSE node
        /\ th' = [th EXCEPT ![t] = Resting]
        /\ UNCHANGED <<heap, counter, flag, ops, unrouted, fault, rest>>
     \/ /\ removal /\ node[th[t].node] = "none"
        /\ Dies("stale_interface")

-----------------------------------------------------------------------------
(* The AP.  It starts the SVC, answers its requests, and once it has seen  *)
(* hello uses it.  It stops it, or restarts without having stopped it.     *)
firmware == <<heap, counter, ready, map, node, wq, th, flag, suspended, unrouted, dropped,
              fault>>

Post(f) ==
  /\ fault = "none"
  /\ Len(inbox) < MaxInbox
  /\ inbox' = Append(inbox, f)

NewSession(session) ==
  /\ ap' = [session |-> session, fresh |-> ap.session = "down", conn |-> [c \in ApCports |-> Unconnected], wait |-> {}]
  /\ ops' = [o \in DOMAIN ops |-> IF ops[o].st = "sent" THEN [ops[o] EXCEPT !.st = "stale"]
                                  ELSE ops[o]]

(* A START without a STOP before it is a restart of the host.              *)
ap_start ==
  /\ starts < MaxStarts
  /\ starts' = starts + 1
  /\ Post(Command("START"))
  /\ NewSession("start")
  /\ UNCHANGED <<arrivals, asks, firmware>>

ap_stop ==
  /\ ap.session # "down"
  /\ Post(Command("STOP"))
  /\ NewSession("down")
  /\ UNCHANGED <<bounds, firmware>>

(* A request with operation id 0 is one that expects no answer.            *)
ap_answers(o) ==
  /\ ap.session \in {"start", "up"}
  /\ ops[o].st = "sent" /\ ops[o].id # 0
  /\ Post(Frame(Response[ops[o].type], 0, 0, 0, Unconnected))
  /\ ops' = [ops EXCEPT ![o].st = "answered"]
  /\ ap' = [ap EXCEPT !.session = IF @ = "start" /\ ops[o].type = "SVC_HELLO" THEN "up" ELSE @]
  /\ UNCHANGED <<bounds, firmware>>

Busy(c) == \E f \in ap.wait : c \in {f.c, f.cport}

Ask(f, answered) ==
  /\ ap.session = "up"
  /\ asks < MaxAsks
  /\ asks' = asks + 1
  /\ Post(f)
  /\ ap' = [ap EXCEPT !.wait = IF answered THEN @ \cup {f} ELSE @,
                      !.session = IF f.to = SvcTarget THEN "closing" ELSE @]
  /\ UNCHANGED <<ops, arrivals, starts, firmware>>

ap_asks(ty) ==
  \/ /\ ty \in (SvcReplies \cup {"UNSUPPORTED"}) \ {"CONN_CREATE", "CONN_DESTROY"}
     /\ Ask(Frame(ty, 0, asks + 1, 0, Unconnected), ty # "UNSUPPORTED")
  \/ /\ ty = "CONN_CREATE"
     /\ \E c \in ApCports \ {0}, to \in Targets \cup {Unconnected} :
          /\ \A d \in ApCports : ~Busy(d) \/ d = 0
          /\ \A d \in ApCports : to # Unconnected => ap.conn[d] # to
          /\ ap.conn[c] = Unconnected
          /\ to.id \in NodeIds => \E o \in DOMAIN ops :
               ops[o].type = "MODULE_INSERTED" /\ ops[o].node = to.id /\ ops[o].st = "answered"
          /\ Ask(Frame(ty, 0, asks + 1, c, to), TRUE)
  \/ /\ ty = "CONN_DESTROY"
     /\ \/ \E c \in ApCports \ {0} :
             /\ ap.conn[c] # Unconnected /\ ~Busy(c)
             /\ Ask(Frame(ty, 0, asks + 1, c, ap.conn[c]), TRUE)
        \/ /\ ap.wait = {}
           /\ Ask(Frame(ty, 0, asks + 1, 0, SvcTarget), TRUE)
  \/ /\ ty \in ControlReplies \cup {"DATA"}
     /\ \E c \in ApCports \ {0} :
          /\ ap.conn[c] # Unconnected /\ ~Busy(c)
          /\ ty \in ControlReplies => ap.conn[c].id = LOCAL_NODE_ID
          /\ Ask(Frame(ty, c, asks + 1, 0, Unconnected), ty # "DATA")

WqStep ==
  \/ control_svc_start \/ control_svc_stop
  \/ frame_dropped
  \/ svc_request \/ svc_connection_create \/ svc_connection_destroy \/ svc_response
  \/ svc_unknown_cport \/ local_node_write \/ node_inf_write

NodeReturns == node_connect_returns \/ node_write_returns

RequestStep(t) ==
  \/ new_operation_id(t) \/ operation_id_reset(t)
  \/ gb_message_request_alloc(t) \/ module_request_sent(t) \/ module_request_returns(t)

Next ==
  \/ WqStep \/ NodeReturns
  \/ node_filter \/ node_cache_add
  \/ \E i \in NodeIds : gb_message_receive(i)
  \/ rx_payload_complete \/ rx_payload_cut
  \/ \E t \in DOMAIN th : RequestStep(t)
  \/ ap_start \/ ap_stop
  \/ \E o \in DOMAIN ops : ap_answers(o)
  \/ \E ty \in Types : ap_asks(ty)

Spec == Init /\ [][Next]_vars

(* The scheduler runs what can run; TCP gives up on a node that does not   *)
(* answer; the host answers the requests of the SVC.                       *)
FairSpec ==
  /\ Spec
  /\ WF_vars(WqStep)
  /\ WF_vars(NodeReturns)
  /\ WF_vars(\E o \in DOMAIN ops : ap_answers(o))

-----------------------------------------------------------------------------
Frames == [type : GreybusTypes \cup {"START", "STOP", "none"}, cport : ApCports, id : 0..MaxAsks,
           c : ApCports, to : Targets \cup {Unconnected, SvcTarget}]

(* Type correctness.                                                       *)
TypeOK ==
  /\ heap \subseteq Blocks
  /\ counter \in Nat
  /\ ready \in BOOLEAN
  /\ map \in [ApCports -> [node_intf : {NULL, SVC_INTF, LOCAL_INTF} \cup NodeIds,
                           node_cport : {0, 1}, 
                           node_id : {SVC_INF_ID, LOCAL_NODE_ID} \cup NodeIds]]
  /\ node \in [NodeIds -> {"none", "allocated", "listed", "linked"}]
  /\ wq \in [pc : {"idle", "connect", "write"}, msg : SUBSET Blocks, frame : Frames]
  /\ th \in [{"rx", "disc"} -> [pc : {"idle", "cache", "payload", "MODULE_INSERTED",
                                    "MODULE_REMOVED", "reset", "alloc", "send", "sent"},
                              msg : SUBSET Blocks, node : NodeIds \cup {0}, op : 0..Len(ops)]]
  /\ {flag, suspended} \subseteq BOOLEAN
  /\ inbox \in Seq(Frames) /\ Len(inbox) <= MaxInbox
  /\ ap \in [session : {"down", "start", "up", "closing"}, fresh : BOOLEAN,
             conn : [ApCports -> Targets \cup {Unconnected, SvcTarget}], wait : SUBSET Frames]
  /\ ops \in Seq([type : DOMAIN Response, node : NodeIds \cup {0}, id : 0..UINT16_MAX, raced : BOOLEAN,
                  st : {"drawn", "sent", "stale", "answered"}])
  /\ dropped \subseteq 0..MaxAsks
  /\ unrouted \in 0..HeapBlocks
  /\ arrivals \in 0..MaxArrivals /\ starts \in 0..MaxStarts /\ asks \in 0..MaxAsks
  /\ fault \in {"none", "null_copy", "stale_interface", "assertion"}

(* What a thread may use: not the message that it has sent.                *)
Held(t) == IF th[t].pc = "sent" THEN NoMessage ELSE th[t].msg
Orphans == heap \ (wq.msg \cup Held("rx") \cup Held("disc"))

(* Every message belongs to one thread from its allocation until it is     *)
(* sent or freed: no block of it is free or another's meanwhile, and the   *)
(* blocks that nobody holds any more are exactly those of the messages     *)
(* that connection_send could not deliver (or that rx forgot because flag  *)
(* was set).                                                               *)
Ownership ==
  /\ wq.msg \cup Held("rx") \cup Held("disc") \subseteq heap
  /\ wq.msg \cap (Held("rx") \cup Held("disc")) = {}
  /\ Held("rx") \cap Held("disc") = {}
  /\ Cardinality(Orphans) = unrouted

(* The ownership of a message is transferred with the send: nobody uses it *)
(* afterwards.                                                             *)
OwnershipTransferred == \A t \in DOMAIN th : th[t].msg \subseteq heap

(* Four blocks are enough for the three threads together: the heap fails   *)
(* nobody, neither by a copy to address 0 nor by a frame or an answer that *)
(* is dropped, unless a message was lost before or rx is receiving one of  *)
(* a node that is longer than any of the host.                             *)
LongMessage == Cardinality(th["rx"].msg) > 1
HeapSuffices ==
  [][HeapBlocks >= 4 /\ (dropped' # dropped \/ (fault' # fault /\ fault' = "null_copy"))
       => Orphans # {} \/ LongMessage]_vars

(* A request or an answer that finds no memory is given up: NULL is        *)
(* returned, nothing is written to it.                                     *)
NullInCaseOfError == fault # "null_copy"

(* Requests in flight have ids of their own, and not the id of requests    *)
(* without answer: any two drawn within a cycle of the counter differ,     *)
(* except those drawn while another thread was preempted between the       *)
(* increment and the reset of new_operation_id.                            *)
IdsDistinct ==
  \A i \in DOMAIN ops : ~ops[i].raced =>
    /\ ops[i].id # 0
    /\ \A j \in (i + 1)..Len(ops) :
         j < i + UINT16_MAX /\ ~ops[j].raced => ops[j].id # ops[i].id

(* What the answers of the SVC tell the AP about its connections is what   *)
(* node_ap_map says, whatever was refused, in a session that began with a  *)
(* stopped SVC.  The host may answer a hello that was sent for an answer   *)
(* of its last session before the STOP of that session is handled: the     *)
(* table is still the old one then.                                        *)
ApKnowsTable ==
  fault = "none" /\ ap.session = "up" /\ ap.fresh
    /\ (\A k \in DOMAIN inbox : inbox[k].type # "STOP") =>
    \A c \in ApCports \ {0} : ~Busy(c) =>
      IF ap.conn[c] = Unconnected THEN map[c].node_intf = NULL
      ELSE map[c].node_id = ap.conn[c].id /\ map[c].node_cport = ap.conn[c].cport

(* connection_send never calls through a NULL pointer: whatever the host   *)
(* started, stopped, connected, destroyed or left behind, a frame that wq  *)
(* takes is for an AP cport that is connected.                             *)
NoNullCall ==
  fault = "none" /\ inbox # <<>> /\ wq.pc = "idle" /\ Head(inbox).type \in GreybusTypes =>
    map[Head(inbox).cport].node_intf # NULL

(* After a STOP that did not fail the assertion of node_destroy_all the    *)
(* firmware is as it was at power-up, so that the next START can connect   *)
(* cport 0 again.                                                          *)
StoppedIsClean ==
  fault = "none" /\ ap.session = "down" /\ inbox = <<>> /\ wq.pc = "idle" =>
    /\ ~ready /\ suspended
    /\ \A i \in NodeIds : node[i] = "none"
    /\ \A c \in ApCports : map[c] = NoConnection

(* Every supported request is answered at the cport it was sent on, that   *)
(* to destroy the SVC's own connection included, unless there was no       *)
(* memory for it or its answer, or the session ended.                      *)
Answered ==
  \A i \in 1..MaxAsks : (\E f \in ap.wait : f.id = i) ~>
    ((\A f \in ap.wait : f.id # i) \/ i \in dropped \/ fault # "none")

(* START of a stopped SVC leads through version and hello to a session, if *)
(* the host answers; a version request that drew id 0 cannot be answered.  *)
Handshake ==
  (ap.session = "start" /\ ap.fresh) ~>
    \/ ap.session # "start" \/ ~ap.fresh \/ fault # "none" \/ dropped # {}
    \/ \E o \in DOMAIN ops : ops[o].raced

=============================================================================
