------------------------- MODULE SvcMessages_proofs -------------------------
(***************************************************************************)
(* The types of the SVC, who owns a message, what the heap suffices for,   *)
(* and which operation ids the SVC draws: proofs for every size of the     *)
(* heap and of the ids, any number of AP cports, requests, STARTs and      *)
(* arrivals and a queue of any length.                                     *)
(***************************************************************************)
EXTENDS Svc, Lookup_proofs, SequenceTheorems

-----------------------------------------------------------------------------
(* Types, by component.                                                    *)

Entries  == [node_intf : {NULL, SVC_INTF, LOCAL_INTF} \cup NodeIds, node_cport : {0, 1},
             node_id : {SVC_INF_ID, LOCAL_NODE_ID} \cup NodeIds]
Requests == [type : DOMAIN Response, node : NodeIds \cup {0}, id : 0..UINT16_MAX,
             raced : BOOLEAN, st : {"drawn", "sent", "stale", "answered"}]
Works    == [pc : {"idle", "connect", "write"}, msg : SUBSET Blocks, frame : Frames]
ThreadPc == {"idle", "cache", "payload", "MODULE_INSERTED", "MODULE_REMOVED", "reset", "alloc",
             "send", "sent"}
Threads  == [pc : ThreadPc, msg : SUBSET Blocks, node : NodeIds \cup {0}, op : Nat]
Hosts    == [session : {"down", "start", "up", "closing"}, fresh : BOOLEAN,
             conn : [ApCports -> Targets \cup {Unconnected, SvcTarget}], wait : SUBSET Frames]

HeapType  == heap \subseteq Blocks /\ unrouted \in Nat /\ dropped \subseteq 0..MaxAsks
OpsType   == counter \in Nat /\ ops \in Seq(Requests)
FlagType  == ready \in BOOLEAN /\ flag \in BOOLEAN /\ suspended \in BOOLEAN
Faults    == {"null_copy", "stale_interface", "assertion"}
FaultType == fault \in {"none"} \cup Faults
TableType == map \in [ApCports -> Entries]
NodeType  == node \in [NodeIds -> {"none", "allocated", "listed", "linked"}]
InboxType == inbox \in Seq(Frames) /\ Len(inbox) <= MaxInbox
HostType  == ap \in Hosts
CountType == arrivals \in 0..MaxArrivals /\ starts \in 0..MaxStarts /\ asks \in 0..MaxAsks

(* A connection that wq waits for is one to a node, from an AP cport other *)
(* than 0.                                                                 *)
WqType ==
  /\ wq \in Works
  /\ wq.pc = "connect" => wq.frame.to.id \in NodeIds

(* The request that a thread makes is in ops.                              *)
ThType ==
  /\ th \in [{"rx", "disc"} -> Threads]
  /\ \A t \in {"rx", "disc"} : th[t].op <= Len(ops)
  /\ \A t \in {"rx", "disc"} : th[t].pc \in {"reset", "alloc", "send", "sent"} => th[t].op \in 1..Len(ops)

TypeInv ==
  /\ HeapType /\ OpsType /\ FlagType /\ FaultType /\ TableType /\ NodeType
  /\ InboxType /\ HostType /\ CountType /\ WqType /\ ThType

-----------------------------------------------------------------------------
(* Lemmas about the operators.                                             *)

(* The heap has finitely many blocks.                                      *)
LEMMA HeapFinite == IsFiniteSet(Blocks) /\ Cardinality(Blocks) = HeapBlocks
  BY MessagesAssumption, FS_Interval DEF Blocks

(* A message has finitely many blocks.                                     *)
LEMMA MessageFinite ==
  ASSUME NEW m \in SUBSET Blocks
  PROVE  IsFiniteSet(m) /\ Cardinality(m) \in Nat
<1>1. IsFiniteSet(m)
  BY HeapFinite, FS_Subset
<1> QED BY <1>1, FS_CardinalityType

(* gb_message_alloc returns free blocks, or none.                          *)
LEMMA AllocType ==
  ASSUME NEW h \in SUBSET Blocks, NEW n
  PROVE  gb_message_alloc(h, n) \in SUBSET (Blocks \ h)
<1>1. CASE Fits(h, n) = {}
  BY <1>1 DEF gb_message_alloc, NoMessage
<1>2. CASE Fits(h, n) # {}
  <2>1. (CHOOSE m \in Fits(h, n) : TRUE) \in Fits(h, n)
    BY <1>2
  <2>2. gb_message_alloc(h, n) \in Fits(h, n)
    BY <1>2, <2>1 DEF gb_message_alloc
  <2> QED BY <2>2 DEF Fits
<1> QED BY <1>1, <1>2

(* The messages of one block that are free in heap h.                      *)
Short(h) == {{b} : b \in Blocks \ h}

(* A message of one block finds one, unless there is none.                 *)
LEMMA AllocShort ==
  ASSUME NEW h \in SUBSET Blocks
  PROVE  /\ gb_message_alloc(h, 1) # NoMessage => gb_message_alloc(h, 1) \in Short(h)
         /\ gb_message_alloc(h, 1) = NoMessage => Blocks \subseteq h
<1>1. \A b \in Blocks : b..(b + 1 - 1) = {b}
  BY DEF Blocks
<1>2. Spans(Blocks, 1) = {{b} : b \in Blocks}
  BY <1>1 DEF Spans
<1>3. Fits(h, 1) = Short(h)
  BY <1>2 DEF Fits, Short
<1>4. CASE Short(h) = {}
  <2>1. Blocks \subseteq h
    BY <1>4 DEF Short
  <2>2. gb_message_alloc(h, 1) = NoMessage
    BY <1>3, <1>4 DEF gb_message_alloc
  <2> QED BY <2>1, <2>2
<1>5. CASE Short(h) # {}
  <2>1. (CHOOSE m \in Short(h) : TRUE) \in Short(h)
    BY <1>5
  <2>2. gb_message_alloc(h, 1) \in Short(h)
    BY <1>3, <1>5, <2>1 DEF gb_message_alloc
  <2>3. NoMessage \notin Short(h)
    BY DEF Short, NoMessage
  <2> QED BY <2>2, <2>3
<1> QED BY <1>4, <1>5

(* The low half of the counter is an operation id, and the counter itself  *)
(* while it has not overflowed.                                            *)
LEMMA OperationId ==
  ASSUME NEW c \in Nat
  PROVE  /\ operation_id(c) \in 0..UINT16_MAX
         /\ c <= UINT16_MAX => operation_id(c) = c
<1>1. UINT16_MAX + 1 \in Nat /\ UINT16_MAX + 1 > 0 /\ UINT16_MAX \in Nat
  BY MessagesAssumption
<1>2. \A m \in Nat : m > 0 => c % m \in 0..(m - 1) /\ (c < m => c % m = c)
  OBVIOUS
<1> QED BY <1>1, <1>2 DEF operation_id

(* There is a cport 0.                                                     *)
LEMMA ApCportZero == 0 \in ApCports /\ ApCports \subseteq Nat
  BY SvcAssumption DEF ApCports

(* Constants that are used as initial values have their types.             *)
LEMMA Constants ==
  /\ NoFrame \in Frames
  /\ \A ty \in GreybusTypes \cup {"START", "STOP", "none"} : Command(ty) \in Frames
  /\ NoConnection \in Entries
  /\ Resting \in Threads
  /\ NoMessage \in SUBSET Blocks
  /\ NodeIds \subseteq Nat
<1>1. \A ty \in GreybusTypes \cup {"START", "STOP", "none"} : Command(ty) \in Frames
  BY ApCportZero, SvcAssumption DEF Command, Frame, Frames, Unconnected
<1>2. NoFrame \in Frames
  BY <1>1 DEF NoFrame
<1>3. NoMessage \in SUBSET Blocks
  BY DEF NoMessage
<1>4. NoConnection \in Entries
  BY DEF NoConnection, Entries
<1>5. Resting \in Threads
  BY <1>3 DEF Resting, Threads, ThreadPc
<1>6. NodeIds \subseteq Nat
  BY SvcAssumption DEF NodeIds, INTERFACE_ID_START
<1> QED BY <1>1, <1>2, <1>3, <1>4, <1>5, <1>6

(* The types at power-up.                                                  *)
LEMMA TypeInit == Init => TypeInv
<1> SUFFICES ASSUME Init PROVE TypeInv
  OBVIOUS
<1>1. HeapType /\ OpsType /\ FlagType /\ FaultType
  <2>1. HeapType /\ FaultType
    BY DEF Init, HeapType, FaultType
  <2>2. OpsType
    BY EmptySeq DEF Init, OpsType, OPERATION_ID_START
  <2>3. FlagType
    BY Zenon DEF Init, FlagType
  <2> QED BY <2>1, <2>2, <2>3
<1>2. TableType /\ NodeType
  BY Constants DEF Init, TableType, NodeType
<1>3. InboxType /\ CountType
  BY SvcAssumption DEF Init, InboxType, CountType
<1>4. HostType
  BY DEF Init, HostType, Hosts
<1>5. WqType
  BY Constants DEF Init, WqType, Works
<1>6. ThType
  BY Constants DEF Init, ThType, Resting
<1> QED BY <1>1, <1>2, <1>3, <1>4, <1>5, <1>6 DEF TypeInv

-----------------------------------------------------------------------------
(* Type correctness of the steps.                                          *)

(* The frame that wq takes, and what it leaves.                            *)
LEMMA TakeType ==
  ASSUME TypeInv, inbox # <<>>
  PROVE  /\ Head(inbox) \in Frames
         /\ Tail(inbox) \in Seq(Frames)
         /\ Len(Tail(inbox)) = Len(inbox) - 1
         /\ inbox' = Tail(inbox) => InboxType'
<1>1. inbox \in Seq(Frames) /\ Len(inbox) <= MaxInbox /\ MaxInbox \in Nat
  BY SvcAssumption DEF TypeInv, InboxType
<1>2. Head(inbox) \in Frames /\ Tail(inbox) \in Seq(Frames) /\ Len(Tail(inbox)) = Len(inbox) - 1
  BY <1>1, HeadTailProperties
<1>3. Len(inbox) \in Nat
  BY <1>1, LenProperties
<1> QED BY <1>1, <1>2, <1>3 DEF InboxType

(* A frame that the AP posts.                                              *)
LEMMA PostType ==
  ASSUME TypeInv, NEW f \in Frames, Post(f)
  PROVE  InboxType' /\ Len(inbox') = Len(inbox) + 1
<1>1. inbox \in Seq(Frames) /\ Len(inbox) < MaxInbox /\ MaxInbox \in Nat /\ inbox' = Append(inbox, f)
  BY SvcAssumption DEF TypeInv, InboxType, Post
<1>2. inbox' \in Seq(Frames) /\ Len(inbox') = Len(inbox) + 1
  BY <1>1, AppendProperties
<1>3. Len(inbox) \in Nat
  BY <1>1, LenProperties
<1> QED BY <1>1, <1>2, <1>3 DEF InboxType

(* The host that has its answer.                                           *)
LEMMA LearnsType ==
  ASSUME TypeInv, NEW f \in Frames, NEW ok \in BOOLEAN
  PROVE  ApLearns(f, ok) \in Hosts
<1> DEFINE Conns == [ApCports -> Targets \cup {Unconnected, SvcTarget}]
           created == [ap.conn EXCEPT ![f.c] = f.to]
           destroyed == [ap.conn EXCEPT ![f.c] = Unconnected]
           conn == IF ok /\ f.type = "CONN_CREATE" THEN created
                   ELSE IF ok /\ f.type = "CONN_DESTROY" THEN destroyed
                   ELSE ap.conn
           known == IF f \in ap.wait THEN conn ELSE ap.conn
<1>1. ap.conn \in Conns /\ ap.wait \in SUBSET Frames /\ ap \in Hosts
  BY Zenon DEF TypeInv, HostType, Hosts
<1>2. created \in Conns /\ destroyed \in Conns
  BY <1>1, Zenon DEF Frames
<1>3. known \in Conns
  BY <1>1, <1>2, Zenon
<1>4. ap.wait \ {f} \in SUBSET Frames
  BY <1>1
<1> HIDE DEF known
<1>5. [ap EXCEPT !.conn = known, !.wait = ap.wait \ {f}] \in Hosts
  BY <1>1, <1>3, <1>4, Zenon DEF Hosts
<1> QED BY <1>5, Zenon DEF ApLearns, known

(* An answer of the SVC or of the local node.                              *)
LEMMA ResponseType ==
  ASSUME TypeInv, NEW f \in Frames, NEW h \in SUBSET Blocks, NEW b, NEW m, NEW id, NEW ok \in BOOLEAN,
         response_helper(f, h, b, m, id, ok), unrouted' = unrouted
  PROVE  HeapType' /\ HostType' /\ FaultType'
<1>1. f.id \in 0..MaxAsks
  BY DEF Frames
<1>2. ap' = ap \/ ap' = ApLearns(f, ok)
  BY DEF response_helper
<1>3. HostType'
  BY <1>2, LearnsType, Zenon DEF TypeInv, HostType
<1>4. FaultType'
  BY DEF response_helper, TypeInv, FaultType, Faults
<1>5. heap' \subseteq Blocks
  BY AllocType DEF response_helper, TypeInv, HeapType, gb_message_dealloc, send_to_ap, ap_send
<1>6. dropped' \subseteq 0..MaxAsks
  BY <1>1 DEF response_helper, TypeInv, HeapType
<1> QED BY <1>3, <1>4, <1>5, <1>6 DEF TypeInv, HeapType

(* A request that wq makes.                                                *)
LEMMA RequestType ==
  ASSUME TypeInv, NEW type \in DOMAIN Response, NEW h \in SUBSET Blocks, NEW held,
         gb_message_alloc(h, 1) # NoMessage,
         control_send_request(type, h, held), th' = th
  PROVE  heap' \subseteq Blocks /\ OpsType' /\ ThType' /\ Len(ops') = Len(ops) + 1
<1>1. heap' \subseteq Blocks
  BY AllocType DEF control_send_request, gb_message_dealloc, send_to_ap, ap_send
<1>2. counter \in Nat /\ ops \in Seq(Requests)
  BY DEF TypeInv, OpsType
<1>3. Resetting \in BOOLEAN
  BY DEF Resetting
<1>4. Op(type, 0, "sent") \in Requests
  BY <1>2, <1>3, OperationId, Zenon DEF Op, Requests
<1>5. ops' \in Seq(Requests) /\ Len(ops') = Len(ops) + 1
  BY <1>2, <1>4, AppendProperties DEF control_send_request
<1>6. counter' \in Nat
  BY <1>2 DEF control_send_request, counter_after, OPERATION_ID_START
<1>7. Len(ops) \in Nat
  BY <1>2, LenProperties
<1>8. ThType'
  BY <1>5, <1>7 DEF TypeInv, ThType, Threads
<1> QED BY <1>1, <1>5, <1>6, <1>8 DEF OpsType

(* The rest of connection_create: the entry that is added has its type.    *)
LEMMA ConnectType ==
  ASSUME TypeInv, NEW f \in Frames, NEW h \in SUBSET Blocks, NEW b, NEW intf, NEW ok \in BOOLEAN,
         Connect(f, h, b, intf, ok), unrouted' = unrouted,
         ok => /\ f.to # Unconnected
               /\ intf \in {NULL, SVC_INTF, LOCAL_INTF} \cup NodeIds
  PROVE  HeapType' /\ HostType' /\ FaultType' /\ TableType'
<1> DEFINE added == ok /\ node_ap_may_add(map, f.c)
           m == IF added THEN node_ap_add(map, f.c, f.to.cport, intf, f.to.id) ELSE map
<1>1. map' = m /\ response_helper(f, h, b, m, SVC_INF_ID, added)
  BY Zenon DEF Connect
<1>2. added \in BOOLEAN
  OBVIOUS
<1>3. HeapType' /\ HostType' /\ FaultType'
  <2> HIDE DEF added, m
  <2> QED BY <1>1, <1>2, ResponseType, Zenon
<1>4. ok => f.to.id \in {SVC_INF_ID, LOCAL_NODE_ID} \cup NodeIds /\ f.to.cport \in {0, 1}
  <2>1. f.to \in Targets \cup {Unconnected, SvcTarget}
    BY DEF Frames
  <2> QED BY <2>1 DEF Targets, SvcTarget
<1>5. map \in [ApCports -> Entries] /\ f.c \in ApCports
  BY DEF TypeInv, TableType, Frames
<1>6. ok => [node_intf |-> intf, node_cport |-> f.to.cport, node_id |-> f.to.id] \in Entries
  BY <1>4 DEF Entries
<1>7. m \in [ApCports -> Entries]
  BY <1>5, <1>6 DEF node_ap_add
<1> QED BY <1>1, <1>3, <1>7 DEF TableType

(* An interface that is found has an id.                                   *)
LEMMA FoundType ==
  ASSUME NEW id
  PROVE  gb_interface_find_by_id(id) \in {NULL, SVC_INTF, LOCAL_INTF} \cup NodeIds
<1>1. CASE id = SVC_INF_ID
  BY <1>1 DEF gb_interface_find_by_id
<1>2. CASE id = LOCAL_NODE_ID
  BY <1>2 DEF gb_interface_find_by_id, SVC_INF_ID, LOCAL_NODE_ID
<1>3. CASE id # SVC_INF_ID /\ id # LOCAL_NODE_ID
  BY <1>3 DEF gb_interface_find_by_id
<1> QED BY <1>1, <1>2, <1>3

(* A fault changes nothing else.                                           *)
LEMMA DiesKeepsType ==
  ASSUME TypeInv, NEW why \in Faults, Dies(why)
  PROVE  TypeInv'
<1>1. FaultType'
  BY DEF Dies, FaultType, Faults
<1>2. /\ HeapType' /\ OpsType' /\ FlagType' /\ TableType' /\ NodeType'
      /\ InboxType' /\ HostType' /\ CountType' /\ WqType' /\ ThType'
  BY Zenon DEF Dies, bounds, TypeInv, HeapType, OpsType, FlagType, TableType, NodeType, InboxType,
               HostType, CountType, WqType, ThType
<1> QED BY <1>1, <1>2 DEF TypeInv

(* What a step leaves alone keeps its type.                                *)
LEMMA SameType ==
  ASSUME TypeInv
  PROVE  /\ UNCHANGED <<heap, unrouted, dropped>> => HeapType'
         /\ UNCHANGED <<counter, ops>> => OpsType'
         /\ UNCHANGED <<ready, flag, suspended>> => FlagType'
         /\ UNCHANGED fault => FaultType'
         /\ UNCHANGED map => TableType'
         /\ UNCHANGED node => NodeType'
         /\ UNCHANGED inbox => InboxType'
         /\ UNCHANGED ap => HostType'
         /\ UNCHANGED <<arrivals, starts, asks>> => CountType'
         /\ UNCHANGED wq => WqType'
         /\ UNCHANGED <<th, ops>> => ThType'
  BY Zenon DEF TypeInv, HeapType, OpsType, FlagType, FaultType, TableType, NodeType, InboxType,
               HostType, CountType, WqType, ThType

(* START.                                                                  *)
LEMMA StartKeepsType ==
  ASSUME TypeInv, control_svc_start
  PROVE  TypeInv'
<1>1. inbox # <<>>
  BY DEF control_svc_start, Take
<1>2. CASE ~node_ap_may_add(map, 0)
  <2>1. inbox' = Tail(inbox) /\ ready' = TRUE
        /\ UNCHANGED <<heap, counter, map, node, wq, th, flag, suspended, ap, ops,
                       dropped, unrouted, arrivals, starts, asks, fault>>
    BY <1>2, Zenon DEF control_svc_start, bounds
  <2>2. InboxType'
    BY <1>1, <2>1, TakeType
  <2>3. FlagType'
    BY <2>1, Zenon DEF TypeInv, FlagType
  <2> QED BY <2>1, <2>2, <2>3, SameType, Zenon DEF TypeInv
<1>3. CASE node_ap_may_add(map, 0) /\ gb_message_alloc(heap, 1) # NoMessage
  <2>1. /\ inbox' = Tail(inbox) /\ ready' = TRUE /\ suspended' = FALSE
        /\ map' = node_ap_add(map, 0, 0, SVC_INTF, SVC_INF_ID)
        /\ control_send_request("PROTOCOL_VERSION", heap, NoMessage)
        /\ UNCHANGED <<node, wq, th, flag, ap, dropped, unrouted, arrivals, starts, asks, fault>>
    BY <1>3, Zenon DEF control_svc_start, bounds, CopiesToNull
  <2>2. InboxType'
    BY <1>1, <2>1, TakeType
  <2>3. FlagType'
    BY <2>1, Zenon DEF TypeInv, FlagType
  <2>4. TableType'
    <3>1. [node_intf |-> SVC_INTF, node_cport |-> 0, node_id |-> SVC_INF_ID] \in Entries
      BY DEF Entries
    <3> QED BY <2>1, <3>1, ApCportZero DEF TypeInv, TableType, node_ap_add
  <2>5. "PROTOCOL_VERSION" \in DOMAIN Response /\ heap \in SUBSET Blocks
    BY DEF Response, TypeInv, HeapType
  <2>6. heap' \subseteq Blocks /\ OpsType' /\ ThType'
    BY <1>3, <2>1, <2>5, RequestType
  <2>7. HeapType'
    BY <2>1, <2>6 DEF TypeInv, HeapType
  <2> QED BY <2>1, <2>2, <2>3, <2>4, <2>6, <2>7, SameType, Zenon DEF TypeInv
<1>4. CASE node_ap_may_add(map, 0) /\ gb_message_alloc(heap, 1) = NoMessage
  <2>1. Dies("null_copy")
    BY <1>4, Zenon DEF control_svc_start
  <2> QED BY <2>1, DiesKeepsType DEF Faults
<1> QED BY <1>2, <1>3, <1>4

(* STOP.                                                                   *)
LEMMA StopKeepsType ==
  ASSUME TypeInv, control_svc_stop
  PROVE  TypeInv'
<1>1. CASE Dies("assertion")
  BY <1>1, DiesKeepsType DEF Faults
<1>2. CASE ~Dies("assertion")
  <2>1. /\ inbox # <<>> /\ inbox' = Tail(inbox) /\ suspended' = TRUE /\ ready' = FALSE
        /\ node' = [i \in NodeIds |-> "none"] /\ map' = [c \in ApCports |-> NoConnection]
        /\ UNCHANGED <<heap, counter, wq, th, flag, ap, ops, dropped, unrouted, arrivals, starts, asks, fault>>
    BY <1>2, Zenon DEF control_svc_stop, Take, bounds
  <2>2. InboxType'
    BY <2>1, TakeType
  <2>3. TableType' /\ NodeType'
    BY <2>1, Constants DEF TableType, NodeType
  <2>4. FlagType'
    BY <2>1, Zenon DEF FlagType, TypeInv
  <2> QED BY <2>1, <2>2, <2>3, <2>4, SameType, Zenon DEF TypeInv
<1> QED BY <1>1, <1>2

(* A frame of the AP for which a message was allocated.                    *)
LEMMA DeliverType ==
  ASSUME TypeInv, NEW intf, NEW types, Deliver(intf, types)
  PROVE  /\ inbox # <<>> /\ Head(inbox) \in Frames /\ Head(inbox).type \in types
         /\ fault = "none" /\ wq.pc = "idle"
         /\ Msg \in Short(heap) /\ Msg \in SUBSET Blocks /\ Filled \in SUBSET Blocks
         /\ Head(inbox).cport \in ApCports /\ Entry \in Entries /\ Entry.node_intf = intf
<1>1. inbox # <<>> /\ fault = "none" /\ wq.pc = "idle" /\ Head(inbox).type \in types
      /\ Entry.node_intf = intf /\ Msg # NoMessage
  BY DEF Deliver, Take
<1>2. heap \in SUBSET Blocks
  BY DEF TypeInv, HeapType
<1>3. Msg \in Short(heap) /\ Msg \in SUBSET Blocks
  BY <1>1, <1>2, AllocShort DEF Msg, Short
<1>4. Head(inbox) \in Frames
  BY <1>1, TakeType
<1>5. Head(inbox).cport \in ApCports
  BY <1>4 DEF Frames
<1>6. Entry \in Entries
  BY <1>5 DEF TypeInv, TableType, Entry
<1> QED BY <1>1, <1>2, <1>3, <1>4, <1>5, <1>6 DEF Filled

(* A frame that finds no block.                                            *)
LEMMA DroppedKeepsType ==
  ASSUME TypeInv, frame_dropped
  PROVE  TypeInv'
<1>1. inbox # <<>> /\ inbox' = Tail(inbox)
  BY DEF frame_dropped, Take
<1>2. Head(inbox) \in Frames /\ InboxType'
  BY <1>1, TakeType
<1>3. Head(inbox).id \in 0..MaxAsks
  BY <1>2 DEF Frames
<1>4. HeapType'
  BY <1>3 DEF frame_dropped, TypeInv, HeapType
<1>5. UNCHANGED <<counter, ready, map, node, wq, th, flag, suspended, ap, ops, arrivals, starts, asks, fault>>
  BY DEF frame_dropped, bounds
<1> QED BY <1>2, <1>4, <1>5, SameType, Zenon DEF TypeInv

(* The requests that are answered with a constant, and CONN_DESTROY.       *)
LEMMA SvcRequestKeepsType ==
  ASSUME TypeInv, svc_request
  PROVE  TypeInv'
<1>1. Deliver(SVC_INTF, SvcReplies \ {"CONN_CREATE", "CONN_DESTROY"})
  BY DEF svc_request
<1>2. inbox # <<>> /\ Head(inbox) \in Frames /\ Filled \in SUBSET Blocks
  BY <1>1, DeliverType, Zenon
<1>3. /\ response_helper(Head(inbox), Filled, Msg, map, SVC_INF_ID, TRUE)
      /\ inbox' = Tail(inbox)
      /\ UNCHANGED <<counter, ready, map, node, wq, th, flag, suspended, ops, unrouted, arrivals,
                     starts, asks>>
  BY DEF svc_request, bounds
<1>4. HeapType' /\ HostType' /\ FaultType'
  BY <1>2, <1>3, ResponseType, Zenon
<1>5. InboxType'
  BY <1>2, <1>3, TakeType
<1> QED BY <1>3, <1>4, <1>5, SameType, Zenon DEF TypeInv

(* CONN_DESTROY keeps the types.                                           *)
LEMMA DestroyKeepsType ==
  ASSUME TypeInv, svc_connection_destroy
  PROVE  TypeInv'
<1> DEFINE m == node_ap_remove(map, Head(inbox).c)
<1>1. Deliver(SVC_INTF, {"CONN_DESTROY"})
  BY DEF svc_connection_destroy
<1>2. inbox # <<>> /\ Head(inbox) \in Frames /\ Filled \in SUBSET Blocks
  BY <1>1, DeliverType, Zenon
<1>3. /\ response_helper(Head(inbox), Filled, Msg, m, SVC_INF_ID, TRUE)
      /\ inbox' = Tail(inbox) /\ map' = m /\ ready' = (ready /\ Head(inbox).to # SvcTarget)
      /\ UNCHANGED <<counter, node, wq, th, flag, suspended, ops, unrouted, arrivals, starts, asks>>
  BY DEF svc_connection_destroy, bounds
<1>4. HeapType' /\ HostType' /\ FaultType'
  BY <1>2, <1>3, ResponseType, Zenon
<1>5. InboxType'
  BY <1>2, <1>3, TakeType
<1>6. TableType'
  BY <1>2, <1>3, Constants DEF TypeInv, TableType, node_ap_remove, Frames
<1>7. FlagType'
  BY <1>3, Zenon DEF TypeInv, FlagType
<1> QED BY <1>3, <1>4, <1>5, <1>6, <1>7, SameType, Zenon DEF TypeInv

(* CONN_CREATE, up to the wait for the node or to its answer.              *)
LEMMA CreateKeepsType ==
  ASSUME TypeInv, svc_connection_create
  PROVE  TypeInv'
<1> DEFINE f == Head(inbox)
<1>1. Deliver(SVC_INTF, {"CONN_CREATE"})
  BY DEF svc_connection_create
<1>2. inbox # <<>> /\ f \in Frames /\ Filled \in SUBSET Blocks /\ Msg \in SUBSET Blocks
  BY <1>1, DeliverType, Zenon
<1>3. /\ inbox' = Tail(inbox)
      /\ UNCHANGED <<counter, ready, node, th, flag, suspended, ops, unrouted, arrivals, starts, asks>>
  BY DEF svc_connection_create, bounds
<1>4. InboxType'
  BY <1>2, <1>3, TakeType
<1>5. CASE ~Refused(f.to) /\ NeedsSocket(f.to)
  <2>1. /\ heap' = Filled /\ wq' = [pc |-> "connect", msg |-> Msg, frame |-> f]
        /\ UNCHANGED <<map, ap, dropped, fault>>
    BY <1>5, Zenon DEF svc_connection_create
  <2>2. HeapType'
    BY <1>2, <1>3, <2>1 DEF TypeInv, HeapType
  <2>3. WqType'
    BY <1>2, <1>5, <2>1 DEF WqType, Works, NeedsSocket
  <2> QED BY <1>3, <1>4, <2>1, <2>2, <2>3, SameType, Zenon DEF TypeInv
<1>6. CASE Refused(f.to) \/ ~NeedsSocket(f.to)
  <2>1. /\ Connect(f, Filled, Msg, gb_interface_find_by_id(f.to.id), ~Refused(f.to))
        /\ wq' = wq
    BY <1>6, Zenon DEF svc_connection_create
  <2>2. ~Refused(f.to) => f.to # Unconnected
    BY DEF Refused
  <2>3. (~Refused(f.to)) \in BOOLEAN
    BY DEF Refused
  <2>4. HeapType' /\ HostType' /\ FaultType' /\ TableType'
    <3>1. unrouted' = unrouted
      BY <1>3
    <3>2. gb_interface_find_by_id(f.to.id) \in {NULL, SVC_INTF, LOCAL_INTF} \cup NodeIds
      BY FoundType
    <3> HIDE DEF f
    <3> QED BY <1>2, <2>1, <2>2, <2>3, <3>1, <3>2, ConnectType, Zenon
  <2> QED BY <1>3, <1>4, <2>1, <2>4, SameType, Zenon DEF TypeInv
<1> QED BY <1>5, <1>6

(* The connect to a node returns.                                          *)
LEMMA ReturnsKeepsType ==
  ASSUME TypeInv, node_connect_returns
  PROVE  TypeInv'
<1> DEFINE i == wq.frame.to.id
<1>1. wq.pc = "connect" /\ wq.frame \in Frames /\ i \in NodeIds
  BY DEF node_connect_returns, TypeInv, WqType, Works
<1>2. CASE node[i] = "none" /\ Dies("stale_interface")
  BY <1>2, DiesKeepsType DEF Faults
<1>3. CASE ~(node[i] = "none" /\ Dies("stale_interface"))
  <2>1. PICK ok \in BOOLEAN :
          /\ node[i] # "none"
          /\ node' = IF ok THEN [node EXCEPT ![i] = "linked"] ELSE node
          /\ Connect(wq.frame, heap, wq.msg, i, ok)
          /\ wq' = [pc |-> "idle", msg |-> NoMessage, frame |-> NoFrame]
          /\ UNCHANGED <<counter, ready, th, flag, suspended, inbox, ops, unrouted, arrivals, starts, asks>>
    BY <1>3, Zenon DEF node_connect_returns, bounds
  <2>2. wq.frame.to # Unconnected
    BY <1>1, Constants DEF Unconnected
  <2>3. HeapType' /\ HostType' /\ FaultType' /\ TableType'
    <3>1. heap \in SUBSET Blocks
      BY DEF TypeInv, HeapType
    <3>2. unrouted' = unrouted
      BY <2>1
    <3>3. i \in {NULL, SVC_INTF, LOCAL_INTF} \cup NodeIds
      BY <1>1
    <3> QED BY <1>1, <2>1, <2>2, <3>1, <3>2, <3>3, ConnectType, Zenon
  <2>4. NodeType'
    BY <1>1, <2>1 DEF TypeInv, NodeType
  <2>5. WqType'
    BY <2>1, Constants DEF WqType, Works
  <2> QED BY <2>1, <2>3, <2>4, <2>5, SameType, Zenon DEF TypeInv
<1> QED BY <1>2, <1>3

(* Responses of the AP.                                                    *)
LEMMA SvcResponseKeepsType ==
  ASSUME TypeInv, svc_response
  PROVE  TypeInv'
<1> DEFINE hello == Head(inbox).type = "VERSION_RESPONSE"
<1>1. Deliver(SVC_INTF, Responses \cup {"UNSUPPORTED"})
  BY DEF svc_response
<1>2. inbox # <<>> /\ Filled \in SUBSET Blocks /\ heap \in SUBSET Blocks
  BY <1>1, DeliverType, Zenon DEF TypeInv, HeapType
<1>3. CASE ~hello
  <2>1. /\ heap' = gb_message_dealloc(Filled, Msg) /\ inbox' = Tail(inbox)
        /\ UNCHANGED <<counter, ready, map, node, wq, th, flag, suspended, ap, ops, dropped,
                       unrouted, arrivals, starts, asks, fault>>
    BY <1>3, Zenon DEF svc_response, bounds
  <2>2. HeapType'
    BY <1>2, <2>1 DEF TypeInv, HeapType, gb_message_dealloc
  <2>3. InboxType'
    BY <1>2, <2>1, TakeType
  <2> QED BY <2>1, <2>2, <2>3, SameType, Zenon DEF TypeInv
<1>4. CASE hello /\ gb_message_alloc(Filled, 1) # NoMessage
  <2>1. /\ control_send_request("SVC_HELLO", Filled, Msg) /\ inbox' = Tail(inbox)
        /\ UNCHANGED <<ready, map, node, wq, th, flag, suspended, ap, dropped, unrouted,
                       arrivals, starts, asks, fault>>
    BY <1>4, Zenon DEF svc_response, bounds, CopiesToNull
  <2>2. "SVC_HELLO" \in DOMAIN Response
    BY DEF Response
  <2>3. heap' \subseteq Blocks /\ OpsType' /\ ThType'
    BY <1>2, <1>4, <2>1, <2>2, RequestType
  <2>4. HeapType'
    BY <2>1, <2>3 DEF TypeInv, HeapType
  <2>5. InboxType'
    BY <1>2, <2>1, TakeType
  <2> QED BY <2>1, <2>3, <2>4, <2>5, SameType, Zenon DEF TypeInv
<1>5. CASE hello /\ gb_message_alloc(Filled, 1) = NoMessage
  <2>1. Dies("null_copy")
    BY <1>5, Zenon DEF svc_response
  <2> QED BY <2>1, DiesKeepsType DEF Faults
<1> QED BY <1>3, <1>4, <1>5

(* A cport that the SVC does not have.                                     *)
LEMMA UnknownKeepsType ==
  ASSUME TypeInv, svc_unknown_cport
  PROVE  TypeInv'
<1>1. inbox # <<>> /\ Filled \in SUBSET Blocks
  BY DeliverType, Zenon DEF svc_unknown_cport
<1>2. HeapType'
  BY <1>1 DEF svc_unknown_cport, TypeInv, HeapType
<1>3. InboxType'
  BY <1>1, TakeType DEF svc_unknown_cport
<1>4. UNCHANGED <<counter, ready, map, node, wq, th, flag, suspended, ap, ops, arrivals, starts, asks, fault>>
  BY DEF svc_unknown_cport, bounds
<1> QED BY <1>2, <1>3, <1>4, SameType, Zenon DEF TypeInv

(* The local node.                                                         *)
LEMMA LocalKeepsType ==
  ASSUME TypeInv, local_node_write
  PROVE  TypeInv'
<1> DEFINE f == Head(inbox)
<1>1. inbox # <<>> /\ Filled \in SUBSET Blocks /\ f \in Frames
  BY DeliverType, Zenon DEF local_node_write
<1>2. /\ inbox' = Tail(inbox)
      /\ UNCHANGED <<counter, ready, map, node, wq, th, flag, suspended, ops, unrouted, arrivals, starts, asks>>
  BY DEF local_node_write, bounds
<1>3. InboxType'
  BY <1>1, <1>2, TakeType
<1>4. HeapType' /\ HostType' /\ FaultType'
  <2>1. CASE response_helper(f, Filled, Msg, map, LOCAL_NODE_ID, TRUE)
    BY <1>1, <1>2, <2>1, ResponseType, Zenon
  <2>2. CASE heap' = gb_message_dealloc(Filled, Msg) /\ UNCHANGED <<ap, dropped, fault>>
    <3>1. HeapType'
      BY <1>1, <1>2, <2>2 DEF TypeInv, HeapType, gb_message_dealloc
    <3> QED BY <2>2, <3>1, SameType, Zenon
  <2> QED BY <2>1, <2>2, Zenon DEF local_node_write
<1> QED BY <1>2, <1>3, <1>4, SameType, Zenon DEF TypeInv

(* A message for a node, and the end of its write.                         *)
LEMMA WriteKeepsType ==
  ASSUME TypeInv, node_inf_write
  PROVE  TypeInv'
<1>1. PICK i \in NodeIds : Deliver(i, GreybusTypes)
  BY DEF node_inf_write
<1>2. inbox # <<>> /\ Filled \in SUBSET Blocks /\ Head(inbox) \in Frames /\ Msg \in SUBSET Blocks
  BY <1>1, DeliverType, Zenon
<1>3. CASE node[Entry.node_intf] = "linked"
  <2>1. /\ heap' = Filled
        /\ wq' = [pc |-> "write", msg |-> Msg, frame |-> Head(inbox)]
        /\ inbox' = Tail(inbox)
        /\ UNCHANGED <<counter, ready, map, node, th, flag, suspended, ap, ops, dropped,
                       unrouted, arrivals, starts, asks, fault>>
    BY <1>3, Zenon DEF node_inf_write, bounds
  <2>2. HeapType'
    BY <1>2, <2>1 DEF TypeInv, HeapType
  <2>3. InboxType'
    BY <1>2, <2>1, TakeType
  <2>4. WqType'
    BY <1>2, <2>1 DEF WqType, Works
  <2> QED BY <2>1, <2>2, <2>3, <2>4, SameType, Zenon DEF TypeInv
<1>4. CASE node[Entry.node_intf] # "linked"
  <2>1. Dies("stale_interface")
    BY <1>4, Zenon DEF node_inf_write
  <2> QED BY <2>1, DiesKeepsType DEF Faults
<1> QED BY <1>3, <1>4

(* The return of a write keeps the types.                                  *)
LEMMA WrittenKeepsType ==
  ASSUME TypeInv, node_write_returns
  PROVE  TypeInv'
<1>1. CASE \E why \in Faults : Dies(why)
  BY <1>1, DiesKeepsType DEF Faults
<1>2. CASE ~\E why \in Faults : Dies(why)
  <2>1. /\ heap' = gb_message_dealloc(heap, wq.msg)
        /\ wq' = [pc |-> "idle", msg |-> NoMessage, frame |-> NoFrame]
        /\ UNCHANGED <<counter, ready, map, node, th, flag, suspended, inbox, ap, ops, dropped,
                       unrouted, arrivals, starts, asks, fault>>
    BY <1>2, Zenon DEF node_write_returns, bounds, Faults
  <2>2. HeapType'
    BY <2>1 DEF TypeInv, HeapType, gb_message_dealloc
  <2>3. WqType'
    BY <2>1, Constants DEF WqType, Works
  <2> QED BY <2>1, <2>2, <2>3, SameType, Zenon DEF TypeInv
<1> QED BY <1>1, <1>2

(* A step of thread t: its own record is what matters.                     *)
LEMMA ThreadType ==
  ASSUME TypeInv, NEW t \in {"rx", "disc"}, th' \in [{"rx", "disc"} -> Threads],
         \A u \in {"rx", "disc"} : u # t => th'[u] = th[u],
         ops' \in Seq(Requests), Len(ops') >= Len(ops), th'[t].op <= Len(ops'),
         th'[t].pc \in {"reset", "alloc", "send", "sent"} => th'[t].op >= 1
  PROVE  ThType'
<1>1. th \in [{"rx", "disc"} -> Threads]
  BY DEF TypeInv, ThType
<1>2. Len(ops) \in Nat /\ Len(ops') \in Nat
  BY LenProperties DEF TypeInv, OpsType
<1>3. \A u \in {"rx", "disc"} : th[u].op \in Nat /\ th'[u].op \in Nat
  BY <1>1 DEF Threads
<1> QED BY <1>1, <1>2, <1>3 DEF TypeInv, ThType

(* What the threads are made of, at one place.                             *)
LEMMA ThreadFields ==
  ASSUME TypeInv, NEW t \in {"rx", "disc"}
  PROVE  /\ th \in [{"rx", "disc"} -> Threads] /\ th[t] \in Threads
         /\ th[t].pc \in ThreadPc /\ th[t].msg \in SUBSET Blocks
         /\ th[t].node \in NodeIds \cup {0} /\ th[t].op \in Nat
         /\ th[t].op <= Len(ops) /\ Len(ops) \in Nat /\ ops \in Seq(Requests)
         /\ th[t].pc \in {"reset", "alloc", "send", "sent"} => th[t].op \in 1..Len(ops)
<1>1. ops \in Seq(Requests) /\ Len(ops) \in Nat
  BY LenProperties DEF TypeInv, OpsType
<1> QED BY <1>1 DEF TypeInv, ThType, Threads

(* Discovery finds a node.                                                 *)
LEMMA FilterKeepsType ==
  ASSUME TypeInv, node_filter
  PROVE  TypeInv'
<1> DEFINE i == INTERFACE_ID_START + arrivals
<1>1. i \in NodeIds /\ arrivals + 1 \in 0..MaxArrivals
  BY SvcAssumption DEF node_filter, TypeInv, CountType, NodeIds, INTERFACE_ID_START
<1>2. /\ arrivals' = arrivals + 1
      /\ node' = [node EXCEPT ![i] = "allocated"]
      /\ th' = [th EXCEPT !["disc"].pc = "cache", !["disc"].node = i]
      /\ UNCHANGED <<heap, counter, ready, map, wq, flag, suspended, inbox, ap, ops, dropped,
                     unrouted, starts, asks, fault>>
  BY DEF node_filter
<1>3. CountType' /\ NodeType'
  BY <1>1, <1>2 DEF TypeInv, CountType, NodeType
<1> HIDE DEF i
<1>4. /\ th' \in [{"rx", "disc"} -> Threads]
      /\ th'["rx"] = th["rx"]
      /\ th'["disc"].op = th["disc"].op /\ th'["disc"].pc = "cache"
  <2>1. th \in [{"rx", "disc"} -> Threads]
    BY ThreadFields
  <2> QED BY <1>1, <1>2, <2>1 DEF Threads, ThreadPc
<1>5. ThType'
  BY <1>2, <1>4, ThreadFields, ThreadType
<1> QED BY <1>2, <1>3, <1>5, SameType, Zenon DEF TypeInv

(* Discovery lists it.                                                     *)
LEMMA CacheKeepsType ==
  ASSUME TypeInv, node_cache_add
  PROVE  TypeInv'
<1>1. /\ node' = [node EXCEPT ![th["disc"].node] = "listed"]
      /\ th' = [th EXCEPT !["disc"].pc = "MODULE_INSERTED"]
      /\ UNCHANGED <<heap, counter, flag, ops, unrouted, fault, ready, map, wq, suspended, inbox, ap, dropped,
                     arrivals, starts, asks>>
  BY DEF node_cache_add, rest
<1>2. NodeType'
  BY <1>1 DEF TypeInv, NodeType
<1>3. /\ th' \in [{"rx", "disc"} -> Threads]
      /\ th'["rx"] = th["rx"]
      /\ th'["disc"].op = th["disc"].op /\ th'["disc"].pc = "MODULE_INSERTED"
  <2>1. th \in [{"rx", "disc"} -> Threads]
    BY ThreadFields
  <2> QED BY <1>1, <2>1 DEF Threads, ThreadPc
<1>4. ThType'
  BY <1>1, <1>3, ThreadFields, ThreadType
<1> QED BY <1>1, <1>2, <1>4, SameType, Zenon DEF TypeInv

(* rx.                                                                     *)
LEMMA ReceiveKeepsType ==
  ASSUME TypeInv, NEW i \in NodeIds, gb_message_receive(i)
  PROVE  TypeInv'
<1>1. UNCHANGED <<counter, node, ops, unrouted, fault, ready, map, wq, suspended, inbox, ap, dropped,
                 arrivals, starts, asks>>
  BY DEF gb_message_receive, rest
<1>2. th \in [{"rx", "disc"} -> Threads] /\ heap \in SUBSET Blocks
  BY ThreadFields DEF TypeInv, HeapType
<1>3. ASSUME NEW n \in 1..HeapBlocks, NEW b, b = gb_message_alloc(heap, n),
             heap' = heap \cup b,
             th' = [th EXCEPT !["rx"].pc = "payload", !["rx"].node = i, !["rx"].msg = b],
             UNCHANGED flag
      PROVE  TypeInv'
  <2>1. b \in SUBSET Blocks
    BY <1>2, <1>3, AllocType
  <2>2. HeapType'
    BY <1>1, <1>3, <2>1 DEF TypeInv, HeapType
  <2>3. /\ th' \in [{"rx", "disc"} -> Threads]
        /\ th'["disc"] = th["disc"]
        /\ th'["rx"].op = th["rx"].op /\ th'["rx"].pc = "payload"
    BY <1>2, <1>3, <2>1 DEF Threads, ThreadPc
  <2>4. ThType'
    BY <1>1, <2>3, ThreadFields, ThreadType
  <2> QED BY <1>1, <1>3, <2>2, <2>4, SameType, Zenon DEF TypeInv
<1>4. CASE /\ th' = [th EXCEPT !["rx"].pc = "MODULE_REMOVED", !["rx"].node = i]
           /\ flag' \in BOOLEAN
           /\ UNCHANGED heap
  <2>1. /\ th' \in [{"rx", "disc"} -> Threads]
        /\ th'["disc"] = th["disc"]
        /\ th'["rx"].op = th["rx"].op /\ th'["rx"].pc = "MODULE_REMOVED"
    BY <1>2, <1>4 DEF Threads, ThreadPc
  <2>2. ThType'
    BY <1>1, <2>1, ThreadFields, ThreadType
  <2>3. FlagType'
    BY <1>1, <1>4, Zenon DEF TypeInv, FlagType
  <2> QED BY <1>1, <1>4, <2>2, <2>3, SameType, Zenon DEF TypeInv
<1> QED BY <1>3, <1>4, Zenon DEF gb_message_receive

(* The end of a message that rx reads keeps the types.                     *)
LEMMA PayloadKeepsType ==
  ASSUME TypeInv, rx_payload_complete \/ rx_payload_cut
  PROVE  TypeInv'
<1>1. UNCHANGED <<counter, node, ops, fault, ready, map, wq, suspended, inbox, ap, dropped,
                 arrivals, starts, asks>>
  BY DEF rx_payload_complete, rx_payload_cut, rest
<1>2. th \in [{"rx", "disc"} -> Threads] /\ heap \in SUBSET Blocks /\ unrouted \in Nat
  BY ThreadFields DEF TypeInv, HeapType
<1>3. flag' \in BOOLEAN
  BY Zenon DEF rx_payload_complete, rx_payload_cut, TypeInv, FlagType
<1>4. FlagType'
  BY <1>1, <1>3, Zenon DEF TypeInv, FlagType
<1>5. HeapType'
  <2>1. Cardinality(th["rx"].msg) \in Nat
    BY ThreadFields, MessageFinite
  <2> QED BY <1>1, <1>2, <2>1 DEF TypeInv, HeapType, rx_payload_complete, rx_payload_cut, gb_message_dealloc, send_to_ap, ap_send
<1>6. \/ th' = [th EXCEPT !["rx"].pc = "MODULE_REMOVED", !["rx"].msg = NoMessage]
      \/ th' = [th EXCEPT !["rx"] = Resting]
  BY DEF rx_payload_complete, rx_payload_cut
<1>7. /\ th' \in [{"rx", "disc"} -> Threads]
      /\ th'["disc"] = th["disc"]
      /\ th'["rx"].op \in {0, th["rx"].op} /\ th'["rx"].pc \in {"idle", "MODULE_REMOVED"}
  <2>1. CASE th' = [th EXCEPT !["rx"].pc = "MODULE_REMOVED", !["rx"].msg = NoMessage]
    BY <1>2, <2>1, Constants DEF Threads, ThreadPc
  <2>2. CASE th' = [th EXCEPT !["rx"] = Resting]
    BY <1>2, <2>2, Constants DEF Resting
  <2> QED BY <1>6, <2>1, <2>2
<1>8. ThType'
  BY <1>1, <1>7, ThreadFields, ThreadType
<1> QED BY <1>1, <1>4, <1>5, <1>8, SameType, Zenon DEF TypeInv

(* A request that a thread makes.                                          *)
LEMMA DrawKeepsType ==
  ASSUME TypeInv, NEW t \in {"rx", "disc"}, new_operation_id(t)
  PROVE  TypeInv'
<1>1. /\ counter' = counter + 1
      /\ UNCHANGED <<heap, node, flag, unrouted, fault, ready, map, wq, suspended, inbox, ap, dropped,
                     arrivals, starts, asks>>
  BY DEF new_operation_id, rest
<1>2. th \in [{"rx", "disc"} -> Threads] /\ Len(ops) \in Nat /\ ops \in Seq(Requests) /\ counter \in Nat
      /\ th[t].node \in NodeIds \cup {0}
  BY ThreadFields DEF TypeInv, OpsType
<1>3. PICK type \in {"MODULE_INSERTED", "MODULE_REMOVED"} : ops' = Append(ops, Op(type, th[t].node, "drawn"))
  BY DEF new_operation_id
<1>4. Op(type, th[t].node, "drawn") \in Requests
  <2>1. Resetting \in BOOLEAN
    BY DEF Resetting
  <2>2. type \in DOMAIN Response
    BY DEF Response
  <2> QED BY <1>2, <2>1, <2>2, OperationId, Zenon DEF Op, Requests
<1>5. ops' \in Seq(Requests) /\ Len(ops') = Len(ops) + 1
  BY <1>2, <1>3, <1>4, AppendProperties
<1>6. PICK pc \in {"reset", "alloc"} : th' = [th EXCEPT ![t].op = Len(ops) + 1, ![t].pc = pc]
  BY DEF new_operation_id
<1>7. /\ th' \in [{"rx", "disc"} -> Threads]
      /\ \A u \in {"rx", "disc"} : u # t => th'[u] = th[u]
      /\ th'[t].op = Len(ops) + 1 /\ th'[t].pc = pc
  <2>1. PICK k \in Nat : k = Len(ops) + 1
    BY <1>2
  <2>2. th' = [th EXCEPT ![t].op = k, ![t].pc = pc]
    BY <1>6, <2>1
  <2>3. [th[t] EXCEPT !.op = k, !.pc = pc] \in Threads
    BY <1>2, Zenon DEF Threads, ThreadPc
  <2>4. th' = [th EXCEPT ![t] = [th[t] EXCEPT !.op = k, !.pc = pc]]
    BY <2>2, Zenon
  <2>5. th'[t] = [th[t] EXCEPT !.op = k, !.pc = pc] /\ th[t] \in Threads
    BY <1>2, <2>4
  <2>6. th'[t].op = k /\ th'[t].pc = pc
    BY <2>5 DEF Threads
  <2> QED BY <1>2, <2>1, <2>3, <2>4, <2>6
<1>8. ThType'
  BY <1>2, <1>5, <1>7, ThreadType
<1>9. OpsType'
  BY <1>1, <1>2, <1>5 DEF OpsType
<1> QED BY <1>1, <1>8, <1>9, SameType, Zenon DEF TypeInv

(* The reset of the counter keeps the types.                               *)
LEMMA ResetKeepsType ==
  ASSUME TypeInv, NEW t \in {"rx", "disc"}, operation_id_reset(t)
  PROVE  TypeInv'
<1>1. /\ counter' = OPERATION_ID_START
      /\ th' = [th EXCEPT ![t].pc = "alloc"] /\ th[t].pc = "reset"
      /\ UNCHANGED <<heap, node, flag, ops, unrouted, fault, ready, map, wq, suspended, inbox, ap, dropped,
                     arrivals, starts, asks>>
  BY DEF operation_id_reset, rest, Runs
<1>2. OpsType'
  BY <1>1 DEF TypeInv, OpsType, OPERATION_ID_START
<1>3. th \in [{"rx", "disc"} -> Threads]
  BY ThreadFields
<1>4. /\ th' \in [{"rx", "disc"} -> Threads]
      /\ \A u \in {"rx", "disc"} : u # t => th'[u] = th[u]
      /\ th'[t].op = th[t].op /\ th'[t].pc = "alloc"
  BY <1>1, <1>3 DEF Threads, ThreadPc
<1>5. th[t].op \in 1..Len(ops) /\ ops \in Seq(Requests) /\ Len(ops) \in Nat
  BY <1>1, ThreadFields
<1>6. ThType'
  BY <1>1, <1>4, <1>5, ThreadType
<1> QED BY <1>1, <1>2, <1>6, SameType, Zenon DEF TypeInv

(* The allocation of a request keeps the types.                            *)
LEMMA RequestAllocKeepsType ==
  ASSUME TypeInv, NEW t \in {"rx", "disc"}, gb_message_request_alloc(t)
  PROVE  TypeInv'
<1> DEFINE b == gb_message_alloc(heap, 1)
<1>1. CASE Dies("null_copy")
  BY <1>1, DiesKeepsType DEF Faults
<1>2. CASE ~Dies("null_copy")
  <2>1. /\ b # NoMessage /\ th[t].pc = "alloc"
        /\ heap' = heap \cup b
        /\ th' = [th EXCEPT ![t].pc = "send", ![t].msg = b]
        /\ UNCHANGED <<counter, node, flag, ops, unrouted, fault, ready, map, wq, suspended, inbox, ap,
                       dropped, arrivals, starts, asks>>
    BY <1>2, Zenon DEF gb_message_request_alloc, rest, Runs
  <2>2. heap \in SUBSET Blocks
    BY DEF TypeInv, HeapType
  <2>3. b \in SUBSET Blocks
    BY <2>2, AllocType
  <2>4. HeapType'
    BY <2>1, <2>3 DEF TypeInv, HeapType
  <2> HIDE DEF b
  <2>5. th \in [{"rx", "disc"} -> Threads] /\ th[t].op \in 1..Len(ops) /\ ops \in Seq(Requests) /\ Len(ops) \in Nat
    BY <2>1, ThreadFields
  <2>6. /\ th' \in [{"rx", "disc"} -> Threads]
        /\ \A u \in {"rx", "disc"} : u # t => th'[u] = th[u]
        /\ th'[t].op = th[t].op /\ th'[t].pc = "send"
    BY <2>1, <2>3, <2>5 DEF Threads, ThreadPc
  <2>7. ThType'
    BY <2>1, <2>5, <2>6, ThreadType
  <2> QED BY <2>1, <2>4, <2>7, SameType, Zenon DEF TypeInv
<1> QED BY <1>1, <1>2

(* A change of what became of a request keeps ops well-typed.              *)
LEMMA FateType ==
  ASSUME TypeInv, NEW q, q \in Seq(Requests), NEW o \in 1..Len(q),
         NEW st \in {"drawn", "sent", "stale", "answered"}
  PROVE  /\ [q EXCEPT ![o].st = st] \in Seq(Requests)
         /\ Len([q EXCEPT ![o].st = st]) = Len(q)
<1>1. q[o] \in Requests
  BY ElementOfSeq
<1>2. [q[o] EXCEPT !.st = st] \in Requests
  BY <1>1, Zenon DEF Requests
<1>3. /\ [q EXCEPT ![o] = [q[o] EXCEPT !.st = st]] \in Seq(Requests)
      /\ Len([q EXCEPT ![o] = [q[o] EXCEPT !.st = st]]) = Len(q)
  BY <1>2, ExceptSeq
<1> QED BY <1>3, Zenon

(* ... it is sent.                                                         *)
LEMMA SentKeepsType ==
  ASSUME TypeInv, NEW t \in {"rx", "disc"}, module_request_sent(t)
  PROVE  TypeInv'
<1> DEFINE o == th[t].op
<1>1. /\ th[t].pc = "send"
      /\ heap' = send_to_ap(heap, map, SVC_INF_ID, 0, th[t].msg)
      /\ ops' = [ops EXCEPT ![o].st = "sent"]
      /\ th' = [th EXCEPT ![t].pc = "sent"]
      /\ UNCHANGED <<counter, node, flag, unrouted, fault, ready, map, wq, suspended, inbox, ap,
                     dropped, arrivals, starts, asks>>
  BY DEF module_request_sent, rest, Runs
<1>2. th \in [{"rx", "disc"} -> Threads] /\ th[t].op \in 1..Len(ops) /\ ops \in Seq(Requests) /\ Len(ops) \in Nat
  BY <1>1, ThreadFields
<1>3. ops' \in Seq(Requests) /\ Len(ops') = Len(ops)
  BY <1>1, <1>2, FateType
<1>4. OpsType'
  BY <1>1, <1>3 DEF TypeInv, OpsType
<1>5. HeapType'
  BY <1>1 DEF TypeInv, HeapType, send_to_ap, ap_send, gb_message_dealloc
<1>6. /\ th' \in [{"rx", "disc"} -> Threads]
      /\ \A u \in {"rx", "disc"} : u # t => th'[u] = th[u]
      /\ th'[t].op = th[t].op /\ th'[t].pc = "sent"
  BY <1>1, <1>2 DEF Threads, ThreadPc
<1>7. ThType'
  BY <1>2, <1>3, <1>6, ThreadType
<1> QED BY <1>1, <1>4, <1>5, <1>7, SameType, Zenon DEF TypeInv

(* ... and returns.                                                        *)
LEMMA ReturnedKeepsType ==
  ASSUME TypeInv, NEW t \in {"rx", "disc"}, module_request_returns(t)
  PROVE  TypeInv'
<1>1. CASE Dies("stale_interface")
  BY <1>1, DiesKeepsType DEF Faults
<1>2. CASE ~Dies("stale_interface")
  <2>1. /\ node' \in {node, [node EXCEPT ![th[t].node] = "none"]}
        /\ th' = [th EXCEPT ![t] = Resting]
        /\ UNCHANGED <<heap, counter, flag, ops, unrouted, fault, ready, map, wq, suspended, inbox, ap,
                       dropped, arrivals, starts, asks>>
    BY <1>2 DEF module_request_returns, rest
  <2>2. th \in [{"rx", "disc"} -> Threads] /\ ops \in Seq(Requests) /\ Len(ops) \in Nat
    BY ThreadFields
  <2>3. NodeType'
    BY <2>1 DEF TypeInv, NodeType
  <2>4. /\ th' \in [{"rx", "disc"} -> Threads]
        /\ \A u \in {"rx", "disc"} : u # t => th'[u] = th[u]
        /\ th'[t].op = 0 /\ th'[t].pc = "idle"
    BY <2>1, <2>2, Constants DEF Resting
  <2>5. ThType'
    BY <2>1, <2>2, <2>4, ThreadType
  <2> QED BY <2>1, <2>3, <2>5, SameType, Zenon DEF TypeInv
<1> QED BY <1>1, <1>2

(* The AP: a session begins or ends.                                       *)
LEMMA SessionType ==
  ASSUME TypeInv, NEW s \in {"down", "start"}, NewSession(s), th' = th
  PROVE  HostType' /\ ThType' /\ (counter' = counter => OpsType')
         /\ Len(ops') = Len(ops)
<1> DEFINE conns == [c \in ApCports |-> Unconnected]
           fate(o) == IF ops[o].st = "sent" THEN [ops[o] EXCEPT !.st = "stale"] ELSE ops[o]
<1>1. conns \in [ApCports -> Targets \cup {Unconnected, SvcTarget}]
  OBVIOUS
<1> HIDE DEF conns
<1>2. [session |-> s, fresh |-> ap.session = "down", conn |-> conns, wait |-> {}] \in Hosts
  BY <1>1, Zenon DEF Hosts
<1>3. HostType'
  BY <1>2, Zenon DEF HostType, NewSession, conns
<1>4. ops \in Seq(Requests) /\ Len(ops) \in Nat /\ DOMAIN ops = 1..Len(ops)
  BY LenProperties DEF TypeInv, OpsType
<1>5. \A o \in 1..Len(ops) : fate(o) \in Requests
  <2> TAKE o \in 1..Len(ops)
  <2>1. ops[o] \in Requests
    BY <1>4, ElementOfSeq
  <2>2. [ops[o] EXCEPT !.st = "stale"] \in Requests
    BY <2>1, Zenon DEF Requests
  <2> QED BY <2>1, <2>2, Zenon
<1>6. ops' = [o \in 1..Len(ops) |-> fate(o)]
  BY <1>4, Zenon DEF NewSession
<1> HIDE DEF fate
<1>7. ops' \in Seq(Requests) /\ Len(ops') = Len(ops)
  BY <1>4, <1>5, <1>6, IsASeq
<1>8. ThType'
  BY <1>7 DEF TypeInv, ThType
<1> QED BY <1>3, <1>7, <1>8 DEF TypeInv, OpsType

(* A START or STOP of the AP keeps the types.                              *)
LEMMA HostSessionKeepsType ==
  ASSUME TypeInv, ap_start \/ ap_stop
  PROVE  TypeInv'
<1>1. PICK s \in {"down", "start"} : NewSession(s)
  BY DEF ap_start, ap_stop
<1>2. PICK ty \in {"START", "STOP"} : Post(Command(ty))
  BY DEF ap_start, ap_stop
<1>3. InboxType'
  BY <1>2, Constants, PostType
<1>4. UNCHANGED <<heap, counter, ready, map, node, wq, th, flag, suspended, unrouted, dropped, fault>>
  BY DEF ap_start, ap_stop, firmware
<1>5. HostType' /\ ThType' /\ OpsType'
  BY <1>1, <1>4, SessionType
<1>6. CountType'
  BY SvcAssumption DEF ap_start, ap_stop, bounds, TypeInv, CountType
<1> QED BY <1>3, <1>4, <1>5, <1>6, SameType, Zenon DEF TypeInv

(* The AP answers a request.                                               *)
LEMMA AnswersKeepsType ==
  ASSUME TypeInv, NEW o \in DOMAIN ops, ap_answers(o)
  PROVE  TypeInv'
<1>1. ops \in Seq(Requests) /\ Len(ops) \in Nat /\ DOMAIN ops = 1..Len(ops)
  BY LenProperties DEF TypeInv, OpsType
<1>2. ops[o] \in Requests
  BY <1>1, ElementOfSeq
<1>3. Response[ops[o].type] \in Responses
  BY <1>2 DEF Requests, Responses
<1>4. Frame(Response[ops[o].type], 0, 0, 0, Unconnected) \in Frames
  <2> DEFINE ty == Response[ops[o].type]
  <2>1. ty \in GreybusTypes \cup {"START", "STOP", "none"}
    BY <1>3 DEF GreybusTypes
  <2>2. Command(ty) \in Frames
    BY <2>1, Constants
  <2> QED BY <2>2 DEF Command
<1>5. InboxType'
  BY <1>4, PostType DEF ap_answers
<1>6. UNCHANGED <<heap, counter, ready, map, node, wq, th, flag, suspended, unrouted, dropped, fault,
                 arrivals, starts, asks>>
  BY DEF ap_answers, firmware, bounds
<1>7. ops' \in Seq(Requests) /\ Len(ops') = Len(ops)
  BY <1>1, FateType DEF ap_answers
<1>8. OpsType' /\ ThType'
  BY <1>6, <1>7 DEF TypeInv, OpsType, ThType
<1>9. HostType'
  <2>1. ap \in Hosts
    BY DEF TypeInv, HostType
  <2>2. PICK s \in {"up", ap.session} : ap' = [ap EXCEPT !.session = s]
    BY Zenon DEF ap_answers
  <2>3. s \in {"down", "start", "up", "closing"}
    BY <2>1 DEF Hosts
  <2> QED BY <2>1, <2>2, <2>3, Zenon DEF HostType, Hosts
<1> QED BY <1>5, <1>6, <1>8, <1>9, SameType, Zenon DEF TypeInv

(* The AP asks.                                                            *)
LEMMA AskType ==
  ASSUME TypeInv, NEW ty \in GreybusTypes, NEW cport \in ApCports, NEW c \in ApCports,
         NEW to \in Targets \cup {Unconnected, SvcTarget}, NEW answered \in BOOLEAN,
         Ask(Frame(ty, cport, asks + 1, c, to), answered)
  PROVE  TypeInv'
<1> DEFINE f == Frame(ty, cport, asks + 1, c, to)
<1>1. asks + 1 \in 0..MaxAsks /\ asks' = asks + 1 /\ Post(f)
      /\ UNCHANGED <<heap, counter, ready, map, node, wq, th, flag, suspended, unrouted, dropped, fault,
                     ops, arrivals, starts>>
  BY SvcAssumption DEF Ask, firmware, TypeInv, CountType
<1>2. f \in Frames
  BY <1>1 DEF Frame, Frames
<1> HIDE DEF f
<1>3. InboxType'
  BY <1>1, <1>2, PostType
<1>4. CountType'
  BY <1>1 DEF TypeInv, CountType
<1>5. HostType'
  <2>1. ap \in Hosts /\ ap.wait \in SUBSET Frames
    BY DEF TypeInv, HostType, Hosts
  <2>2. PICK s \in {"closing", ap.session}, w \in {ap.wait, ap.wait \cup {f}} :
          ap' = [ap EXCEPT !.wait = w, !.session = s]
    <3>1. ap' = [ap EXCEPT !.wait = IF answered THEN ap.wait \cup {f} ELSE ap.wait,
                           !.session = IF f.to = SvcTarget THEN "closing" ELSE ap.session]
      BY Zenon DEF Ask, f
    <3> QED BY <3>1, Zenon
  <2>3. s \in {"down", "start", "up", "closing"} /\ w \in SUBSET Frames
    BY <1>2, <2>1 DEF Hosts
  <2> QED BY <2>1, <2>2, <2>3, Zenon DEF HostType, Hosts
<1> QED BY <1>1, <1>3, <1>4, <1>5, SameType, Zenon DEF TypeInv

(* A request of the AP keeps the types.                                    *)
LEMMA AsksKeepsType ==
  ASSUME TypeInv, NEW ty \in Types, ap_asks(ty)
  PROVE  TypeInv'
<1>1. ap.conn \in [ApCports -> Targets \cup {Unconnected, SvcTarget}]
  BY DEF TypeInv, HostType, Hosts
<1>2. \E ty2 \in GreybusTypes, cport \in ApCports, c \in ApCports,
         to \in Targets \cup {Unconnected, SvcTarget}, answered \in BOOLEAN :
         Ask(Frame(ty2, cport, asks + 1, c, to), answered)
  <2>1. CASE /\ ty \in (SvcReplies \cup {"UNSUPPORTED"}) \ {"CONN_CREATE", "CONN_DESTROY"}
             /\ Ask(Frame(ty, 0, asks + 1, 0, Unconnected), ty # "UNSUPPORTED")
    BY <2>1, ApCportZero, Zenon DEF GreybusTypes
  <2>2. CASE ty = "CONN_CREATE" /\ \E c \in ApCports \ {0}, to \in Targets \cup {Unconnected} :
               Ask(Frame(ty, 0, asks + 1, c, to), TRUE)
    BY <2>2, ApCportZero, Zenon DEF GreybusTypes, SvcReplies, EmptyReplies
  <2>3. CASE ty = "CONN_DESTROY" /\ \E c \in ApCports \ {0} :
               Ask(Frame(ty, 0, asks + 1, c, ap.conn[c]), TRUE)
    BY <1>1, <2>3, ApCportZero, Zenon DEF GreybusTypes, SvcReplies, EmptyReplies
  <2>4. CASE ty = "CONN_DESTROY" /\ Ask(Frame(ty, 0, asks + 1, 0, SvcTarget), TRUE)
    BY <2>4, ApCportZero, Zenon DEF GreybusTypes, SvcReplies, EmptyReplies
  <2>5. CASE ty \in ControlReplies \cup {"DATA"} /\ \E c \in ApCports \ {0} :
               Ask(Frame(ty, c, asks + 1, 0, Unconnected), ty # "DATA")
    BY <2>5, ApCportZero, Zenon DEF GreybusTypes
  <2> QED BY <2>1, <2>2, <2>3, <2>4, <2>5, Zenon DEF ap_asks
<1> QED BY <1>2, AskType, Zenon

(* Type correctness is inductive.                                          *)
LEMMA TypeNext == TypeInv /\ [Next]_vars => TypeInv'
<1> SUFFICES ASSUME TypeInv, [Next]_vars PROVE TypeInv'
  OBVIOUS
<1>1. CASE WqStep
  BY <1>1, StartKeepsType, StopKeepsType, DroppedKeepsType, SvcRequestKeepsType, CreateKeepsType,
     DestroyKeepsType, SvcResponseKeepsType, UnknownKeepsType, LocalKeepsType, WriteKeepsType DEF WqStep
<1>2. CASE NodeReturns
  BY <1>2, ReturnsKeepsType, WrittenKeepsType DEF NodeReturns
<1>3. CASE node_filter \/ node_cache_add
  BY <1>3, FilterKeepsType, CacheKeepsType
<1>4. CASE \E i \in NodeIds : gb_message_receive(i)
  BY <1>4, ReceiveKeepsType
<1>5. CASE rx_payload_complete \/ rx_payload_cut
  BY <1>5, PayloadKeepsType
<1>6. CASE \E t \in DOMAIN th : RequestStep(t)
  <2>1. DOMAIN th = {"rx", "disc"}
    BY DEF TypeInv, ThType
  <2> QED BY <1>6, <2>1, DrawKeepsType, ResetKeepsType, RequestAllocKeepsType, SentKeepsType, ReturnedKeepsType
         DEF RequestStep
<1>7. CASE ap_start \/ ap_stop
  BY <1>7, HostSessionKeepsType
<1>8. CASE \E o \in DOMAIN ops : ap_answers(o)
  BY <1>8, AnswersKeepsType
<1>9. CASE \E ty \in Types : ap_asks(ty)
  BY <1>9, AsksKeepsType
<1>10. CASE UNCHANGED vars
  BY <1>10, SameType, Zenon DEF vars, bounds, TypeInv
<1> QED BY <1>1, <1>2, <1>3, <1>4, <1>5, <1>6, <1>7, <1>8, <1>9, <1>10 DEF Next

-----------------------------------------------------------------------------
(* Routes.                                                                 *)

(* The entry of AP cport 0 looks like cport 0 of the SVC: it is the SVC's  *)
(* or zeroed.  The local node is connected by its cport 0.                 *)
TableInv(m) ==
  /\ m \in [ApCports -> Entries]
  /\ m[0].node_id = SVC_INF_ID /\ m[0].node_cport = 0
  /\ \A c \in ApCports : m[c].node_intf = LOCAL_INTF =>
       m[c].node_id = LOCAL_NODE_ID /\ m[c].node_cport = 0

(* The AP never asks for a connection of its cport 0, and connects only to *)
(* what it has heard of.                                                   *)
CreateFrame(f) ==
  f.type = "CONN_CREATE" => f.c # 0 /\ f.to \in Targets \cup {Unconnected}

RouteInv ==
  /\ TableInv(map)
  /\ \A k \in 1..Len(inbox) : CreateFrame(inbox[k])
  /\ wq.pc = "connect" => wq.frame.type = "CONN_CREATE" /\ CreateFrame(wq.frame)

(* Where answers are sent to is connected: the SVC's always, since cport 0 *)
(* is the first that matches, and the local node's while it is connected.  *)
LEMMA RoutedSvc ==
  ASSUME NEW m, TableInv(m)
  PROVE  Routed(m, SVC_INF_ID, 0) /\ node_to_ap_cport(m, SVC_INF_ID, 0) = 0
<1> DEFINE S == {i \in DOMAIN m : m[i].node_id = SVC_INF_ID /\ m[i].node_cport = 0}
<1>1. S \in SUBSET Nat /\ 0 \in S
  BY ApCportZero DEF TableInv
<1>2. FirstIndex(S) \in Nat /\ FirstIndex(S) <= 0
  BY <1>1, FirstIndexIn
<1> QED BY <1>2 DEF Routed, node_to_ap_cport

(* What the local node answers has a route.                                *)
LEMMA RoutedLocal ==
  ASSUME NEW m, TableInv(m), NEW c \in ApCports, m[c].node_intf = LOCAL_INTF
  PROVE  Routed(m, LOCAL_NODE_ID, 0)
<1> DEFINE S == {i \in DOMAIN m : m[i].node_id = LOCAL_NODE_ID /\ m[i].node_cport = 0}
<1>1. S \in SUBSET Nat /\ c \in S
  BY ApCportZero DEF TableInv
<1>2. FirstIndex(S) \in Nat
  BY <1>1, FirstIndexIn
<1> QED BY <1>2 DEF Routed, node_to_ap_cport

(* The invariant of the routes holds at power-up.                          *)
LEMMA RouteInit == Init => RouteInv
<1> SUFFICES ASSUME Init PROVE RouteInv
  OBVIOUS
<1>1. map = [c \in ApCports |-> NoConnection] /\ inbox = <<>> /\ wq.pc = "idle"
  BY DEF Init
<1>2. TableInv(map)
  BY <1>1, Constants, ApCportZero DEF TableInv, NoConnection, LOCAL_INTF, NULL
<1> QED BY <1>1, <1>2 DEF RouteInv

(* The queue, by what happens to it.                                       *)
LEMMA TailElements ==
  ASSUME TypeInv, inbox # <<>>, inbox' = Tail(inbox)
  PROVE  /\ Len(inbox') = Len(inbox) - 1 /\ Len(inbox) \in Nat /\ Len(inbox) > 0
         /\ \A k \in 1..Len(inbox') : inbox'[k] = inbox[k + 1]
         /\ Head(inbox) = inbox[1]
<1>1. inbox \in Seq(Frames)
  BY DEF TypeInv, InboxType
<1>2. Len(inbox) \in Nat /\ Len(inbox) # 0
  BY <1>1, EmptySeq, LenProperties
<1>3. Len(Tail(inbox)) = Len(inbox) - 1 /\ Head(inbox) = inbox[1]
      /\ \A k \in 1..Len(inbox) - 1 : Tail(inbox)[k] = inbox[k + 1]
  BY <1>1, HeadTailProperties
<1> QED BY <1>2, <1>3

(* The queue after the AP has sent a frame.                                *)
LEMMA PostElements ==
  ASSUME TypeInv, NEW f \in Frames, Post(f)
  PROVE  /\ Len(inbox') = Len(inbox) + 1 /\ Len(inbox) \in Nat
         /\ \A k \in 1..Len(inbox) : inbox'[k] = inbox[k]
         /\ inbox'[Len(inbox) + 1] = f
<1>1. inbox \in Seq(Frames)
  BY DEF TypeInv, InboxType
<1>2. Len(inbox) \in Nat
  BY <1>1, LenProperties
<1> QED BY <1>1, <1>2, AppendProperties DEF Post

(* A connection that is added keeps the table.                             *)
LEMMA AddKeepsTable ==
  ASSUME TableInv(map), NEW f \in Frames, CreateFrame(f), f.type = "CONN_CREATE",
         f.to # Unconnected,
         NEW intf \in {NULL, SVC_INTF, LOCAL_INTF} \cup NodeIds,
         intf = LOCAL_INTF => f.to.id = LOCAL_NODE_ID
  PROVE  TableInv(node_ap_add(map, f.c, f.to.cport, intf, f.to.id))
<1>1. f.to \in Targets /\ f.c # 0 /\ f.c \in ApCports
  BY DEF CreateFrame, Frames
<1>2. f.to.id \in {SVC_INF_ID, LOCAL_NODE_ID} \cup NodeIds /\ f.to.cport \in {0, 1}
      /\ (f.to.id = LOCAL_NODE_ID => f.to.cport = 0)
  BY <1>1, SvcAssumption DEF Targets, LOCAL_NODE_ID, SVC_INF_ID
<1> DEFINE e == [node_intf |-> intf, node_cport |-> f.to.cport, node_id |-> f.to.id]
<1>3. e \in Entries /\ (e.node_intf = LOCAL_INTF => e.node_id = LOCAL_NODE_ID /\ e.node_cport = 0)
  BY <1>2 DEF Entries
<1> HIDE DEF e
<1>4. TableInv([map EXCEPT ![f.c] = e])
  BY <1>1, <1>3, ApCportZero DEF TableInv
<1> QED BY <1>4 DEF node_ap_add, e

-----------------------------------------------------------------------------
(* Ownership.  Of each of the three contexts, the message that it holds.   *)
Contexts == {"wq", "rx", "disc"}
Holds    == [x \in Contexts |-> IF x = "wq" THEN wq.msg ELSE Held(x)]

(* In heap h, with holders g, exactly u blocks are nobody's.               *)
Nobodys(h, g) == {b \in h : \A x \in Contexts : b \notin g[x]}
Owned(h, g, u) ==
  /\ h \subseteq Blocks /\ u \in Nat /\ g \in [Contexts -> SUBSET Blocks]
  /\ \A x \in Contexts : g[x] \subseteq h
  /\ \A x, y \in Contexts : x # y => g[x] \cap g[y] = {}
  /\ Cardinality(Nobodys(h, g)) = u

(* What is nobody's is a finite set.                                       *)
LEMMA NobodysFinite ==
  ASSUME NEW h \in SUBSET Blocks, NEW g
  PROVE  IsFiniteSet(Nobodys(h, g)) /\ Cardinality(Nobodys(h, g)) <= HeapBlocks
  BY HeapFinite, FS_Subset DEF Nobodys

(* The four things that happen to messages: a context takes free blocks,   *)
LEMMA OwnedTake ==
  ASSUME NEW h, NEW g, NEW u, Owned(h, g, u), NEW x \in Contexts, g[x] = NoMessage,
         NEW b \in SUBSET (Blocks \ h)
  PROVE  Owned(h \cup b, [g EXCEPT ![x] = b], u)
<1> DEFINE k == [g EXCEPT ![x] = b]
<1>1. k \in [Contexts -> SUBSET Blocks] /\ h \cup b \subseteq Blocks
  BY DEF Owned
<1>2. k[x] = b /\ \A y \in Contexts : y # x => k[y] = g[y]
  BY DEF Owned
<1> HIDE DEF k
<1>3. Nobodys(h \cup b, k) = Nobodys(h, g)
  BY <1>1, <1>2 DEF Nobodys, Owned, NoMessage
<1>4. \A y \in Contexts : k[y] \subseteq h \cup b
  BY <1>2 DEF Owned
<1>5. \A y, z \in Contexts : y # z => k[y] \cap k[z] = {}
  BY <1>2 DEF Owned
<1> QED BY <1>1, <1>3, <1>4, <1>5 DEF Owned, k

(* a context frees its message,                                            *)
LEMMA OwnedFree ==
  ASSUME NEW h, NEW g, NEW u, Owned(h, g, u), NEW x \in Contexts
  PROVE  Owned(h \ g[x], [g EXCEPT ![x] = NoMessage], u)
<1> DEFINE k == [g EXCEPT ![x] = NoMessage]
<1>1. k \in [Contexts -> SUBSET Blocks] /\ k[x] = {} /\ \A y \in Contexts : y # x => k[y] = g[y]
  BY DEF Owned, NoMessage
<1> HIDE DEF k
<1>2. Nobodys(h \ g[x], k) = Nobodys(h, g)
  BY <1>1 DEF Nobodys, Owned
<1> QED BY <1>1, <1>2 DEF Owned, k

(* a context forgets its message without freeing it,                       *)
LEMMA OwnedForget ==
  ASSUME NEW h, NEW g, NEW u, Owned(h, g, u), NEW x \in Contexts
  PROVE  Owned(h, [g EXCEPT ![x] = NoMessage], u + Cardinality(g[x]))
<1> DEFINE k == [g EXCEPT ![x] = NoMessage]
<1>1. k \in [Contexts -> SUBSET Blocks] /\ k[x] = {} /\ \A y \in Contexts : y # x => k[y] = g[y]
  BY DEF Owned, NoMessage
<1> HIDE DEF k
<1>2. Nobodys(h, k) = Nobodys(h, g) \cup g[x] /\ Nobodys(h, g) \cap g[x] = {}
  BY <1>1 DEF Nobodys, Owned
<1>3. g[x] \in SUBSET Blocks /\ h \in SUBSET Blocks /\ u \in Nat /\ Cardinality(Nobodys(h, g)) = u
  BY DEF Owned
<1>4. IsFiniteSet(g[x]) /\ Cardinality(g[x]) \in Nat /\ IsFiniteSet(Nobodys(h, g))
  BY <1>3, MessageFinite, NobodysFinite
<1>5. Cardinality(Nobodys(h, g) \cup g[x]) = u + Cardinality(g[x]) - Cardinality({})
  BY <1>2, <1>3, <1>4, FS_Union
<1>6. Cardinality(Nobodys(h, k)) = u + Cardinality(g[x])
  BY <1>2, <1>3, <1>4, <1>5, FS_EmptySet
<1> QED BY <1>1, <1>3, <1>4, <1>6 DEF Owned, k

(* and a message of one block is lost where it was allocated.              *)
LEMMA OwnedLose ==
  ASSUME NEW h, NEW g, NEW u, Owned(h, g, u), NEW m \in Short(h)
  PROVE  Owned(h \cup m, g, u + 1)
<1>1. PICK b \in Blocks \ h : m = {b}
  BY DEF Short
<1>2. Nobodys(h \cup {b}, g) = Nobodys(h, g) \cup {b} /\ b \notin Nobodys(h, g)
  BY DEF Nobodys, Owned
<1>3. Cardinality(Nobodys(h \cup {b}, g)) = u + 1
  BY <1>2, NobodysFinite, FS_AddElement DEF Owned
<1> QED BY <1>1, <1>3 DEF Owned

(* Who has a message when; only rx has messages of several blocks.         *)
HasMessage == {"payload", "send", "sent"}
PcInv ==
  /\ wq.pc = "idle" <=> wq.msg = NoMessage
  /\ \A t \in {"rx", "disc"} : th[t].pc \in HasMessage <=> th[t].msg # NoMessage
  /\ \E b : wq.msg \subseteq {b}
  /\ \E b : th["disc"].msg \subseteq {b}

MessageInv == RouteInv /\ PcInv /\ Owned(heap, Holds, unrouted)

(* The heap fails somebody only if blocks were lost, or rx has many.       *)
HeapStep ==
  HeapBlocks >= 4 /\ (dropped' # dropped \/ (fault' # fault /\ fault' = "null_copy"))
    => unrouted > 0 \/ LongMessage

(* Every block is in use and only three contexts hold one: with four       *)
(* blocks, one is nobody's.  x is the block that wq works with, if any.    *)
LEMMA Crowded ==
  ASSUME TypeInv, PcInv, Owned(heap, Holds, unrouted), HeapBlocks >= 4,
         NEW x, Blocks \subseteq heap \cup {x}, wq.msg \subseteq {x}
  PROVE  unrouted > 0 \/ LongMessage
<1> SUFFICES ASSUME ~LongMessage PROVE unrouted > 0
  OBVIOUS
<1>1. Holds["wq"] = wq.msg /\ Holds["rx"] \subseteq th["rx"].msg /\ Holds["disc"] \subseteq th["disc"].msg
  BY DEF Holds, Contexts, Held, NoMessage
<1>2. 1 \in Blocks /\ 2 \in Blocks /\ 3 \in Blocks /\ 4 \in Blocks
  BY MessagesAssumption DEF Blocks
<1>3. PICK d : th["disc"].msg \subseteq {d}
  BY DEF PcInv
<1>4. \E r : th["rx"].msg \subseteq {r}
  <2>1. IsFiniteSet(th["rx"].msg) /\ Cardinality(th["rx"].msg) \in Nat
    BY ThreadFields, MessageFinite
  <2>2. Cardinality(th["rx"].msg) = 0 \/ Cardinality(th["rx"].msg) = 1
    BY <2>1 DEF LongMessage
  <2>3. CASE Cardinality(th["rx"].msg) = 0
    <3>1. th["rx"].msg = {}
      BY <2>1, <2>3, FS_EmptySet
    <3> QED BY <3>1
  <2>4. CASE Cardinality(th["rx"].msg) = 1
    <3>1. \E r : th["rx"].msg = {r}
      BY <2>1, <2>4, FS_Singleton
    <3> QED BY <3>1
  <2> QED BY <2>2, <2>3, <2>4
<1>5. PICK r : th["rx"].msg \subseteq {r}
  BY <1>4
<1>6. PICK b \in {1, 2, 3, 4} : b \notin {x, d, r}
  OBVIOUS
<1>7. b \in heap /\ b \notin wq.msg /\ b \notin th["rx"].msg /\ b \notin th["disc"].msg
  BY <1>2, <1>3, <1>5, <1>6
<1>8. b \in Nobodys(heap, Holds)
  BY <1>1, <1>7 DEF Nobodys, Contexts
<1>9. Cardinality(Nobodys(heap, Holds)) # 0
  BY <1>8, NobodysFinite, FS_EmptySet DEF Owned
<1> QED BY <1>9 DEF Owned

(* The invariant says what Ownership says.                                 *)
LEMMA MessageInvImplies ==
  TypeInv /\ MessageInv => Ownership /\ unrouted \in 0..HeapBlocks /\ (unrouted > 0 => Orphans # {})
<1> SUFFICES ASSUME TypeInv, MessageInv
             PROVE  Ownership /\ unrouted \in 0..HeapBlocks /\ (unrouted > 0 => Orphans # {})
  OBVIOUS
<1>1. Holds["wq"] = wq.msg /\ Holds["rx"] = Held("rx") /\ Holds["disc"] = Held("disc")
  BY DEF Holds, Contexts
<1>2. Owned(heap, Holds, unrouted)
  BY DEF MessageInv
<1>3. Orphans = Nobodys(heap, Holds)
  BY <1>1 DEF Orphans, Nobodys, Contexts
<1>4. Cardinality(Orphans) = unrouted /\ unrouted \in Nat /\ Cardinality(Orphans) <= HeapBlocks
  BY <1>2, <1>3, NobodysFinite DEF Owned
<1>5. Ownership
  <2>1. "wq" \in Contexts /\ "rx" \in Contexts /\ "disc" \in Contexts
    BY DEF Contexts
  <2>2. wq.msg \subseteq heap /\ Held("rx") \subseteq heap /\ Held("disc") \subseteq heap
    BY <1>1, <1>2, <2>1 DEF Owned
  <2>3. wq.msg \cap Held("rx") = {} /\ wq.msg \cap Held("disc") = {} /\ Held("rx") \cap Held("disc") = {}
    BY <1>1, <1>2, <2>1 DEF Owned
  <2> QED BY <1>4, <2>2, <2>3 DEF Ownership
<1>6. unrouted \in 0..HeapBlocks
  BY <1>4, MessagesAssumption
<1>7. unrouted > 0 => Orphans # {}
  BY <1>4, FS_EmptySet
<1> QED BY <1>5, <1>6, <1>7

(* At power-up nobody holds a message.                                     *)
LEMMA MessageInit == Init => MessageInv
<1> SUFFICES ASSUME Init PROVE MessageInv
  OBVIOUS
<1>1. heap = {} /\ unrouted = 0 /\ dropped = {} /\ fault = "none" /\ wq.pc = "idle" /\ wq.msg = NoMessage
      /\ \A t \in {"rx", "disc"} : th[t] = Resting
  BY DEF Init
<1>2. PcInv
  BY <1>1 DEF PcInv, Resting, HasMessage, NoMessage
<1>3. Holds \in [Contexts -> SUBSET Blocks] /\ \A x \in Contexts : Holds[x] = {}
  BY <1>1 DEF Holds, Contexts, Resting, Held, NoMessage
<1>4. Nobodys({}, Holds) = {}
  BY DEF Nobodys
<1>5. Owned(heap, Holds, unrouted)
  BY <1>1, <1>3, <1>4, FS_EmptySet DEF Owned
<1> QED BY <1>2, <1>5, RouteInit DEF MessageInv

-----------------------------------------------------------------------------
(* The steps.                                                              *)

(* A frame is taken: the others are unchanged, and so is what they say.    *)
LEMMA RouteTake ==
  ASSUME TypeInv, RouteInv, inbox # <<>>, inbox' = Tail(inbox), TableInv(map'),
         wq'.pc = "connect" => wq'.frame = Head(inbox) /\ Head(inbox).type = "CONN_CREATE"
  PROVE  RouteInv'
<1>1. /\ Len(inbox') = Len(inbox) - 1 /\ Len(inbox) \in Nat /\ Len(inbox) > 0
      /\ \A k \in 1..Len(inbox') : inbox'[k] = inbox[k + 1]
      /\ Head(inbox) = inbox[1]
  BY TailElements
<1>2. \A k \in 1..Len(inbox') : CreateFrame(inbox'[k])
  BY <1>1 DEF RouteInv
<1>3. CreateFrame(Head(inbox))
  BY <1>1 DEF RouteInv
<1> QED BY <1>2, <1>3 DEF RouteInv

(* A frame is added.                                                       *)
LEMMA RoutePost ==
  ASSUME TypeInv, RouteInv, NEW f \in Frames, Post(f), CreateFrame(f), map' = map, wq' = wq
  PROVE  RouteInv'
<1>1. /\ Len(inbox') = Len(inbox) + 1 /\ Len(inbox) \in Nat
      /\ \A k \in 1..Len(inbox) : inbox'[k] = inbox[k]
      /\ inbox'[Len(inbox) + 1] = f
  BY PostElements
<1>2. \A k \in 1..Len(inbox') : CreateFrame(inbox'[k])
  BY <1>1 DEF RouteInv
<1> QED BY <1>2 DEF RouteInv

(* Neither table nor queue changes.                                        *)
LEMMA RouteSame ==
  ASSUME RouteInv, UNCHANGED <<map, inbox, wq>>
  PROVE  RouteInv'
  BY DEF RouteInv

(* Steps that leave the messages alone.                                    *)
LEMMA Quiet ==
  ASSUME MessageInv, UNCHANGED <<heap, unrouted, wq>>, th' = th
  PROVE  PcInv' /\ Owned(heap, Holds, unrouted)'
<1>1. PcInv'
  BY DEF MessageInv, PcInv
<1>2. Holds' = Holds
  BY DEF Holds, Contexts, Held
<1>3. Owned(heap, Holds, unrouted)'
  BY <1>2 DEF MessageInv
<1> QED BY <1>1, <1>3

(* A fault with a reason.                                                  *)
LEMMA DiesKeepsMessages ==
  ASSUME TypeInv, MessageInv, NEW why, Dies(why), fault = "none",
         why = "null_copy" => \E x : Blocks \subseteq heap \cup {x} /\ wq.msg \subseteq {x}
  PROVE  MessageInv' /\ HeapStep
<1>1. UNCHANGED <<heap, unrouted, wq, map, inbox, dropped>> /\ th' = th /\ fault' = why
  BY DEF Dies
<1>2. RouteInv'
  BY <1>1, RouteSame DEF MessageInv
<1>3. HeapBlocks >= 4 /\ why = "null_copy" => unrouted > 0 \/ LongMessage
  BY Crowded DEF MessageInv
<1>4. HeapStep
  BY <1>1, <1>3, Zenon DEF HeapStep
<1> QED BY <1>1, <1>2, <1>4, Quiet DEF MessageInv

(* The heap after a request of the SVC that wq makes.                      *)
LEMMA RequestHeap ==
  ASSUME NEW type, NEW h \in SUBSET Blocks, NEW held, gb_message_alloc(h, 1) # NoMessage, TableInv(map),
         control_send_request(type, h, held)
  PROVE  heap' = h \ held
<1>1. gb_message_alloc(h, 1) \in SUBSET (Blocks \ h)
  BY AllocType
<1>2. Routed(map, SVC_INF_ID, 0)
  BY RoutedSvc
<1> QED BY <1>1, <1>2 DEF control_send_request, send_to_ap, ap_send, gb_message_dealloc

(* The heap after an answer.                                               *)
LEMMA AnswerHeap ==
  ASSUME NEW f, NEW h \in SUBSET Blocks, NEW b, NEW m, NEW id, NEW ok,
         Routed(m, id, 0), response_helper(f, h, b, m, id, ok)
  PROVE  \/ /\ fault' = "null_copy" /\ HasPayload(f.type) /\ heap' = heap /\ dropped' = dropped
            /\ Blocks \subseteq h
         \/ /\ fault' = fault /\ heap' = h \ b /\ (dropped' # dropped => Blocks \subseteq h)
<1> DEFINE r == gb_message_alloc(h, 1)
<1>1. r \in SUBSET (Blocks \ h)
  BY AllocType
<1>2. r = NoMessage => Blocks \subseteq h
  BY AllocShort
<1> HIDE DEF r
<1>3. (h \cup r) \ r = h
  BY <1>1
<1> QED BY <1>2, <1>3, Zenon DEF response_helper, CopiesToNull, send_to_ap, ap_send, gb_message_dealloc, r

(* An answer to a frame that wq has just taken leaves the heap as it was.  *)
LEMMA AnswerKeepsMessages ==
  ASSUME TypeInv, MessageInv, NEW intf, NEW types, Deliver(intf, types),
         NEW m, NEW id, NEW ok,
         Routed(m, id, 0), response_helper(Head(inbox), Filled, Msg, m, id, ok),
         UNCHANGED <<wq, th, unrouted>>
  PROVE  PcInv' /\ Owned(heap, Holds, unrouted)' /\ HeapStep
<1>1. Msg \in Short(heap) /\ Filled \in SUBSET Blocks /\ fault = "none" /\ wq.pc = "idle"
  BY DeliverType, Zenon
<1>2. \/ /\ fault' = "null_copy" /\ heap' = heap /\ dropped' = dropped
         /\ Blocks \subseteq Filled
      \/ /\ fault' = fault /\ heap' = Filled \ Msg /\ (dropped' # dropped => Blocks \subseteq Filled)
  BY <1>1, AnswerHeap, Zenon
<1>3. PICK x : Msg = {x} /\ x \notin heap
  BY <1>1 DEF Short
<1>4. heap' = heap
  BY <1>2, <1>3 DEF Filled
<1>5. wq.msg \subseteq {x}
  BY <1>1 DEF MessageInv, PcInv, NoMessage
<1>6. HeapBlocks >= 4 /\ Blocks \subseteq Filled => unrouted > 0 \/ LongMessage
  BY <1>3, <1>5, Crowded DEF Filled, MessageInv
<1>7. HeapStep
  BY <1>2, <1>6 DEF HeapStep
<1> QED BY <1>4, <1>7, Quiet

(* One context changes what it holds.                                      *)
LEMMA HoldsNext ==
  ASSUME NEW x \in Contexts, NEW b, wq'.msg = (IF x = "wq" THEN b ELSE wq.msg),
         \A t \in {"rx", "disc"} : Held(t)' = IF x = t THEN b ELSE Held(t)
  PROVE  Holds' = [Holds EXCEPT ![x] = b]
  BY DEF Holds, Contexts

(* What a thread holds is unchanged when the thread is.                    *)
LEMMA HeldSame ==
  ASSUME NEW t, th'[t] = th[t]
  PROVE  Held(t)' = Held(t)
  BY DEF Held

(* wq keeps the message while it waits for a node.                         *)
LEMMA WqTakes ==
  ASSUME TypeInv, MessageInv, NEW intf, NEW types, Deliver(intf, types), NEW pc \in {"connect", "write"},
         heap' = Filled, wq' = [pc |-> pc, msg |-> Msg, frame |-> Head(inbox)],
         UNCHANGED <<th, unrouted, dropped, fault>>
  PROVE  PcInv' /\ Owned(heap, Holds, unrouted)' /\ HeapStep
<1>1. Msg \in Short(heap) /\ wq.pc = "idle"
  BY DeliverType, Zenon
<1>2. wq.msg = NoMessage /\ Holds["wq"] = wq.msg /\ "wq" \in Contexts
  BY <1>1 DEF MessageInv, PcInv, Holds, Contexts
<1>3. Holds' = [Holds EXCEPT !["wq"] = Msg]
  BY <1>2, HoldsNext, HeldSame
<1>4. PICK x \in Blocks \ heap : Msg = {x}
  BY <1>1 DEF Short
<1>5. Owned(heap \cup Msg, [Holds EXCEPT !["wq"] = Msg], unrouted)
  BY <1>2, <1>4, OwnedTake DEF MessageInv
<1>6. Owned(heap, Holds, unrouted)'
  BY <1>3, <1>5 DEF Filled
<1>7. PcInv'
  BY <1>4 DEF MessageInv, PcInv, NoMessage
<1> QED BY <1>6, <1>7 DEF HeapStep

(* wq frees the message that it kept.                                      *)
LEMMA WqFrees ==
  ASSUME TypeInv, MessageInv, wq.pc # "idle",
         heap' = heap \ wq.msg, wq' = [pc |-> "idle", msg |-> NoMessage, frame |-> NoFrame],
         UNCHANGED <<th, unrouted, fault>>,
         HeapBlocks >= 4 /\ dropped' # dropped => unrouted > 0 \/ LongMessage
  PROVE  PcInv' /\ Owned(heap, Holds, unrouted)' /\ HeapStep
<1>1. Holds["wq"] = wq.msg /\ "wq" \in Contexts
  BY DEF Holds, Contexts
<1>2. Holds' = [Holds EXCEPT !["wq"] = NoMessage]
  BY <1>1, HoldsNext, HeldSame
<1>3. Owned(heap \ Holds["wq"], [Holds EXCEPT !["wq"] = NoMessage], unrouted)
  BY <1>1, OwnedFree DEF MessageInv
<1>4. Owned(heap, Holds, unrouted)'
  BY <1>1, <1>2, <1>3
<1>5. PcInv'
  BY DEF MessageInv, PcInv, NoMessage
<1> QED BY <1>4, <1>5 DEF HeapStep

(* The commands of the host.                                               *)
LEMMA CommandKeepsMessages ==
  ASSUME TypeInv, MessageInv, control_svc_start \/ control_svc_stop
  PROVE  MessageInv' /\ HeapStep
<1>1. inbox # <<>> /\ fault = "none" /\ wq.pc = "idle" /\ wq.msg = NoMessage /\ TableInv(map) /\ RouteInv
      /\ heap \in SUBSET Blocks
  BY DEF control_svc_start, control_svc_stop, Take, MessageInv, PcInv, RouteInv, TypeInv, HeapType
<1>2. CASE Dies("null_copy") /\ control_svc_start
  <2>1. gb_message_alloc(heap, 1) = NoMessage
    BY <1>1, <1>2 DEF control_svc_start, Dies, CopiesToNull
  <2>2. Blocks \subseteq heap \cup {0} /\ wq.msg \subseteq {0}
    BY <1>1, <2>1, AllocShort DEF NoMessage
  <2> QED BY <1>1, <1>2, <2>2, DiesKeepsMessages
<1>3. CASE Dies("assertion") /\ control_svc_stop
  BY <1>1, <1>3, DiesKeepsMessages
<1>4. CASE ~(Dies("null_copy") /\ control_svc_start) /\ ~(Dies("assertion") /\ control_svc_stop)
  <2>1. inbox' = Tail(inbox) /\ UNCHANGED <<wq, th, unrouted, fault, dropped>>
    BY <1>4 DEF control_svc_start, control_svc_stop
  <2>2. heap' = heap
    <3>1. CASE control_svc_start /\ node_ap_may_add(map, 0)
      <4>1. control_send_request("PROTOCOL_VERSION", heap, NoMessage) /\ gb_message_alloc(heap, 1) # NoMessage
        BY <1>4, <3>1 DEF control_svc_start
      <4>2. heap' = heap \ NoMessage
        BY <1>1, <4>1, RequestHeap
      <4> QED BY <4>2 DEF NoMessage
    <3>2. CASE control_svc_start /\ ~node_ap_may_add(map, 0)
      BY <3>2 DEF control_svc_start
    <3>3. CASE control_svc_stop
      BY <1>4, <3>3 DEF control_svc_stop
    <3> QED BY <3>1, <3>2, <3>3
  <2>3. TableInv(map')
    <3>1. \/ map' = map \/ map' = [c \in ApCports |-> NoConnection]
          \/ map' = node_ap_add(map, 0, 0, SVC_INTF, SVC_INF_ID)
      BY <1>4 DEF control_svc_start, control_svc_stop
    <3>2. [node_intf |-> SVC_INTF, node_cport |-> 0, node_id |-> SVC_INF_ID] \in Entries
      BY DEF Entries
    <3>3. CASE map' = node_ap_add(map, 0, 0, SVC_INTF, SVC_INF_ID)
      BY <1>1, <3>2, <3>3, ApCportZero DEF TableInv, node_ap_add, SVC_INTF, LOCAL_INTF
    <3>4. CASE map' = [c \in ApCports |-> NoConnection]
      BY <3>4, Constants, ApCportZero DEF TableInv, NoConnection, LOCAL_INTF, NULL
    <3> QED BY <1>1, <3>1, <3>3, <3>4
  <2>4. RouteInv'
    BY <1>1, <2>1, <2>3, RouteTake
  <2>5. PcInv' /\ Owned(heap, Holds, unrouted)' /\ HeapStep
    BY <2>1, <2>2, Quiet DEF HeapStep
  <2> QED BY <2>4, <2>5 DEF MessageInv
<1> QED BY <1>2, <1>3, <1>4

(* A frame that is dropped finds the heap full.                            *)
LEMMA DroppedKeepsMessages ==
  ASSUME TypeInv, MessageInv, frame_dropped
  PROVE  MessageInv' /\ HeapStep
<1>1. inbox # <<>> /\ wq.pc = "idle" /\ wq.msg = NoMessage /\ TableInv(map) /\ RouteInv
      /\ heap \in SUBSET Blocks
  BY DEF frame_dropped, Take, MessageInv, PcInv, RouteInv, TypeInv, HeapType
<1>2. inbox' = Tail(inbox) /\ UNCHANGED <<heap, map, wq, th, unrouted, fault>>
  BY DEF frame_dropped
<1>3. Blocks \subseteq heap \cup {0} /\ wq.msg \subseteq {0}
  BY <1>1, AllocShort DEF frame_dropped, Msg, NoMessage
<1>4. HeapBlocks >= 4 => unrouted > 0 \/ LongMessage
  BY <1>1, <1>3, Crowded DEF MessageInv
<1>5. RouteInv'
  BY <1>1, <1>2, RouteTake
<1> QED BY <1>2, <1>4, <1>5, Quiet DEF MessageInv, HeapStep

(* Requests that are answered at once.                                     *)
LEMMA SvcRequestKeepsMessages ==
  ASSUME TypeInv, MessageInv, svc_request
  PROVE  MessageInv' /\ HeapStep
<1>1. /\ Deliver(SVC_INTF, SvcReplies \ {"CONN_CREATE", "CONN_DESTROY"})
      /\ response_helper(Head(inbox), Filled, Msg, map, SVC_INF_ID, TRUE)
      /\ inbox' = Tail(inbox) /\ UNCHANGED <<map, wq, th, unrouted>>
  BY DEF svc_request
<1>2. inbox # <<>> /\ wq.pc = "idle"
  BY <1>1, DeliverType, Zenon
<1>3. RouteInv /\ TableInv(map)
  BY DEF MessageInv, RouteInv
<1>4. RouteInv'
  BY <1>1, <1>2, <1>3, RouteTake
<1>5. Routed(map, SVC_INF_ID, 0)
  BY <1>3, RoutedSvc
<1>6. PcInv' /\ Owned(heap, Holds, unrouted)' /\ HeapStep
  BY <1>1, <1>5, AnswerKeepsMessages, Zenon
<1> QED BY <1>4, <1>6 DEF MessageInv

(* CONN_DESTROY.                                                           *)
LEMMA DestroyKeepsMessages ==
  ASSUME TypeInv, MessageInv, svc_connection_destroy
  PROVE  MessageInv' /\ HeapStep
<1> DEFINE m == node_ap_remove(map, Head(inbox).c)
<1>1. /\ Deliver(SVC_INTF, {"CONN_DESTROY"})
      /\ response_helper(Head(inbox), Filled, Msg, m, SVC_INF_ID, TRUE)
      /\ inbox' = Tail(inbox) /\ map' = m /\ UNCHANGED <<wq, th, unrouted>>
  BY DEF svc_connection_destroy
<1>2. inbox # <<>> /\ wq.pc = "idle" /\ Head(inbox) \in Frames
  BY <1>1, DeliverType, Zenon
<1>3. RouteInv /\ TableInv(map)
  BY DEF MessageInv, RouteInv
<1>4. TableInv(m)
  <2>1. Head(inbox).c \in ApCports
    BY <1>2 DEF Frames
  <2> QED BY <1>3, <2>1, Constants DEF TableInv, node_ap_remove, NoConnection, LOCAL_INTF, NULL
<1> HIDE DEF m
<1>5. RouteInv'
  BY <1>1, <1>2, <1>3, <1>4, RouteTake
<1>6. Routed(m, SVC_INF_ID, 0)
  BY <1>4, RoutedSvc
<1>7. PcInv' /\ Owned(heap, Holds, unrouted)' /\ HeapStep
  BY <1>1, <1>6, AnswerKeepsMessages, Zenon
<1> QED BY <1>5, <1>7 DEF MessageInv

(* connection_create keeps the table, for a frame of the AP.               *)
LEMMA ConnectTable ==
  ASSUME TypeInv, RouteInv, NEW f \in Frames, CreateFrame(f), f.type = "CONN_CREATE",
         NEW h, NEW b, NEW intf, NEW ok \in BOOLEAN, Connect(f, h, b, intf, ok),
         ok => /\ f.to # Unconnected
               /\ intf \in {NULL, SVC_INTF, LOCAL_INTF} \cup NodeIds
               /\ intf = LOCAL_INTF => f.to.id = LOCAL_NODE_ID
  PROVE  /\ TableInv(map')
         /\ \E added : response_helper(f, h, b, map', SVC_INF_ID, added)
<1> DEFINE added == ok /\ node_ap_may_add(map, f.c)
           m == IF added THEN node_ap_add(map, f.c, f.to.cport, intf, f.to.id) ELSE map
<1>1. map' = m /\ response_helper(f, h, b, m, SVC_INF_ID, added)
  BY Zenon DEF Connect
<1>2. TableInv(map)
  BY DEF RouteInv
<1>3. ok => TableInv(node_ap_add(map, f.c, f.to.cport, intf, f.to.id))
  BY <1>2, AddKeepsTable
<1>4. TableInv(m)
  BY <1>2, <1>3, Zenon
<1> QED BY <1>1, <1>4, Zenon

(* CONN_CREATE, when it waits for a socket and when it does not.           *)
LEMMA CreateKeepsMessages ==
  ASSUME TypeInv, MessageInv, svc_connection_create
  PROVE  MessageInv' /\ HeapStep
<1> DEFINE f == Head(inbox)
<1>1. /\ Deliver(SVC_INTF, {"CONN_CREATE"})
      /\ inbox' = Tail(inbox) /\ UNCHANGED <<th, unrouted>>
  BY DEF svc_connection_create
<1>2. inbox # <<>> /\ wq.pc = "idle" /\ f \in Frames /\ f.type = "CONN_CREATE"
  <2>1. inbox # <<>> /\ wq.pc = "idle" /\ f \in Frames /\ f.type \in {"CONN_CREATE"}
    BY <1>1, DeliverType, Zenon
  <2> QED BY <2>1
<1>3. RouteInv /\ TableInv(map)
  BY DEF MessageInv, RouteInv
<1>4. CreateFrame(f)
  BY <1>1, <1>2, <1>3, TailElements DEF RouteInv
<1>5. CASE ~Refused(f.to) /\ NeedsSocket(f.to)
  <2>1. /\ heap' = Filled /\ wq' = [pc |-> "connect", msg |-> Msg, frame |-> f]
        /\ UNCHANGED <<map, dropped, fault>>
    BY <1>5, Zenon DEF svc_connection_create
  <2>2. PcInv' /\ Owned(heap, Holds, unrouted)' /\ HeapStep
    BY <1>1, <2>1, WqTakes, Zenon
  <2>3. RouteInv'
    BY <1>1, <1>2, <1>3, <2>1, RouteTake
  <2> QED BY <2>2, <2>3 DEF MessageInv
<1>6. CASE Refused(f.to) \/ ~NeedsSocket(f.to)
  <2> DEFINE intf == gb_interface_find_by_id(f.to.id)
             ok == ~Refused(f.to)
  <2>1. Connect(f, Filled, Msg, intf, ok) /\ wq' = wq
    BY <1>6, Zenon DEF svc_connection_create
  <2>2. ok => f.to # Unconnected
    BY DEF Refused
  <2>3. intf \in {NULL, SVC_INTF, LOCAL_INTF} \cup NodeIds
    BY FoundType
  <2>4. intf = LOCAL_INTF => f.to.id = LOCAL_NODE_ID
    BY DEF gb_interface_find_by_id, NodeIds, SVC_INTF, LOCAL_INTF, NULL, LOCAL_NODE_ID, INTERFACE_ID_START, SVC_INF_ID
  <2>5. ok \in BOOLEAN
    BY DEF Refused
  <2> HIDE DEF f, intf, ok
  <2>6. TableInv(map') /\ \E added : response_helper(f, Filled, Msg, map', SVC_INF_ID, added)
    BY <1>2, <1>3, <1>4, <2>1, <2>2, <2>3, <2>4, <2>5, ConnectTable, Zenon
  <2>7. Routed(map', SVC_INF_ID, 0)
    BY <2>6, RoutedSvc
  <2>8. PcInv' /\ Owned(heap, Holds, unrouted)' /\ HeapStep
    BY <1>1, <2>1, <2>6, <2>7, AnswerKeepsMessages, Zenon DEF f
  <2>9. RouteInv'
    BY <1>1, <1>2, <1>3, <2>1, <2>6, RouteTake
  <2> QED BY <2>8, <2>9 DEF MessageInv
<1> QED BY <1>5, <1>6

(* The end of a CONN_CREATE that waited.                                   *)
LEMMA ReturnsKeepsMessages ==
  ASSUME TypeInv, MessageInv, node_connect_returns
  PROVE  MessageInv' /\ HeapStep
<1> DEFINE i == wq.frame.to.id
           f == wq.frame
<1>1. wq.pc = "connect" /\ f \in Frames /\ i \in NodeIds /\ fault = "none"
  BY DEF node_connect_returns, TypeInv, WqType, Works
<1>2. CASE node[i] = "none" /\ Dies("stale_interface")
  BY <1>1, <1>2, DiesKeepsMessages
<1>3. CASE ~(node[i] = "none" /\ Dies("stale_interface"))
  <2>1. PICK ok \in BOOLEAN :
          /\ Connect(wq.frame, heap, wq.msg, i, ok)
          /\ wq' = [pc |-> "idle", msg |-> NoMessage, frame |-> NoFrame]
          /\ UNCHANGED <<th, inbox, unrouted>>
    BY <1>3, Zenon DEF node_connect_returns, bounds
  <2>2. RouteInv /\ CreateFrame(f) /\ f.type = "CONN_CREATE" /\ heap \in SUBSET Blocks
    BY <1>1 DEF MessageInv, RouteInv, TypeInv, HeapType
  <2>3. f.to # Unconnected
    BY <1>1, Constants DEF Unconnected
  <2>4. i \in {NULL, SVC_INTF, LOCAL_INTF} \cup NodeIds /\ i # LOCAL_INTF
    BY <1>1 DEF NodeIds, INTERFACE_ID_START, LOCAL_INTF
  <2>5. TableInv(map') /\ \E added : response_helper(f, heap, wq.msg, map', SVC_INF_ID, added)
    BY <1>1, <2>1, <2>2, <2>3, <2>4, ConnectTable, Zenon
  <2>6. Routed(map', SVC_INF_ID, 0)
    BY <2>5, RoutedSvc
  <2>7. ~HasPayload(f.type)
    BY <2>2 DEF HasPayload, PayloadReplies, ControlPayloadReplies
  <2>8. fault' = fault /\ heap' = heap \ wq.msg /\ (dropped' # dropped => Blocks \subseteq heap)
    BY <2>2, <2>5, <2>6, <2>7, AnswerHeap, Zenon
  <2>9. HeapBlocks >= 4 /\ dropped' # dropped => unrouted > 0 \/ LongMessage
    <3>1. PICK x : wq.msg \subseteq {x}
      BY DEF MessageInv, PcInv
    <3> QED BY <2>8, <3>1, Crowded DEF MessageInv
  <2>10. PcInv' /\ Owned(heap, Holds, unrouted)' /\ HeapStep
    BY <1>1, <2>1, <2>8, <2>9, WqFrees
  <2>11. RouteInv'
    BY <2>1, <2>2, <2>5 DEF RouteInv
  <2> QED BY <2>10, <2>11 DEF MessageInv
<1> QED BY <1>2, <1>3

(* The other frames of the AP.                                             *)
LEMMA SvcResponseKeepsMessages ==
  ASSUME TypeInv, MessageInv, svc_response
  PROVE  MessageInv' /\ HeapStep
<1> DEFINE hello == Head(inbox).type = "VERSION_RESPONSE"
<1>1. Deliver(SVC_INTF, Responses \cup {"UNSUPPORTED"})
  BY DEF svc_response
<1>2. inbox # <<>> /\ wq.pc = "idle" /\ Msg \in Short(heap) /\ Filled \in SUBSET Blocks /\ fault = "none"
  BY <1>1, DeliverType, Zenon
<1>3. RouteInv /\ TableInv(map) /\ wq.msg = NoMessage
  BY <1>2 DEF MessageInv, RouteInv, PcInv
<1>4. CASE hello /\ gb_message_alloc(Filled, 1) = NoMessage
  <2>1. Dies("null_copy")
    BY <1>4, Zenon DEF svc_response
  <2>2. PICK x : Msg = {x}
    BY <1>2 DEF Short
  <2>3. Blocks \subseteq heap \cup {x} /\ wq.msg \subseteq {x}
    BY <1>2, <1>3, <1>4, <2>2, AllocShort DEF Filled, NoMessage
  <2> QED BY <1>2, <2>1, <2>3, DiesKeepsMessages
<1>5. CASE ~hello \/ gb_message_alloc(Filled, 1) # NoMessage
  <2>1. inbox' = Tail(inbox) /\ UNCHANGED <<map, wq, th, dropped, unrouted, fault>>
    BY <1>5 DEF svc_response, CopiesToNull
  <2>2. heap' = Filled \ Msg
    <3>1. CASE ~hello
      BY <3>1 DEF svc_response, gb_message_dealloc
    <3>2. CASE hello
      <4>1. control_send_request("SVC_HELLO", Filled, Msg) /\ gb_message_alloc(Filled, 1) # NoMessage
        BY <1>5, <3>2 DEF svc_response, CopiesToNull
      <4> QED BY <1>2, <1>3, <4>1, RequestHeap
    <3> QED BY <3>1, <3>2
  <2>3. heap' = heap
    BY <1>2, <2>2 DEF Filled, Short
  <2>4. RouteInv'
    BY <1>2, <1>3, <2>1, RouteTake
  <2> QED BY <2>1, <2>3, <2>4, Quiet DEF MessageInv, HeapStep
<1> QED BY <1>4, <1>5

(* A frame for a cport that the SVC does not have: its message is lost.    *)
LEMMA UnknownKeepsMessages ==
  ASSUME TypeInv, MessageInv, svc_unknown_cport
  PROVE  MessageInv' /\ HeapStep
<1>1. /\ Deliver(SVC_INTF, GreybusTypes)
      /\ heap' = Filled /\ unrouted' = unrouted + 1 /\ inbox' = Tail(inbox)
      /\ UNCHANGED <<map, wq, th, dropped, fault>>
  BY DEF svc_unknown_cport
<1>2. inbox # <<>> /\ wq.pc = "idle" /\ Msg \in Short(heap)
  BY <1>1, DeliverType, Zenon
<1>3. RouteInv /\ TableInv(map)
  BY DEF MessageInv, RouteInv
<1>4. RouteInv'
  BY <1>1, <1>2, <1>3, RouteTake
<1>5. Owned(heap \cup Msg, Holds, unrouted + 1)
  BY <1>2, OwnedLose DEF MessageInv
<1>6. Holds' = Holds
  BY <1>1 DEF Holds, Contexts, Held
<1>7. Owned(heap, Holds, unrouted)'
  BY <1>1, <1>5, <1>6 DEF Filled
<1>8. PcInv'
  BY <1>1 DEF MessageInv, PcInv
<1> QED BY <1>1, <1>4, <1>7, <1>8 DEF MessageInv, HeapStep

(* Requests to the local node.                                             *)
LEMMA LocalKeepsMessages ==
  ASSUME TypeInv, MessageInv, local_node_write
  PROVE  MessageInv' /\ HeapStep
<1>1. /\ Deliver(LOCAL_INTF, GreybusTypes) /\ inbox' = Tail(inbox)
      /\ UNCHANGED <<map, wq, th, unrouted>>
  BY DEF local_node_write
<1>2. inbox # <<>> /\ wq.pc = "idle" /\ Msg \in Short(heap) /\ Head(inbox).cport \in ApCports
      /\ Entry.node_intf = LOCAL_INTF
  BY <1>1, DeliverType, Zenon
<1>3. RouteInv /\ TableInv(map)
  BY DEF MessageInv, RouteInv
<1>4. RouteInv'
  BY <1>1, <1>2, <1>3, RouteTake
<1>5. PcInv' /\ Owned(heap, Holds, unrouted)' /\ HeapStep
  <2>1. CASE response_helper(Head(inbox), Filled, Msg, map, LOCAL_NODE_ID, TRUE)
    <3>1. Routed(map, LOCAL_NODE_ID, 0)
      BY <1>2, <1>3, RoutedLocal DEF Entry
    <3> QED BY <1>1, <2>1, <3>1, AnswerKeepsMessages, Zenon
  <2>2. CASE heap' = gb_message_dealloc(Filled, Msg) /\ UNCHANGED <<ap, dropped, fault>>
    <3>1. heap' = heap
      BY <1>2, <2>2 DEF Filled, gb_message_dealloc, Short
    <3> QED BY <1>1, <2>2, <3>1, Quiet DEF HeapStep
  <2> QED BY <2>1, <2>2, Zenon DEF local_node_write
<1> QED BY <1>4, <1>5 DEF MessageInv

(* wq begins to write to a node.                                           *)
LEMMA WriteKeepsMessages ==
  ASSUME TypeInv, MessageInv, node_inf_write
  PROVE  MessageInv' /\ HeapStep
<1>1. PICK i \in NodeIds : Deliver(i, GreybusTypes)
  BY DEF node_inf_write
<1>2. inbox # <<>> /\ wq.pc = "idle" /\ fault = "none"
  BY <1>1, DeliverType, Zenon
<1>3. RouteInv /\ TableInv(map)
  BY DEF MessageInv, RouteInv
<1>4. CASE node[Entry.node_intf] = "linked"
  <2>1. /\ heap' = Filled /\ wq' = [pc |-> "write", msg |-> Msg, frame |-> Head(inbox)]
        /\ inbox' = Tail(inbox) /\ UNCHANGED <<map, th, dropped, unrouted, fault>>
    BY <1>4, Zenon DEF node_inf_write
  <2>2. PcInv' /\ Owned(heap, Holds, unrouted)' /\ HeapStep
    BY <1>1, <2>1, WqTakes, Zenon
  <2>3. RouteInv'
    BY <1>2, <1>3, <2>1, RouteTake
  <2> QED BY <2>2, <2>3 DEF MessageInv
<1>5. CASE node[Entry.node_intf] # "linked"
  <2>1. Dies("stale_interface")
    BY <1>5, Zenon DEF node_inf_write
  <2> QED BY <1>2, <2>1, DiesKeepsMessages
<1> QED BY <1>4, <1>5

(* The write returns.                                                      *)
LEMMA WrittenKeepsMessages ==
  ASSUME TypeInv, MessageInv, node_write_returns
  PROVE  MessageInv' /\ HeapStep
<1> DEFINE why == IF CopiesToNull(gb_message_alloc(heap, 1), TRUE) THEN "null_copy" ELSE "stale_interface"
<1>1. fault = "none" /\ wq.pc = "write" /\ heap \in SUBSET Blocks /\ RouteInv
  BY DEF node_write_returns, TypeInv, HeapType, MessageInv
<1>2. CASE Dies(why)
  <2>1. why = "null_copy" => Blocks \subseteq heap
    BY <1>1, AllocShort DEF CopiesToNull
  <2>2. \E x : wq.msg \subseteq {x}
    BY DEF MessageInv, PcInv
  <2> HIDE DEF why
  <2> QED BY <1>1, <1>2, <2>1, <2>2, DiesKeepsMessages
<1>3. CASE ~Dies(why)
  <2>1. /\ heap' = heap \ wq.msg /\ wq' = [pc |-> "idle", msg |-> NoMessage, frame |-> NoFrame]
        /\ UNCHANGED <<map, th, inbox, dropped, unrouted, fault>>
    BY <1>3, Zenon DEF node_write_returns, gb_message_dealloc
  <2>2. PcInv' /\ Owned(heap, Holds, unrouted)' /\ HeapStep
    BY <1>1, <2>1, WqFrees
  <2>3. RouteInv'
    BY <1>1, <2>1 DEF RouteInv
  <2> QED BY <2>2, <2>3 DEF MessageInv
<1> QED BY <1>2, <1>3

(* Threads: the three things a thread does with its message.               *)
LEMMA ThreadTakes ==
  ASSUME TypeInv, MessageInv, NEW t \in {"rx", "disc"}, NEW b \in SUBSET (Blocks \ heap), b # NoMessage,
         t = "disc" => b \in Short(heap), NEW pc \in {"payload", "send"},
         th[t].msg = NoMessage, heap' = heap \cup b,
         th'[t].msg = b, th'[t].pc = pc, \A u \in {"rx", "disc"} : u # t => th'[u] = th[u],
         UNCHANGED <<map, inbox, wq, unrouted, dropped, fault>>
  PROVE  MessageInv' /\ HeapStep
<1>1. Holds[t] = NoMessage /\ t \in Contexts /\ t # "wq"
  BY DEF Holds, Contexts, Held
<1>2. Held(t)' = b
  BY DEF Held
<1>3. Holds' = [Holds EXCEPT ![t] = b]
  BY <1>1, <1>2, HoldsNext, HeldSame
<1>4. Owned(heap \cup b, [Holds EXCEPT ![t] = b], unrouted)
  BY <1>1, OwnedTake DEF MessageInv
<1>5. Owned(heap, Holds, unrouted)'
  BY <1>3, <1>4
<1>6. t = "disc" => \E x : b \subseteq {x}
  BY DEF Short
<1>7. PcInv'
  BY <1>6 DEF MessageInv, PcInv, HasMessage
<1>8. RouteInv'
  BY RouteSame DEF MessageInv
<1> QED BY <1>5, <1>7, <1>8 DEF MessageInv, HeapStep

(* rx or disc gives up its message: it is freed or it is lost.  Once it is *)
(* sent the thread keeps a pointer to it for one more step.                *)
LEMMA ThreadFrees ==
  ASSUME TypeInv, MessageInv, NEW t \in {"rx", "disc"}, th[t].pc \in {"payload", "send"},
         \/ heap' = heap \ th[t].msg /\ unrouted' = unrouted
         \/ heap' = heap /\ unrouted' = unrouted + Cardinality(th[t].msg),
         \/ th'[t].msg = NoMessage /\ th'[t].pc \notin HasMessage
         \/ th'[t].msg = th[t].msg /\ th'[t].pc = "sent",
         \A u \in {"rx", "disc"} : u # t => th'[u] = th[u],
         UNCHANGED <<map, inbox, wq, dropped, fault>>
  PROVE  MessageInv' /\ HeapStep
<1>1. Holds[t] = th[t].msg /\ t \in Contexts /\ t # "wq" /\ th[t].msg # NoMessage
  BY DEF Holds, Contexts, Held, MessageInv, PcInv, HasMessage
<1>2. Held(t)' = NoMessage
  BY DEF Held
<1>3. Holds' = [Holds EXCEPT ![t] = NoMessage]
  BY <1>1, <1>2, HoldsNext, HeldSame
<1>4. Owned(heap \ Holds[t], [Holds EXCEPT ![t] = NoMessage], unrouted)
      /\ Owned(heap, [Holds EXCEPT ![t] = NoMessage], unrouted + Cardinality(Holds[t]))
  BY <1>1, OwnedFree, OwnedForget DEF MessageInv
<1>5. Owned(heap, Holds, unrouted)'
  BY <1>1, <1>3, <1>4
<1>6. PcInv'
  BY <1>1 DEF MessageInv, PcInv, HasMessage, NoMessage
<1>7. RouteInv'
  BY RouteSame DEF MessageInv
<1> QED BY <1>5, <1>6, <1>7 DEF MessageInv, HeapStep

(* Steps of a thread that holds no message, before and after.              *)
LEMMA ThreadIdles ==
  ASSUME TypeInv, MessageInv, NEW t \in {"rx", "disc"}, th[t].pc \notin {"payload", "send"},
         th'[t].msg = NoMessage, th'[t].pc \notin HasMessage,
         \A u \in {"rx", "disc"} : u # t => th'[u] = th[u],
         UNCHANGED <<heap, unrouted, map, inbox, wq, dropped, fault>>
  PROVE  MessageInv' /\ HeapStep
<1>1. RouteInv'
  BY RouteSame DEF MessageInv
<1>2. Held(t)' = Held(t)
  BY DEF Held, MessageInv, PcInv, HasMessage
<1>3. Holds' = Holds
  BY <1>2, HeldSame DEF Holds, Contexts
<1>4. Owned(heap, Holds, unrouted)'
  BY <1>3 DEF MessageInv
<1>5. PcInv'
  BY DEF MessageInv, PcInv, NoMessage
<1> QED BY <1>1, <1>4, <1>5 DEF MessageInv, HeapStep

(* A node appears.                                                         *)
LEMMA FilterKeepsMessages ==
  ASSUME TypeInv, MessageInv, node_filter \/ node_cache_add
  PROVE  MessageInv' /\ HeapStep
<1>1. th["disc"].pc \in {"idle", "cache"} /\ UNCHANGED <<heap, unrouted, map, inbox, wq, dropped, fault>>
  BY DEF node_filter, node_cache_add, Runs, rest
<1>2. \/ \E i : th' = [th EXCEPT !["disc"].pc = "cache", !["disc"].node = i]
      \/ th' = [th EXCEPT !["disc"].pc = "MODULE_INSERTED"]
  BY Zenon DEF node_filter, node_cache_add
<1>3. th \in [{"rx", "disc"} -> Threads] /\ th["disc"].msg = NoMessage
  BY <1>1, ThreadFields DEF MessageInv, PcInv, HasMessage
<1>4. /\ th'["rx"] = th["rx"]
      /\ th'["disc"].msg = NoMessage /\ th'["disc"].pc \in {"cache", "MODULE_INSERTED"}
  BY <1>2, <1>3 DEF Threads
<1> QED BY <1>1, <1>4, ThreadIdles DEF HasMessage

(* rx reads a header.                                                      *)
LEMMA ReceiveKeepsMessages ==
  ASSUME TypeInv, MessageInv, NEW i \in NodeIds, gb_message_receive(i)
  PROVE  MessageInv' /\ HeapStep
<1>1. th["rx"].pc = "idle" /\ UNCHANGED <<map, inbox, wq, unrouted, dropped, fault>>
  BY DEF gb_message_receive, rest, Runs
<1>2. th \in [{"rx", "disc"} -> Threads] /\ heap \in SUBSET Blocks /\ th["rx"].msg = NoMessage
  BY <1>1, ThreadFields DEF TypeInv, HeapType, MessageInv, PcInv, HasMessage
<1>3. ASSUME NEW n \in 1..HeapBlocks, gb_message_alloc(heap, n) # NoMessage,
             heap' = heap \cup gb_message_alloc(heap, n),
             th' = [th EXCEPT !["rx"].pc = "payload", !["rx"].node = i,
                              !["rx"].msg = gb_message_alloc(heap, n)]
      PROVE  MessageInv' /\ HeapStep
  <2> DEFINE b == gb_message_alloc(heap, n)
  <2>1. b \in SUBSET (Blocks \ heap) /\ b # NoMessage /\ heap' = heap \cup b
    BY <1>2, <1>3, AllocType
  <2>2. th' = [th EXCEPT !["rx"].pc = "payload", !["rx"].node = i, !["rx"].msg = b]
    BY <1>3
  <2> HIDE DEF b
  <2>3. th'["disc"] = th["disc"] /\ th'["rx"].msg = b /\ th'["rx"].pc = "payload"
    BY <1>2, <2>2 DEF Threads
  <2> QED BY <1>1, <1>2, <2>1, <2>3, ThreadTakes
<1>4. CASE /\ th' = [th EXCEPT !["rx"].pc = "MODULE_REMOVED", !["rx"].node = i]
           /\ UNCHANGED heap
  <2>1. th'["disc"] = th["disc"] /\ th'["rx"].msg = NoMessage /\ th'["rx"].pc = "MODULE_REMOVED"
    BY <1>2, <1>4 DEF Threads
  <2> QED BY <1>1, <1>4, <2>1, ThreadIdles DEF HasMessage
<1> QED BY <1>3, <1>4, Zenon DEF gb_message_receive

(* rx has the payload, or not.                                             *)
LEMMA PayloadKeepsMessages ==
  ASSUME TypeInv, MessageInv, rx_payload_complete \/ rx_payload_cut
  PROVE  MessageInv' /\ HeapStep
<1>1. th["rx"].pc = "payload" /\ UNCHANGED <<map, inbox, wq, dropped, fault>>
  BY DEF rx_payload_complete, rx_payload_cut, rest, Runs
<1>2. th \in [{"rx", "disc"} -> Threads]
  BY ThreadFields
<1>3. \/ heap' = heap \ th["rx"].msg /\ unrouted' = unrouted
      \/ heap' = heap /\ unrouted' = unrouted + Cardinality(th["rx"].msg)
  BY DEF rx_payload_complete, rx_payload_cut, send_to_ap, ap_send, gb_message_dealloc
<1>4. \/ th' = [th EXCEPT !["rx"].pc = "MODULE_REMOVED", !["rx"].msg = NoMessage]
      \/ th' = [th EXCEPT !["rx"] = Resting]
  BY DEF rx_payload_complete, rx_payload_cut
<1>5. th'["disc"] = th["disc"] /\ th'["rx"].msg = NoMessage /\ th'["rx"].pc \in {"idle", "MODULE_REMOVED"}
  <2>1. CASE th' = [th EXCEPT !["rx"].pc = "MODULE_REMOVED", !["rx"].msg = NoMessage]
    BY <1>2, <2>1 DEF Threads
  <2>2. CASE th' = [th EXCEPT !["rx"] = Resting]
    BY <1>2, <2>2 DEF Resting
  <2> QED BY <1>4, <2>1, <2>2
<1> QED BY <1>1, <1>3, <1>5, ThreadFrees DEF HasMessage

(* A step of a request that rx or disc makes.                              *)
LEMMA RequestStepKeepsMessages ==
  ASSUME TypeInv, MessageInv, NEW t \in {"rx", "disc"}, RequestStep(t)
  PROVE  MessageInv' /\ HeapStep
<1>1. th \in [{"rx", "disc"} -> Threads] /\ heap \in SUBSET Blocks
  BY ThreadFields DEF TypeInv, HeapType
<1>2. CASE new_operation_id(t)
  <2>1. PICK pc \in {"reset", "alloc"} : th' = [th EXCEPT ![t].op = Len(ops) + 1, ![t].pc = pc]
    BY <1>2 DEF new_operation_id
  <2>2. th[t].pc \in {"MODULE_INSERTED", "MODULE_REMOVED"}
        /\ UNCHANGED <<heap, unrouted, map, inbox, wq, dropped, fault>>
    BY <1>2 DEF new_operation_id, rest, Runs
  <2>3. th[t].msg = NoMessage
    BY <2>2 DEF MessageInv, PcInv, HasMessage
  <2>4. th'[t].msg = NoMessage /\ th'[t].pc = pc /\ \A u \in {"rx", "disc"} : u # t => th'[u] = th[u]
    BY <1>1, <2>1, <2>3 DEF Threads
  <2> QED BY <2>2, <2>4, ThreadIdles DEF HasMessage
<1>3. CASE operation_id_reset(t)
  <2>1. th' = [th EXCEPT ![t].pc = "alloc"] /\ th[t].pc = "reset"
        /\ UNCHANGED <<heap, unrouted, map, inbox, wq, dropped, fault>>
    BY <1>3 DEF operation_id_reset, rest, Runs
  <2>2. th[t].msg = NoMessage
    BY <2>1 DEF MessageInv, PcInv, HasMessage
  <2>3. th'[t].msg = NoMessage /\ th'[t].pc = "alloc" /\ \A u \in {"rx", "disc"} : u # t => th'[u] = th[u]
    BY <1>1, <2>1, <2>2 DEF Threads
  <2> QED BY <2>1, <2>3, ThreadIdles DEF HasMessage
<1>4. CASE gb_message_request_alloc(t)
  <2> DEFINE b == gb_message_alloc(heap, 1)
  <2>1. th[t].pc = "alloc" /\ fault = "none" /\ th[t].msg = NoMessage
    BY <1>4 DEF gb_message_request_alloc, Runs, MessageInv, PcInv, HasMessage
  <2>2. CASE b = NoMessage
    <3>1. Dies("null_copy")
      BY <1>4, <2>2 DEF gb_message_request_alloc
    <3>2. Blocks \subseteq heap
      BY <1>1, <2>2, AllocShort
    <3>3. \E x : wq.msg \subseteq {x}
      BY DEF MessageInv, PcInv
    <3> QED BY <2>1, <3>1, <3>2, <3>3, DiesKeepsMessages
  <2>3. CASE b # NoMessage
    <3>1. /\ heap' = heap \cup b /\ th' = [th EXCEPT ![t].pc = "send", ![t].msg = b]
          /\ UNCHANGED <<unrouted, map, inbox, wq, dropped, fault>>
      BY <1>4, <2>3 DEF gb_message_request_alloc, rest, CopiesToNull
    <3>2. b \in Short(heap) /\ b \in SUBSET (Blocks \ heap)
      BY <1>1, <2>3, AllocShort, AllocType
    <3> HIDE DEF b
    <3>3. th'[t].msg = b /\ th'[t].pc = "send" /\ \A u \in {"rx", "disc"} : u # t => th'[u] = th[u]
      BY <1>1, <3>1 DEF Threads
    <3> QED BY <2>1, <2>3, <3>1, <3>2, <3>3, ThreadTakes
  <2> QED BY <2>2, <2>3
<1>5. CASE module_request_sent(t)
  <2>1. /\ th[t].pc = "send"
        /\ heap' = send_to_ap(heap, map, SVC_INF_ID, 0, th[t].msg)
        /\ th' = [th EXCEPT ![t].pc = "sent"]
        /\ UNCHANGED <<unrouted, map, inbox, wq, dropped, fault>>
    BY <1>5 DEF module_request_sent, Runs, rest
  <2>2. Routed(map, SVC_INF_ID, 0)
    BY RoutedSvc DEF MessageInv, RouteInv
  <2>3. heap' = heap \ th[t].msg
    BY <2>1, <2>2 DEF send_to_ap, ap_send, gb_message_dealloc
  <2>4. th'[t].msg = th[t].msg /\ th'[t].pc = "sent" /\ \A u \in {"rx", "disc"} : u # t => th'[u] = th[u]
    BY <1>1, <2>1 DEF Threads
  <2> QED BY <2>1, <2>3, <2>4, ThreadFrees
<1>6. CASE module_request_returns(t)
  <2>1. th[t].pc = "sent" /\ fault = "none"
    BY <1>6 DEF module_request_returns, Runs
  <2>2. CASE Dies("stale_interface")
    BY <2>1, <2>2, DiesKeepsMessages
  <2>3. CASE ~Dies("stale_interface")
    <3>1. /\ th' = [th EXCEPT ![t] = Resting]
          /\ UNCHANGED <<heap, unrouted, map, inbox, wq, dropped, fault>>
      BY <1>6, <2>3 DEF module_request_returns, rest
    <3>2. th'[t].msg = NoMessage /\ th'[t].pc = "idle" /\ \A u \in {"rx", "disc"} : u # t => th'[u] = th[u]
      BY <1>1, <3>1 DEF Resting
    <3> QED BY <2>1, <3>1, <3>2, ThreadIdles DEF HasMessage
  <2> QED BY <2>2, <2>3
<1> QED BY <1>2, <1>3, <1>4, <1>5, <1>6 DEF RequestStep

(* The frames of the AP.                                                   *)
ApStep ==
  \/ ap_start \/ ap_stop
  \/ \E o \in DOMAIN ops : ap_answers(o)
  \/ \E ty \in Types : ap_asks(ty)

(* What the AP asks, by kind: f is a request of type ty.                   *)
AskKind(f, ty, answered) ==
  \/ /\ ty \in (SvcReplies \cup {"UNSUPPORTED"}) \ {"CONN_CREATE", "CONN_DESTROY"}
     /\ f.cport = 0 /\ f.c = 0 /\ f.to = Unconnected /\ (answered <=> ty # "UNSUPPORTED")
  \/ /\ ty = "CONN_CREATE" /\ f.cport = 0 /\ f.c # 0 /\ f.to \in Targets \cup {Unconnected}
     /\ \A d \in ApCports : ~Busy(d) \/ d = 0
     /\ ap.conn[f.c] = Unconnected
     /\ answered
  \/ /\ ty = "CONN_DESTROY" /\ f.cport = 0 /\ f.c # 0 /\ f.to = ap.conn[f.c]
     /\ ap.conn[f.c] # Unconnected /\ ~Busy(f.c)
     /\ answered
  \/ /\ ty = "CONN_DESTROY" /\ f.cport = 0 /\ f.c = 0 /\ f.to = SvcTarget
     /\ ap.wait = {} /\ answered
  \/ /\ ty \in ControlReplies \cup {"DATA"} /\ f.cport # 0 /\ f.c = 0 /\ f.to = Unconnected
     /\ ap.conn[f.cport] # Unconnected /\ ~Busy(f.cport)
     /\ (ty \in ControlReplies => ap.conn[f.cport].id = LOCAL_NODE_ID)
     /\ (answered <=> ty # "DATA")

(* Every frame that the AP asks with is of one kind.                       *)
LEMMA AsksFrame ==
  ASSUME TypeInv, NEW ty \in Types, ap_asks(ty)
  PROVE  \E f \in Frames, answered \in BOOLEAN :
           /\ Ask(f, answered) /\ f.type = ty /\ ty \in GreybusTypes /\ f.id = asks + 1
           /\ AskKind(f, ty, answered)
<1>1. ap.conn \in [ApCports -> Targets \cup {Unconnected, SvcTarget}]
  BY DEF TypeInv, HostType, Hosts
<1> DEFINE Fr(c1, c2, to) == Frame(ty, c1, asks + 1, c2, to)
<1>2. ASSUME asks + 1 \in 0..MaxAsks, ty \in GreybusTypes, NEW c1 \in ApCports, NEW c2 \in ApCports,
             NEW to \in Targets \cup {Unconnected, SvcTarget}
      PROVE  /\ Fr(c1, c2, to) \in Frames /\ Fr(c1, c2, to).type = ty /\ Fr(c1, c2, to).id = asks + 1
             /\ Fr(c1, c2, to).cport = c1 /\ Fr(c1, c2, to).c = c2 /\ Fr(c1, c2, to).to = to
  BY <1>2 DEF Frame, Frames
<1>3. ASSUME NEW f, NEW a, Ask(f, a) PROVE asks + 1 \in 0..MaxAsks
  BY <1>3, SvcAssumption DEF Ask, TypeInv, CountType
<1> HIDE DEF Fr
<1>4. CASE /\ ty \in (SvcReplies \cup {"UNSUPPORTED"}) \ {"CONN_CREATE", "CONN_DESTROY"}
           /\ Ask(Fr(0, 0, Unconnected), ty # "UNSUPPORTED")
  <2>1. ty \in GreybusTypes /\ (ty # "UNSUPPORTED") \in BOOLEAN
    BY <1>4, Zenon DEF GreybusTypes
  <2>2. asks + 1 \in 0..MaxAsks
    BY <1>3, <1>4, <2>1
  <2>3. Fr(0, 0, Unconnected) \in Frames /\ Fr(0, 0, Unconnected).type = ty /\ Fr(0, 0, Unconnected).id = asks + 1
        /\ Fr(0, 0, Unconnected).cport = 0 /\ Fr(0, 0, Unconnected).c = 0 /\ Fr(0, 0, Unconnected).to = Unconnected
    BY <1>1, <1>2, <2>1, <2>2, ApCportZero
  <2>4. AskKind(Fr(0, 0, Unconnected), ty, ty # "UNSUPPORTED")
    BY <1>4, <2>1, <2>3, Zenon DEF AskKind
  <2> QED BY <1>4, <2>1, <2>3, <2>4, Zenon
<1>5. CASE /\ ty = "CONN_CREATE"
           /\ \E c \in ApCports \ {0}, to \in Targets \cup {Unconnected} :
                /\ \A d \in ApCports : ~Busy(d) \/ d = 0
                /\ ap.conn[c] = Unconnected
                /\ Ask(Fr(0, c, to), TRUE)
  <2>1. ty \in GreybusTypes
    BY <1>5, Zenon DEF GreybusTypes, SvcReplies, EmptyReplies
  <2>2. PICK c \in ApCports \ {0}, to \in Targets \cup {Unconnected} :
                /\ \A d \in ApCports : ~Busy(d) \/ d = 0
                /\ ap.conn[c] = Unconnected
                /\ Ask(Fr(0, c, to), TRUE)
    BY <1>5
  <2>3. c \in ApCports /\ c # 0 /\ to \in Targets \cup {Unconnected, SvcTarget}
    BY <2>2
  <2>4. asks + 1 \in 0..MaxAsks
    BY <1>3, <1>5, <2>1, <2>2, <2>3
  <2>5. Fr(0, c, to) \in Frames /\ Fr(0, c, to).type = ty /\ Fr(0, c, to).id = asks + 1
        /\ Fr(0, c, to).cport = 0 /\ Fr(0, c, to).c = c /\ Fr(0, c, to).to = to
    BY <1>1, <1>2, <2>1, <2>2, <2>3, <2>4, ApCportZero
  <2>6. AskKind(Fr(0, c, to), ty, TRUE)
    BY <1>5, <2>1, <2>2, <2>3, <2>5, Zenon DEF AskKind
  <2> QED BY <1>5, <2>1, <2>2, <2>3, <2>5, <2>6, Zenon
<1>6. CASE /\ ty = "CONN_DESTROY"
           /\ \E c \in ApCports \ {0} :
                /\ ap.conn[c] # Unconnected /\ ~Busy(c)
                /\ Ask(Fr(0, c, ap.conn[c]), TRUE)
  <2>1. ty \in GreybusTypes
    BY <1>6, Zenon DEF GreybusTypes, SvcReplies, EmptyReplies
  <2>2. PICK c \in ApCports \ {0} :
                /\ ap.conn[c] # Unconnected /\ ~Busy(c)
                /\ Ask(Fr(0, c, ap.conn[c]), TRUE)
    BY <1>6
  <2>3. c \in ApCports /\ c # 0 /\ ap.conn[c] \in Targets \cup {Unconnected, SvcTarget}
    BY <1>1, <2>2
  <2>4. asks + 1 \in 0..MaxAsks
    BY <1>3, <1>6, <2>1, <2>2, <2>3
  <2>5. Fr(0, c, ap.conn[c]) \in Frames /\ Fr(0, c, ap.conn[c]).type = ty /\ Fr(0, c, ap.conn[c]).id = asks + 1
        /\ Fr(0, c, ap.conn[c]).cport = 0 /\ Fr(0, c, ap.conn[c]).c = c /\ Fr(0, c, ap.conn[c]).to = ap.conn[c]
    BY <1>1, <1>2, <2>1, <2>2, <2>3, <2>4, ApCportZero
  <2>6. AskKind(Fr(0, c, ap.conn[c]), ty, TRUE)
    BY <1>6, <2>1, <2>2, <2>3, <2>5, Zenon DEF AskKind
  <2> QED BY <1>6, <2>1, <2>2, <2>3, <2>5, <2>6, Zenon
<1>7. CASE /\ ty = "CONN_DESTROY" /\ ap.wait = {}
           /\ Ask(Fr(0, 0, SvcTarget), TRUE)
  <2>1. ty \in GreybusTypes
    BY <1>7, Zenon DEF GreybusTypes, SvcReplies, EmptyReplies
  <2>2. asks + 1 \in 0..MaxAsks
    BY <1>3, <1>7, <2>1
  <2>3. Fr(0, 0, SvcTarget) \in Frames /\ Fr(0, 0, SvcTarget).type = ty /\ Fr(0, 0, SvcTarget).id = asks + 1
        /\ Fr(0, 0, SvcTarget).cport = 0 /\ Fr(0, 0, SvcTarget).c = 0 /\ Fr(0, 0, SvcTarget).to = SvcTarget
    BY <1>1, <1>2, <2>1, <2>2, ApCportZero
  <2>4. AskKind(Fr(0, 0, SvcTarget), ty, TRUE)
    BY <1>7, <2>1, <2>3, Zenon DEF AskKind
  <2> QED BY <1>7, <2>1, <2>3, <2>4, Zenon
<1>8. CASE /\ ty \in ControlReplies \cup {"DATA"}
           /\ \E c \in ApCports \ {0} :
                /\ ap.conn[c] # Unconnected /\ ~Busy(c)
                /\ ty \in ControlReplies => ap.conn[c].id = LOCAL_NODE_ID
                /\ Ask(Fr(c, 0, Unconnected), ty # "DATA")
  <2>1. ty \in GreybusTypes /\ (ty # "DATA") \in BOOLEAN
    BY <1>8, Zenon DEF GreybusTypes
  <2>2. PICK c \in ApCports \ {0} :
                /\ ap.conn[c] # Unconnected /\ ~Busy(c)
                /\ ty \in ControlReplies => ap.conn[c].id = LOCAL_NODE_ID
                /\ Ask(Fr(c, 0, Unconnected), ty # "DATA")
    BY <1>8
  <2>3. c \in ApCports /\ c # 0
    BY <2>2
  <2>4. asks + 1 \in 0..MaxAsks
    BY <1>3, <1>8, <2>1, <2>2, <2>3
  <2>5. Fr(c, 0, Unconnected) \in Frames /\ Fr(c, 0, Unconnected).type = ty /\ Fr(c, 0, Unconnected).id = asks + 1
        /\ Fr(c, 0, Unconnected).cport = c /\ Fr(c, 0, Unconnected).c = 0 /\ Fr(c, 0, Unconnected).to = Unconnected
    BY <1>1, <1>2, <2>1, <2>2, <2>3, <2>4, ApCportZero
  <2>6. AskKind(Fr(c, 0, Unconnected), ty, ty # "DATA")
    BY <1>8, <2>1, <2>2, <2>3, <2>5, Zenon DEF AskKind
  <2> QED BY <1>8, <2>1, <2>2, <2>3, <2>5, <2>6, Zenon
<1> QED BY <1>4, <1>5, <1>6, <1>7, <1>8, Zenon DEF ap_asks, Fr

(* The AP adds frames to the queue and touches no message.                 *)
LEMMA HostKeepsMessages ==
  ASSUME TypeInv, MessageInv, ApStep
  PROVE  MessageInv' /\ HeapStep
<1>1. \E f \in Frames : Post(f) /\ CreateFrame(f) /\ UNCHANGED firmware
  <2>1. CASE ap_start \/ ap_stop
    <3>1. PICK ty \in {"START", "STOP"} : Post(Command(ty)) /\ UNCHANGED firmware
      BY <2>1 DEF ap_start, ap_stop
    <3>2. Command(ty) \in Frames /\ Command(ty).type = ty
      BY Constants DEF Command, Frame
    <3> QED BY <3>1, <3>2 DEF CreateFrame
  <2>2. CASE \E o \in DOMAIN ops : ap_answers(o)
    <3>1. PICK o \in DOMAIN ops : ap_answers(o)
      BY <2>2
    <3> DEFINE ty == Response[ops[o].type]
    <3>2. Post(Command(ty)) /\ UNCHANGED firmware
      BY <3>1 DEF ap_answers, Command
    <3>3. ops[o] \in Requests
      BY ElementOfSeq, LenProperties DEF TypeInv, OpsType
    <3>4. ty \in Responses
      BY <3>3 DEF Requests, Responses
    <3>5. ty # "CONN_CREATE"
      BY <3>4 DEF Responses, Response
    <3> HIDE DEF ty
    <3>6. Command(ty) \in Frames /\ Command(ty).type = ty
      BY <3>4, Constants DEF Command, Frame, GreybusTypes
    <3> QED BY <3>2, <3>5, <3>6 DEF CreateFrame
  <2>3. CASE \E ty \in Types : ap_asks(ty)
    <3>1. PICK ty \in Types : ap_asks(ty)
      BY <2>3
    <3>2. PICK f \in Frames, answered \in BOOLEAN :
            Ask(f, answered) /\ f.type = ty /\ AskKind(f, ty, answered)
      BY <3>1, AsksFrame
    <3>3. Post(f) /\ UNCHANGED firmware
      BY <3>2 DEF Ask
    <3>4. CreateFrame(f)
      <4>1. SUFFICES ASSUME ty = "CONN_CREATE" PROVE f.c # 0 /\ f.to \in Targets \cup {Unconnected}
        BY <3>2 DEF CreateFrame
      <4>2. ty \notin ControlReplies \cup {"DATA"} /\ ty # "CONN_DESTROY"
        BY <4>1 DEF ControlReplies, ControlEmptyReplies, ControlPayloadReplies
      <4> QED BY <3>2, <4>1, <4>2, Zenon DEF AskKind
    <3> QED BY <3>3, <3>4
  <2> QED BY <2>1, <2>2, <2>3 DEF ApStep
<1>2. PICK f \in Frames : Post(f) /\ CreateFrame(f) /\ UNCHANGED firmware
  BY <1>1
<1>3. UNCHANGED <<heap, unrouted, map, wq, th, dropped, fault>>
  BY <1>2 DEF firmware
<1>4. RouteInv'
  BY <1>2, <1>3, RoutePost DEF MessageInv
<1> QED BY <1>3, <1>4, Quiet DEF MessageInv, HeapStep

(* The invariant is inductive, relative to the types.                      *)
LEMMA MessageNext == TypeInv /\ MessageInv /\ [Next]_vars => MessageInv' /\ HeapStep
<1> SUFFICES ASSUME TypeInv, MessageInv, [Next]_vars PROVE MessageInv' /\ HeapStep
  OBVIOUS
<1>1. CASE WqStep
  BY <1>1, CommandKeepsMessages, DroppedKeepsMessages, SvcRequestKeepsMessages, CreateKeepsMessages,
     DestroyKeepsMessages, SvcResponseKeepsMessages, UnknownKeepsMessages, LocalKeepsMessages,
     WriteKeepsMessages DEF WqStep
<1>2. CASE NodeReturns
  BY <1>2, ReturnsKeepsMessages, WrittenKeepsMessages DEF NodeReturns
<1>3. CASE node_filter \/ node_cache_add
  BY <1>3, FilterKeepsMessages
<1>4. CASE \E i \in NodeIds : gb_message_receive(i)
  BY <1>4, ReceiveKeepsMessages
<1>5. CASE rx_payload_complete \/ rx_payload_cut
  BY <1>5, PayloadKeepsMessages
<1>6. CASE \E t \in DOMAIN th : RequestStep(t)
  <2>1. DOMAIN th = {"rx", "disc"}
    BY DEF TypeInv, ThType
  <2> QED BY <1>6, <2>1, RequestStepKeepsMessages
<1>7. CASE ApStep
  BY <1>7, HostKeepsMessages
<1>8. CASE UNCHANGED vars
  <2>1. UNCHANGED <<heap, unrouted, map, inbox, wq, th, dropped, fault>>
    BY <1>8 DEF vars
  <2> QED BY <2>1, RouteSame, Quiet DEF MessageInv, HeapStep
<1> QED BY <1>1, <1>2, <1>3, <1>4, <1>5, <1>6, <1>7, <1>8 DEF Next, ApStep

(* Both hold always.                                                       *)
THEOREM MessagesCorrect == Spec => [](TypeInv /\ MessageInv)
<1>1. Init => TypeInv /\ MessageInv
  BY TypeInit, MessageInit
<1>2. TypeInv /\ MessageInv /\ [Next]_vars => (TypeInv /\ MessageInv)'
  BY TypeNext, MessageNext
<1> QED BY <1>1, <1>2, PTL DEF Spec

(* TypeOK: every variable of the SVC model has its type; in particular no  *)
(* more blocks are lost than the heap has.                                 *)
THEOREM SvcTyped == Spec => []TypeOK
<1>1. TypeInv /\ MessageInv => TypeOK
  <2> SUFFICES ASSUME TypeInv, MessageInv PROVE TypeOK
    OBVIOUS
  <2>1. unrouted \in 0..HeapBlocks
    BY MessageInvImplies
  <2>2. th \in [{"rx", "disc"} -> [pc : ThreadPc, msg : SUBSET Blocks, node : NodeIds \cup {0}, op : 0..Len(ops)]]
    <3>1. Len(ops) \in Nat
      BY LenProperties DEF TypeInv, OpsType
    <3> QED BY <3>1 DEF TypeInv, ThType, Threads
  <2>3. {flag, suspended} \subseteq BOOLEAN /\ ready \in BOOLEAN
    BY Zenon DEF TypeInv, FlagType
  <2>4. heap \subseteq Blocks /\ counter \in Nat /\ dropped \subseteq 0..MaxAsks
    BY DEF TypeInv, HeapType, OpsType
  <2>5. map \in [ApCports -> Entries] /\ node \in [NodeIds -> {"none", "allocated", "listed", "linked"}]
    BY DEF TypeInv, TableType, NodeType
  <2>6. wq \in Works /\ ap \in Hosts /\ ops \in Seq(Requests) /\ inbox \in Seq(Frames) /\ Len(inbox) <= MaxInbox
    BY DEF TypeInv, WqType, HostType, OpsType, InboxType
  <2>7. /\ arrivals \in 0..MaxArrivals /\ starts \in 0..MaxStarts /\ asks \in 0..MaxAsks
        /\ fault \in {"none", "null_copy", "stale_interface", "assertion"}
    BY DEF TypeInv, CountType, FaultType, Faults
  <2> QED BY <2>1, <2>2, <2>3, <2>4, <2>5, <2>6, <2>7, Zenon
          DEF TypeOK, ThreadPc, Entries, Works, Hosts, Requests
<1> QED BY <1>1, MessagesCorrect, PTL

(* Ownership: from its allocation until it is sent or freed a message of   *)
(* any length belongs to one context, no block of it being free or         *)
(* another's, and the blocks that nobody holds are exactly those of the    *)
(* messages that connection_send refused (or that rx forgot), whatever the *)
(* three contexts do in whichever order.  What svc.c reads of a message    *)
(* after the send is outside it: there OwnershipTransferred fails.         *)
THEOREM MessagesOwned == Spec => []Ownership
<1>1. TypeInv /\ MessageInv => Ownership
  BY MessageInvImplies
<1> QED BY <1>1, MessagesCorrect, PTL

(* HeapSuffices: in a heap of four blocks or more nothing is copied to     *)
(* address 0 and no frame or answer is dropped for want of memory, unless  *)
(* a message was lost before or rx is receiving one of more than a block.  *)
THEOREM FourBlocksSuffice == Spec => HeapSuffices
<1> DEFINE Fails == HeapBlocks >= 4 /\ (dropped' # dropped \/ (fault' # fault /\ fault' = "null_copy"))
<1>1. TypeInv /\ MessageInv /\ [Next]_vars => [Fails => Orphans # {} \/ LongMessage]_vars
  <2>1. TypeInv /\ MessageInv /\ [Next]_vars => HeapStep
    BY MessageNext
  <2>2. TypeInv /\ MessageInv => (unrouted > 0 => Orphans # {})
    BY MessageInvImplies
  <2> QED BY <2>1, <2>2 DEF HeapStep
<1> QED BY <1>1, MessagesCorrect, PTL DEF Spec, HeapSuffices

-----------------------------------------------------------------------------
(* Operation ids.                                                          *)

(* The requests of q that no reset was pending for, and the ids of all.    *)
Undisturbed(q) == {i \in 1..Len(q) : ~q[i].raced}
Ids(q)         == [i \in 1..Len(q) |-> q[i].id]

(* The id that is drawn next unless a reset is pending, and how many draws *)
(* lie between an id and the next one.                                     *)
NextId       == IF Resetting THEN OPERATION_ID_START ELSE counter
Ahead(id, n) == IF n > id THEN n - id ELSE n - id + UINT16_MAX

(* Of n requests, f[i] is the id of i.  Each one of Q is as many requests  *)
(* back, at least, as its id is behind the next id; and no two of Q within *)
(* a cycle have the same.                                                  *)
Spread(n, Q, f, next) ==
  \A i \in Q : /\ f[i] \in 1..UINT16_MAX
               /\ n + 1 - i >= Ahead(f[i], next)
               /\ \A j \in Q : i < j /\ j < i + UINT16_MAX => f[j] # f[i]

(* Only one thread stands before the reset, and exactly then the counter   *)
(* has overflowed.                                                         *)
CounterInv ==
  /\ \A t, u \in {"rx", "disc"} : th[t].pc = "reset" /\ th[u].pc = "reset" => t = u
  /\ Resetting => counter > UINT16_MAX
  /\ ~Resetting => counter \in 1..UINT16_MAX

IdsInv == CounterInv /\ Spread(Len(ops), Undisturbed(ops), Ids(ops), NextId)

(* The invariant says what IdsDistinct says.                               *)
LEMMA IdsInvImplies == TypeInv /\ IdsInv => IdsDistinct
<1> SUFFICES ASSUME TypeInv, IdsInv PROVE IdsDistinct
  OBVIOUS
<1>1. ops \in Seq(Requests) /\ Len(ops) \in Nat /\ DOMAIN ops = 1..Len(ops)
  BY LenProperties DEF TypeInv, OpsType
<1> DEFINE Q == Undisturbed(ops)
<1>2. \A i \in Q : /\ Ids(ops)[i] \in 1..UINT16_MAX
                   /\ \A j \in Q : i < j /\ j < i + UINT16_MAX => Ids(ops)[j] # Ids(ops)[i]
  BY DEF IdsInv, Spread
<1>3. Q \subseteq 1..Len(ops) /\ \A i \in 1..Len(ops) : ~ops[i].raced => i \in Q
  BY Zenon DEF Undisturbed
<1>4. \A i \in 1..Len(ops) : Ids(ops)[i] = ops[i].id
  BY DEF Ids
<1> HIDE DEF Q
<1>5. ASSUME NEW i \in 1..Len(ops), ~ops[i].raced
      PROVE  /\ ops[i].id # 0
             /\ \A j \in (i + 1)..Len(ops) : j < i + UINT16_MAX /\ ~ops[j].raced => ops[j].id # ops[i].id
  <2>1. i \in Q
    BY <1>3, <1>5, Zenon
  <2>2. ops[i].id # 0
    BY <1>2, <1>4, <2>1
  <2>3. ASSUME NEW j \in (i + 1)..Len(ops), j < i + UINT16_MAX, ~ops[j].raced PROVE ops[j].id # ops[i].id
    <3>1. j \in 1..Len(ops) /\ i < j
      BY <1>1
    <3>2. j \in Q
      BY <1>3, <2>3, <3>1, Zenon
    <3> QED BY <1>2, <1>4, <2>1, <2>3, <3>1, <3>2
  <2> QED BY <2>2, <2>3, Zenon
<1> QED BY <1>1, <1>5, Zenon DEF IdsDistinct

(* A draw: undisturbed, or while a reset is pending.                       *)
LEMMA SpreadDraw ==
  ASSUME NEW n \in Nat, NEW Q \in SUBSET (1..n), NEW f, NEW g, NEW next \in 1..UINT16_MAX,
         Spread(n, Q, f, next), \A i \in 1..n : g[i] = f[i], g[n + 1] = next
  PROVE  Spread(n + 1, Q \cup {n + 1}, g, IF next = UINT16_MAX THEN 1 ELSE next + 1)
<1> DEFINE after == IF next = UINT16_MAX THEN 1 ELSE next + 1
<1>1. UINT16_MAX \in Nat \ {0} /\ after \in 1..UINT16_MAX
  BY MessagesAssumption
<1>2. ASSUME NEW i \in Q
      PROVE  /\ g[i] \in 1..UINT16_MAX
             /\ (n + 1) + 1 - i >= Ahead(g[i], after)
             /\ \A j \in Q \cup {n + 1} : i < j /\ j < i + UINT16_MAX => g[j] # g[i]
  <2>1. i \in 1..n /\ g[i] = f[i] /\ f[i] \in 1..UINT16_MAX /\ n + 1 - i >= Ahead(f[i], next)
    BY DEF Spread
  <2>2. (n + 1) + 1 - i >= Ahead(g[i], after)
    BY <1>1, <2>1 DEF Ahead
  <2>3. ASSUME NEW j \in Q, i < j, j < i + UINT16_MAX PROVE g[j] # g[i]
    BY <2>1, <2>3 DEF Spread
  <2>4. n + 1 < i + UINT16_MAX => g[n + 1] # g[i]
    BY <1>1, <2>1 DEF Ahead
  <2> QED BY <2>1, <2>2, <2>3, <2>4
<1>3. /\ g[n + 1] \in 1..UINT16_MAX
      /\ (n + 1) + 1 - (n + 1) >= Ahead(g[n + 1], after)
      /\ \A j \in Q \cup {n + 1} : ~(n + 1 < j)
  BY <1>1 DEF Ahead
<1> QED BY <1>2, <1>3 DEF Spread

(* A request that was drawn during a reset takes a position, and no id     *)
(* from the others.                                                        *)
LEMMA SpreadRaced ==
  ASSUME NEW n \in Nat, NEW Q \in SUBSET (1..n), NEW f, NEW g, NEW next \in 1..UINT16_MAX,
         Spread(n, Q, f, next), \A i \in 1..n : g[i] = f[i]
  PROVE  Spread(n + 1, Q, g, next)
<1>1. ASSUME NEW i \in Q
      PROVE  /\ g[i] \in 1..UINT16_MAX
             /\ (n + 1) + 1 - i >= Ahead(g[i], next)
             /\ \A j \in Q : i < j /\ j < i + UINT16_MAX => g[j] # g[i]
  <2>1. i \in 1..n /\ g[i] = f[i] /\ f[i] \in 1..UINT16_MAX /\ n + 1 - i >= Ahead(f[i], next)
    BY DEF Spread
  <2>2. (n + 1) + 1 - i >= Ahead(g[i], next)
    BY <2>1, MessagesAssumption DEF Ahead
  <2>3. ASSUME NEW j \in Q, i < j, j < i + UINT16_MAX PROVE g[j] # g[i]
    BY <2>1, <2>3 DEF Spread
  <2> QED BY <2>1, <2>2, <2>3
<1> QED BY <1>1 DEF Spread

(* The draw of an id, by any context.                                      *)
LEMMA DrawIds ==
  ASSUME TypeInv, IdsInv, NEW type, NEW i, NEW st,
         Op(type, i, st) \in Requests, ops' = Append(ops, Op(type, i, st)),
         CounterInv',
         NextId' = IF Resetting THEN NextId ELSE IF counter = UINT16_MAX THEN 1 ELSE counter + 1
  PROVE  IdsInv'
<1> DEFINE r == Op(type, i, st)
           n == Len(ops)
<1>1. ops \in Seq(Requests) /\ n \in Nat /\ counter \in Nat
  BY LenProperties DEF TypeInv, OpsType
<1>2. r \in Requests /\ ops' = Append(ops, r)
  OBVIOUS
<1>3. r.id = operation_id(counter) /\ (r.raced <=> Resetting)
  BY Zenon DEF Op
<1> HIDE DEF r
<1>4. Len(ops') = n + 1 /\ ops'[n + 1] = r /\ \A k \in 1..n : ops'[k] = ops[k]
  BY <1>1, <1>2, AppendProperties
<1>5. /\ \A k \in 1..n : Ids(ops')[k] = Ids(ops)[k]
      /\ Ids(ops')[n + 1] = r.id
  BY <1>1, <1>4 DEF Ids
<1>6. Undisturbed(ops) \in SUBSET (1..n)
  BY DEF Undisturbed
<1>7. UINT16_MAX \in Nat \ {0}
  BY MessagesAssumption
<1>8. CASE Resetting
  <2>1. Undisturbed(ops') = Undisturbed(ops)
    <3>1. \A k \in 1..(n + 1) : k \in 1..n \/ k = n + 1
      BY <1>1
    <3>2. \A k \in 1..n : k \in 1..(n + 1)
      BY <1>1
    <3>3. \A k \in 1..(n + 1) : ~ops'[k].raced <=> k \in 1..n /\ ~ops[k].raced
      <4>1. n + 1 \notin 1..n
        BY <1>1
      <4> QED BY <1>3, <1>4, <1>8, <3>1, <4>1, Zenon
    <3> QED BY <1>4, <3>2, <3>3, Zenon DEF Undisturbed
  <2>2. NextId = 1 /\ NextId' = 1
    BY <1>8 DEF NextId, OPERATION_ID_START
  <2>3. Spread(n + 1, Undisturbed(ops), Ids(ops'), 1)
    <3>1. Spread(n, Undisturbed(ops), Ids(ops), 1)
      BY <2>2 DEF IdsInv
    <3> QED BY <1>1, <1>5, <1>6, <1>7, <3>1, SpreadRaced
  <2> QED BY <1>4, <2>1, <2>2, <2>3 DEF IdsInv
<1>9. CASE ~Resetting
  <2>1. Undisturbed(ops') = Undisturbed(ops) \cup {n + 1}
    <3>1. \A k \in 1..(n + 1) : k \in 1..n \/ k = n + 1
      BY <1>1
    <3>2. n + 1 \in 1..(n + 1) /\ \A k \in 1..n : k \in 1..(n + 1)
      BY <1>1
    <3>3. \A k \in 1..(n + 1) : ~ops'[k].raced <=> (k \in 1..n /\ ~ops[k].raced) \/ k = n + 1
      <4>1. n + 1 \notin 1..n
        BY <1>1
      <4> QED BY <1>3, <1>4, <1>9, <3>1, <4>1, Zenon
    <3> QED BY <1>4, <3>2, <3>3, Zenon DEF Undisturbed
  <2>2. NextId = counter /\ counter \in 1..UINT16_MAX
    BY <1>9 DEF NextId, IdsInv, CounterInv
  <2>3. r.id = counter
    BY <1>1, <1>3, <2>2, OperationId
  <2>4. Spread(n, Undisturbed(ops), Ids(ops), counter)
    BY <2>2 DEF IdsInv
  <2>5. Ids(ops')[n + 1] = counter
    BY <1>5, <2>3
  <2>6. Spread(n + 1, Undisturbed(ops) \cup {n + 1}, Ids(ops'), IF counter = UINT16_MAX THEN 1 ELSE counter + 1)
    BY <1>1, <1>5, <1>6, <2>2, <2>4, <2>5, SpreadDraw
  <2>7. NextId' = IF counter = UINT16_MAX THEN 1 ELSE counter + 1
    BY <1>9
  <2> QED BY <1>4, <2>1, <2>6, <2>7 DEF IdsInv
<1> QED BY <1>8, <1>9

(* Steps that only change what became of requests.                         *)
LEMMA SameIds ==
  ASSUME TypeInv, IdsInv, counter' = counter,
         \A t \in {"rx", "disc"} : th'[t].pc = "reset" <=> th[t].pc = "reset",
         DOMAIN th = {"rx", "disc"}, DOMAIN th' = {"rx", "disc"},
         Len(ops') = Len(ops),
         \A k \in 1..Len(ops) : ops'[k].id = ops[k].id /\ ops'[k].raced = ops[k].raced
  PROVE  IdsInv'
<1>1. Resetting' <=> Resetting
  BY DEF Resetting
<1>2. NextId' = NextId
  BY <1>1 DEF NextId
<1>3. CounterInv'
  BY <1>1 DEF IdsInv, CounterInv
<1>4. Ids(ops') = Ids(ops)
  BY DEF Ids
<1>5. Undisturbed(ops') = Undisturbed(ops)
  BY Zenon DEF Undisturbed
<1> QED BY <1>2, <1>3, <1>4, <1>5 DEF IdsInv

(* Draws of wq: no thread runs in between.                                 *)
LEMMA RequestIds ==
  ASSUME TypeInv, IdsInv, NEW type \in DOMAIN Response, NEW h, NEW held,
         control_send_request(type, h, held), th' = th
  PROVE  IdsInv'
<1>1. ops' = Append(ops, Op(type, 0, "sent")) /\ counter' = counter_after(counter) /\ counter \in Nat
  BY DEF control_send_request, TypeInv, OpsType
<1>2. Op(type, 0, "sent") \in Requests
  <2>1. Resetting \in BOOLEAN
    BY DEF Resetting
  <2> QED BY <1>1, <2>1, OperationId, Zenon DEF Op, Requests
<1>3. Resetting' <=> Resetting
  BY DEF Resetting
<1>4. UINT16_MAX \in Nat \ {0}
  BY MessagesAssumption
<1>5. CounterInv'
  BY <1>1, <1>3, <1>4 DEF IdsInv, CounterInv, counter_after, must_reset, OPERATION_ID_START
<1>6. NextId' = IF Resetting THEN NextId ELSE IF counter = UINT16_MAX THEN 1 ELSE counter + 1
  BY <1>1, <1>3 DEF NextId, counter_after, must_reset, OPERATION_ID_START
<1> QED BY <1>1, <1>2, <1>5, <1>6, DrawIds

(* A draw of a thread: the counter overflows until the reset.              *)
LEMMA ThreadDrawIds ==
  ASSUME TypeInv, IdsInv, NEW t \in {"rx", "disc"}, new_operation_id(t)
  PROVE  IdsInv'
<1>1. th \in [{"rx", "disc"} -> Threads] /\ counter \in Nat /\ th[t].node \in NodeIds \cup {0}
  BY ThreadFields DEF TypeInv, OpsType
<1>2. PICK type \in {"MODULE_INSERTED", "MODULE_REMOVED"} :
        th[t].pc = type /\ ops' = Append(ops, Op(type, th[t].node, "drawn"))
  BY DEF new_operation_id, Runs
<1>3. Op(type, th[t].node, "drawn") \in Requests
  <2>1. Resetting \in BOOLEAN
    BY DEF Resetting
  <2>2. type \in DOMAIN Response
    BY DEF Response
  <2> QED BY <1>1, <2>1, <2>2, OperationId, Zenon DEF Op, Requests
<1>4. counter' = counter + 1
      /\ th' = [th EXCEPT ![t].op = Len(ops) + 1, ![t].pc = IF must_reset(counter) THEN "reset" ELSE "alloc"]
  BY DEF new_operation_id
<1>5. /\ DOMAIN th = {"rx", "disc"} /\ DOMAIN th' = {"rx", "disc"}
      /\ th'[t].pc = IF counter = UINT16_MAX THEN "reset" ELSE "alloc"
      /\ \A u \in {"rx", "disc"} : u # t => th'[u] = th[u]
  BY <1>1, <1>4 DEF Threads, must_reset
<1>6. UINT16_MAX \in Nat \ {0}
  BY MessagesAssumption
<1>7. Resetting' <=> Resetting \/ counter = UINT16_MAX
  BY <1>2, <1>5 DEF Resetting
<1>8. CounterInv'
  <2>1. Resetting' => counter' > UINT16_MAX
    BY <1>1, <1>4, <1>6, <1>7 DEF IdsInv, CounterInv
  <2>2. ~Resetting' => counter' \in 1..UINT16_MAX
    BY <1>1, <1>4, <1>6, <1>7 DEF IdsInv, CounterInv
  <2>3. counter = UINT16_MAX => ~Resetting
    BY <1>6 DEF IdsInv, CounterInv
  <2>4. ASSUME NEW u \in {"rx", "disc"}, NEW v \in {"rx", "disc"}, th'[u].pc = "reset", th'[v].pc = "reset"
        PROVE  u = v
    BY <1>5, <2>3, <2>4 DEF IdsInv, CounterInv, Resetting
  <2> QED BY <2>1, <2>2, <2>4 DEF CounterInv
<1>9. NextId' = IF Resetting THEN NextId ELSE IF counter = UINT16_MAX THEN 1 ELSE counter + 1
  BY <1>4, <1>7 DEF NextId, OPERATION_ID_START
<1> QED BY <1>2, <1>3, <1>8, <1>9, DrawIds

(* The reset.                                                              *)
LEMMA ResetIds ==
  ASSUME TypeInv, IdsInv, NEW t \in {"rx", "disc"}, operation_id_reset(t)
  PROVE  IdsInv'
<1>1. th \in [{"rx", "disc"} -> Threads]
  BY ThreadFields
<1>2. counter' = 1 /\ ops' = ops /\ th[t].pc = "reset" /\ th' = [th EXCEPT ![t].pc = "alloc"]
  BY DEF operation_id_reset, Runs, OPERATION_ID_START
<1>3. /\ DOMAIN th = {"rx", "disc"} /\ DOMAIN th' = {"rx", "disc"}
      /\ th'[t].pc = "alloc" /\ \A u \in {"rx", "disc"} : u # t => th'[u] = th[u]
  BY <1>1, <1>2 DEF Threads
<1>4. Resetting /\ ~Resetting'
  BY <1>2, <1>3 DEF Resetting, IdsInv, CounterInv
<1>5. CounterInv'
  BY <1>2, <1>3, <1>4, MessagesAssumption DEF IdsInv, CounterInv
<1>6. NextId' = NextId
  BY <1>2, <1>4 DEF NextId, OPERATION_ID_START
<1> QED BY <1>2, <1>5, <1>6 DEF IdsInv

(* Fates leave ids alone.                                                  *)
LEMMA FateIds ==
  ASSUME NEW q \in Seq(Requests), NEW o \in 1..Len(q), NEW st, NEW p, p = [q EXCEPT ![o].st = st]
  PROVE  /\ Len(p) = Len(q)
         /\ \A k \in 1..Len(q) : p[k].id = q[k].id /\ p[k].raced = q[k].raced
<1>1. Len(q) \in Nat /\ DOMAIN q = 1..Len(q) /\ \A k \in 1..Len(q) : q[k] \in Requests
  BY LenProperties, ElementOfSeq
<1>2. DOMAIN p = 1..Len(q) /\ p[o] = [q[o] EXCEPT !.st = st] /\ \A k \in 1..Len(q) : k # o => p[k] = q[k]
  BY <1>1, Zenon
<1>3. [q[o] EXCEPT !.st = st].id = q[o].id /\ [q[o] EXCEPT !.st = st].raced = q[o].raced
  BY <1>1, Zenon DEF Requests
<1>4. Len(p) = Len(q)
  BY <1>1, <1>2
<1>5. \A k \in 1..Len(q) : p[k].id = q[k].id /\ p[k].raced = q[k].raced
  BY <1>2, <1>3, Zenon
<1> QED BY <1>4, <1>5, Zenon

(* At power-up no id has been drawn.                                       *)
LEMMA IdsInit == Init => IdsInv
<1> SUFFICES ASSUME Init PROVE IdsInv
  OBVIOUS
<1>1. ops = <<>> /\ counter = 1 /\ \A t \in {"rx", "disc"} : th[t].pc = "idle"
  BY DEF Init, Resting, OPERATION_ID_START
<1>2. ~Resetting
  BY DEF Init, Resetting, Resting
<1>3. CounterInv
  BY <1>1, <1>2, MessagesAssumption DEF CounterInv
<1>4. Undisturbed(ops) = {}
  BY <1>1 DEF Undisturbed
<1> QED BY <1>3, <1>4 DEF IdsInv, Spread

(* Every step keeps the invariant of the ids.                              *)
LEMMA IdsNext == TypeInv /\ IdsInv /\ [Next]_vars => IdsInv'
<1> SUFFICES ASSUME TypeInv, IdsInv, [Next]_vars PROVE IdsInv'
  OBVIOUS
<1>1. /\ th \in [{"rx", "disc"} -> Threads] /\ DOMAIN th = {"rx", "disc"}
      /\ ops \in Seq(Requests) /\ DOMAIN ops = 1..Len(ops) /\ Len(ops) \in Nat
  BY ThreadFields, LenProperties
<1>2. CASE UNCHANGED <<counter, th, ops>>
  BY <1>1, <1>2, SameIds, Zenon
<1>3. CASE control_svc_start \/ svc_response
  <2>1. CASE UNCHANGED <<counter, th, ops>>
    BY <1>2, <2>1
  <2>2. CASE ~UNCHANGED <<counter, th, ops>>
    <3>1. th' = th /\ \E type \in {"PROTOCOL_VERSION", "SVC_HELLO"} :
            \E h, held : control_send_request(type, h, held)
      BY <1>3, <2>2 DEF control_svc_start, svc_response, Dies
    <3>2. \A type \in {"PROTOCOL_VERSION", "SVC_HELLO"} : type \in DOMAIN Response
      BY DEF Response
    <3> QED BY <3>1, <3>2, RequestIds
  <2> QED BY <2>1, <2>2
<1>4. CASE control_svc_stop \/ frame_dropped \/ svc_request \/ svc_connection_create \/ svc_connection_destroy
           \/ svc_unknown_cport \/ local_node_write \/ node_inf_write \/ NodeReturns
  <2>1. UNCHANGED <<counter, th, ops>>
    BY <1>4 DEF control_svc_stop, frame_dropped, svc_request, svc_connection_create, svc_connection_destroy,
                svc_unknown_cport, local_node_write, node_inf_write, NodeReturns, node_connect_returns,
                node_write_returns, Dies
  <2> QED BY <1>2, <2>1
<1>5. CASE \/ node_filter \/ node_cache_add \/ rx_payload_complete \/ rx_payload_cut
           \/ \E i \in NodeIds : gb_message_receive(i)
  <2>1. UNCHANGED <<counter, ops>>
    BY <1>5 DEF node_filter, node_cache_add, gb_message_receive, rx_payload_complete, rx_payload_cut
  <2>2. DOMAIN th' = {"rx", "disc"} /\ \A t \in {"rx", "disc"} : th'[t].pc = "reset" <=> th[t].pc = "reset"
    <3>1. CASE node_filter \/ node_cache_add
      BY <1>1, <3>1 DEF node_filter, node_cache_add, Runs, Threads
    <3>2. CASE \E i \in NodeIds : gb_message_receive(i)
      BY <1>1, <3>2 DEF gb_message_receive, Runs, Threads
    <3>3. CASE rx_payload_complete \/ rx_payload_cut
      BY <1>1, <3>3 DEF rx_payload_complete, rx_payload_cut, Runs, Threads, Resting
    <3> QED BY <1>5, <3>1, <3>2, <3>3
  <2> QED BY <1>1, <2>1, <2>2, SameIds, Zenon
<1>6. CASE \E t \in DOMAIN th : RequestStep(t)
  <2>1. PICK t \in {"rx", "disc"} : RequestStep(t)
    BY <1>1, <1>6
  <2>2. CASE new_operation_id(t)
    BY <2>2, ThreadDrawIds
  <2>3. CASE operation_id_reset(t)
    BY <2>3, ResetIds
  <2>4. CASE gb_message_request_alloc(t)
    <3>1. UNCHANGED <<counter, ops>>
      BY <2>4 DEF gb_message_request_alloc, Dies
    <3>2. DOMAIN th' = {"rx", "disc"} /\ \A u \in {"rx", "disc"} : th'[u].pc = "reset" <=> th[u].pc = "reset"
      BY <1>1, <2>4 DEF gb_message_request_alloc, Dies, Runs, Threads
    <3> QED BY <1>1, <3>1, <3>2, SameIds, Zenon
  <2>5. CASE module_request_sent(t)
    <3>1. /\ th[t].pc = "send" /\ counter' = counter /\ ops' = [ops EXCEPT ![th[t].op].st = "sent"]
          /\ th' = [th EXCEPT ![t].pc = "sent"]
      BY <2>5 DEF module_request_sent, Runs
    <3>2. th[t].op \in 1..Len(ops)
      BY <3>1, ThreadFields
    <3>3. DOMAIN th' = {"rx", "disc"} /\ \A u \in {"rx", "disc"} : th'[u].pc = "reset" <=> th[u].pc = "reset"
      BY <1>1, <3>1 DEF Threads
    <3> DEFINE o == th[t].op
    <3>4. ops' = [ops EXCEPT ![o].st = "sent"] /\ o \in 1..Len(ops)
      BY <3>1, <3>2
    <3> HIDE DEF o
    <3>5. Len(ops') = Len(ops)
          /\ \A k \in 1..Len(ops) : ops'[k].id = ops[k].id /\ ops'[k].raced = ops[k].raced
      BY <1>1, <3>4, FateIds
    <3> QED BY <1>1, <3>1, <3>3, <3>5, SameIds, Zenon
  <2>6. CASE module_request_returns(t)
    <3>1. UNCHANGED <<counter, ops>> /\ (th' = th \/ th' = [th EXCEPT ![t] = Resting]) /\ th[t].pc = "sent"
      BY <2>6 DEF module_request_returns, Dies, Runs
    <3>2. DOMAIN th' = {"rx", "disc"} /\ \A u \in {"rx", "disc"} : th'[u].pc = "reset" <=> th[u].pc = "reset"
      BY <1>1, <3>1 DEF Resting
    <3> QED BY <1>1, <3>1, <3>2, SameIds, Zenon
  <2> QED BY <2>1, <2>2, <2>3, <2>4, <2>5, <2>6 DEF RequestStep
<1>7. CASE ApStep
  <2>1. CASE \E ty \in Types : ap_asks(ty)
    <3>1. UNCHANGED <<counter, th, ops>>
      BY <2>1 DEF ap_asks, Ask, firmware
    <3> QED BY <1>2, <3>1
  <2>2. CASE \E o \in DOMAIN ops : ap_answers(o)
    <3>1. PICK o \in DOMAIN ops : ap_answers(o)
      BY <2>2
    <3>2. UNCHANGED <<counter, th>> /\ ops' = [ops EXCEPT ![o].st = "answered"] /\ o \in 1..Len(ops)
      BY <1>1, <3>1 DEF ap_answers, firmware
    <3>3. Len(ops') = Len(ops)
          /\ \A k \in 1..Len(ops) : ops'[k].id = ops[k].id /\ ops'[k].raced = ops[k].raced
      BY <1>1, <3>2, FateIds
    <3> QED BY <1>1, <3>2, <3>3, SameIds, Zenon
  <2>3. CASE ap_start \/ ap_stop
    <3> DEFINE fate(o) == IF ops[o].st = "sent" THEN [ops[o] EXCEPT !.st = "stale"] ELSE ops[o]
    <3>1. UNCHANGED <<counter, th>> /\ ops' = [o \in DOMAIN ops |-> fate(o)]
      BY <2>3, Zenon DEF ap_start, ap_stop, firmware, NewSession
    <3>2. \A o \in 1..Len(ops) : fate(o).id = ops[o].id /\ fate(o).raced = ops[o].raced
      <4> TAKE o \in 1..Len(ops)
      <4>1. ops[o] \in Requests
        BY <1>1, ElementOfSeq
      <4>2. [ops[o] EXCEPT !.st = "stale"].id = ops[o].id /\ [ops[o] EXCEPT !.st = "stale"].raced = ops[o].raced
        BY <4>1, Zenon DEF Requests
      <4> QED BY <4>2, Zenon
    <3> HIDE DEF fate
    <3>3. Len(ops') = Len(ops) /\ \A o \in 1..Len(ops) : ops'[o] = fate(o)
      BY <1>1, <3>1
    <3>4. \A k \in 1..Len(ops) : ops'[k].id = ops[k].id /\ ops'[k].raced = ops[k].raced
      BY <3>2, <3>3, Zenon
    <3> QED BY <1>1, <3>1, <3>3, <3>4, SameIds, Zenon
  <2> QED BY <1>7, <2>1, <2>2, <2>3 DEF ApStep
<1>8. CASE UNCHANGED vars
  <2>1. UNCHANGED <<counter, th, ops>>
    BY <1>8 DEF vars
  <2> QED BY <1>2, <2>1
<1> QED BY <1>3, <1>4, <1>5, <1>6, <1>7, <1>8 DEF Next, WqStep, ApStep

(* IdsDistinct: any two requests within a cycle of the counter have ids of *)
(* their own, and none is 0, unless one was drawn between the increment    *)
(* and the reset of new_operation_id.                                      *)
THEOREM IdsOwn == Spec => []IdsDistinct
<1>1. Init => TypeInv /\ IdsInv
  BY TypeInit, IdsInit
<1>2. TypeInv /\ IdsInv /\ [Next]_vars => (TypeInv /\ IdsInv)'
  BY TypeNext, IdsNext
<1>3. TypeInv /\ IdsInv => IdsDistinct
  BY IdsInvImplies
<1> QED BY <1>1, <1>2, <1>3, PTL DEF Spec

=============================================================================
