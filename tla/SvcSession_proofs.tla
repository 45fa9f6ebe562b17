------------------------- MODULE SvcSession_proofs --------------------------
(***************************************************************************)
(* Sessions of the host: proofs, for every size of the heap, any number of *)
(* AP cports, requests, STARTs and arrivals and a queue of any length,     *)
(* that no frame is sent through a NULL pointer, that a stopped SVC is     *)
(* clean, and that the host knows its connections.                         *)
(***************************************************************************)
EXTENDS SvcMessages_proofs

-----------------------------------------------------------------------------
(* What a step is for the host: the queue, the table, the connection that  *)
(* wq waits for, and what the host knows.                                  *)

(* The host has no answer to f, or has it and did wait for it.             *)
Learnt(f, ok) ==
  /\ ap'.session = ap.session /\ (ap'.fresh => ap.fresh)
  /\ \/ ap'.wait = ap.wait /\ ap'.conn = ap.conn
     \/ /\ f \in ap.wait /\ ap'.wait = ap.wait \ {f}
        /\ ap'.conn = IF ok /\ f.type = "CONN_CREATE" THEN [ap.conn EXCEPT ![f.c] = f.to]
                      ELSE IF ok /\ f.type = "CONN_DESTROY" THEN [ap.conn EXCEPT ![f.c] = Unconnected]
                      ELSE ap.conn

(* The SVC answered CONN_CREATE f, with a new entry or without.            *)
Connected(f) ==
  \/ /\ map' = map /\ Learnt(f, FALSE)
  \/ /\ map[f.c].node_intf = NULL /\ f.to # Unconnected
     /\ map'[f.c].node_intf # NULL /\ map'[f.c].node_id = f.to.id /\ map'[f.c].node_cport = f.to.cport
     /\ \A c \in ApCports : c # f.c => map'[c] = map[c]
     /\ Learnt(f, TRUE)

Taking == wq.pc = "idle" /\ inbox # <<>> /\ inbox' = Tail(inbox) /\ asks' = asks

(* The SVC as STOP leaves it, its table aside.                             *)
Off == ~ready /\ suspended /\ \A i \in NodeIds : node[i] = "none"

QuietStep ==
  /\ UNCHANGED <<map, inbox, ap, asks>> /\ (Off => Off')
  /\ wq'.pc = "connect" => wq.pc = "connect" /\ wq'.frame = wq.frame
  /\ wq.pc = "idle" => wq'.pc = "idle"
StartStep ==
  /\ Taking /\ Head(inbox).type = "START" /\ wq'.pc # "connect" /\ ap' = ap
  /\ map'[0].node_intf # NULL /\ \A c \in ApCports \ {0} : map'[c] = map[c]
StopStep ==
  /\ Taking /\ Head(inbox).type = "STOP" /\ wq' = wq /\ ap' = ap
  /\ map' = [c \in ApCports |-> NoConnection] /\ Off'
FrameStep ==
  /\ Taking /\ Head(inbox).type \in GreybusTypes /\ wq'.pc # "connect" /\ map' = map
  /\ ap' = ap \/ (Head(inbox).type \notin {"CONN_CREATE", "CONN_DESTROY"} /\ Learnt(Head(inbox), TRUE))
DestroyStep ==
  /\ Taking /\ Head(inbox).type = "CONN_DESTROY" /\ wq'.pc # "connect"
  /\ map' = [map EXCEPT ![Head(inbox).c] = NoConnection] /\ Learnt(Head(inbox), TRUE)
WaitStep ==
  /\ Taking /\ Head(inbox).type = "CONN_CREATE" /\ ap' = ap /\ map' = map
  /\ wq'.pc = "connect" /\ wq'.frame = Head(inbox)
CreateStep ==
  /\ Taking /\ Head(inbox).type = "CONN_CREATE" /\ wq'.pc # "connect" /\ Connected(Head(inbox))
ReturnStep ==
  /\ wq.pc = "connect" /\ wq'.pc = "idle" /\ inbox' = inbox /\ asks' = asks /\ Connected(wq.frame)
BeginStep(ty, s) ==
  /\ Post(Command(ty)) /\ UNCHANGED <<map, wq, asks>>
  /\ ap'.session = s /\ (ap'.fresh => ap.session = "down") /\ ap'.wait = {}
  /\ ap'.conn = [c \in ApCports |-> Unconnected]
AnswerStep(ty) ==
  /\ Post(Command(ty)) /\ UNCHANGED <<map, wq, asks>>
  /\ ap.session \in {"start", "up"} /\ ap'.session \in {"start", "up"} /\ (ap'.fresh => ap.fresh)
  /\ ap'.wait = ap.wait /\ ap'.conn = ap.conn
AskStep(f, answered) ==
  /\ Post(f) /\ UNCHANGED <<map, wq>> /\ asks' = asks + 1
  /\ f.type \in GreybusTypes /\ f.id = asks + 1 /\ AskKind(f, f.type, answered)
  /\ ap.session = "up" /\ (ap'.fresh => ap.fresh)
  /\ ap'.session = IF f.to = SvcTarget THEN "closing" ELSE "up"
  /\ ap'.wait = IF answered THEN ap.wait \cup {f} ELSE ap.wait
  /\ ap'.conn = ap.conn

HostStep ==
  \/ QuietStep \/ StartStep \/ StopStep \/ FrameStep \/ DestroyStep
  \/ WaitStep \/ CreateStep \/ ReturnStep
  \/ BeginStep("START", "start") \/ (ap.session # "down" /\ BeginStep("STOP", "down"))
  \/ \E ty \in Responses : AnswerStep(ty)
  \/ \E f \in Frames, answered \in BOOLEAN : AskStep(f, answered)

(* What the AP learns from an answer.                                      *)
LEMMA LearnsFields ==
  ASSUME TypeInv, NEW f \in Frames, NEW ok \in BOOLEAN, ap' = ApLearns(f, ok)
  PROVE  Learnt(f, ok)
<1> DEFINE created == [ap.conn EXCEPT ![f.c] = f.to]
           destroyed == [ap.conn EXCEPT ![f.c] = Unconnected]
           conn == IF ok /\ f.type = "CONN_CREATE" THEN created
                   ELSE IF ok /\ f.type = "CONN_DESTROY" THEN destroyed
                   ELSE ap.conn
           known == IF f \in ap.wait THEN conn ELSE ap.conn
<1>1. ap \in Hosts
  BY DEF TypeInv, HostType
<1>2. ap' = [ap EXCEPT !.conn = known, !.wait = ap.wait \ {f}]
  BY Zenon DEF ApLearns
<1> HIDE DEF known
<1>3. ap'.session = ap.session /\ ap'.fresh = ap.fresh /\ ap'.conn = known /\ ap'.wait = ap.wait \ {f}
  BY <1>1, <1>2, Zenon DEF Hosts
<1>4. CASE f \in ap.wait
  <2>1. known = conn
    BY <1>4, Zenon DEF known
  <2> QED BY <1>3, <1>4, <2>1, Zenon DEF Learnt
<1>5. CASE f \notin ap.wait
  <2>1. known = ap.conn
    BY <1>5, Zenon DEF known
  <2>2. ap.wait \ {f} = ap.wait
    BY <1>5
  <2> QED BY <1>3, <2>1, <2>2, Zenon DEF Learnt
<1> QED BY <1>4, <1>5

(* An answer that is sent is learnt, if the host waits for it.             *)
LEMMA ResponseLearnt ==
  ASSUME TypeInv, NEW f \in Frames, NEW h, NEW b, NEW m, NEW id, NEW ok \in BOOLEAN,
         response_helper(f, h, b, m, id, ok)
  PROVE  Learnt(f, ok)
<1>1. ap' = ap \/ ap' = ApLearns(f, ok)
  BY DEF response_helper
<1>2. CASE ap' = ap
  BY <1>2, Zenon DEF Learnt
<1> QED BY <1>1, <1>2, LearnsFields

(* The rest of CONN_CREATE: a new entry and success, or neither.           *)
LEMMA ConnectConnected ==
  ASSUME TypeInv, NEW f \in Frames, NEW h, NEW b, NEW intf, NEW ok \in BOOLEAN,
         Connect(f, h, b, intf, ok), ok => f.to # Unconnected /\ intf # NULL
  PROVE  Connected(f)
<1> DEFINE added == ok /\ node_ap_may_add(map, f.c)
           m == IF added THEN node_ap_add(map, f.c, f.to.cport, intf, f.to.id) ELSE map
<1>1. map' = m /\ response_helper(f, h, b, m, SVC_INF_ID, added)
  BY Zenon DEF Connect
<1>2. added \in BOOLEAN
  OBVIOUS
<1>3. Learnt(f, added)
  <2> HIDE DEF added, m
  <2> QED BY <1>1, <1>2, ResponseLearnt, Zenon
<1>4. CASE added
  <2>1. Learnt(f, TRUE)
    <3>1. added = TRUE
      BY <1>4
    <3> QED BY <1>3, <3>1
  <2>2. map' = node_ap_add(map, f.c, f.to.cport, intf, f.to.id)
    BY <1>1, <1>4, Zenon
  <2>3. map \in [ApCports -> Entries] /\ f.c \in ApCports
    BY DEF TypeInv, TableType, Frames
  <2>4. ok /\ map[f.c].node_intf = NULL
    BY <1>4 DEF node_ap_may_add
  <2>5. f.to # Unconnected /\ intf # NULL
    BY <2>4
  <2>6. /\ map'[f.c].node_intf = intf /\ map'[f.c].node_id = f.to.id /\ map'[f.c].node_cport = f.to.cport
        /\ \A c \in ApCports : c # f.c => map'[c] = map[c]
    BY <2>2, <2>3 DEF node_ap_add
  <2> QED BY <2>1, <2>4, <2>5, <2>6, Zenon DEF Connected
<1>5. CASE ~added
  <2>1. Learnt(f, FALSE)
    <3>1. added = FALSE
      BY <1>5
    <3> QED BY <1>3, <3>1
  <2> QED BY <1>1, <1>5, <2>1, Zenon DEF Connected
<1> QED BY <1>4, <1>5

(* Every step is one of these.                                             *)
LEMMA WqHostStep ==
  ASSUME TypeInv, MessageInv, WqStep
  PROVE  HostStep
<1>1. ASSUME NEW why, Dies(why) PROVE QuietStep
  <2>1. UNCHANGED <<map, inbox, ap, asks, wq>>
    BY <1>1 DEF Dies, bounds
  <2>2. UNCHANGED <<ready, suspended, node>>
    BY <1>1, Zenon DEF Dies
  <2> QED BY <2>1, <2>2, Zenon DEF QuietStep, Off
<1>2. ASSUME NEW intf, NEW types, Deliver(intf, types), types \subseteq GreybusTypes,
             inbox' = Tail(inbox), asks' = asks
      PROVE  Taking /\ Head(inbox) \in Frames /\ Head(inbox).type \in types /\ Head(inbox).type \in GreybusTypes
  BY <1>2, DeliverType, Zenon DEF Taking
<1>3. CASE control_svc_start
  <2>1. CASE \E why : Dies(why)
    BY <1>1, <2>1 DEF HostStep
  <2>2. CASE ~\E why : Dies(why)
    <3>1. Taking /\ Head(inbox).type = "START" /\ wq' = wq /\ ap' = ap
      BY <1>3, <2>2 DEF control_svc_start, Take, Taking, bounds
    <3>2. \/ map' = map /\ ~node_ap_may_add(map, 0)
          \/ map' = node_ap_add(map, 0, 0, SVC_INTF, SVC_INF_ID)
      BY <1>3, <2>2 DEF control_svc_start
    <3>3. map'[0].node_intf # NULL /\ \A c \in ApCports \ {0} : map'[c] = map[c]
      BY <3>2, ApCportZero DEF node_ap_may_add, node_ap_add, TypeInv, TableType, SVC_INTF, NULL
    <3>4. wq'.pc # "connect"
      BY <3>1 DEF Taking
    <3> QED BY <3>1, <3>3, <3>4 DEF StartStep, HostStep
  <2> QED BY <2>1, <2>2
<1>4. CASE control_svc_stop
  <2>1. CASE \E why : Dies(why)
    BY <1>1, <2>1 DEF HostStep
  <2>2. CASE ~\E why : Dies(why)
    <3>1. Off'
      BY <1>4, <2>2 DEF control_svc_stop, Off
    <3>2. Taking /\ Head(inbox).type = "STOP" /\ wq' = wq /\ ap' = ap
          /\ map' = [c \in ApCports |-> NoConnection]
      BY <1>4, <2>2 DEF control_svc_stop, Take, Taking, bounds
    <3> QED BY <3>1, <3>2, Zenon DEF StopStep, HostStep
  <2> QED BY <2>1, <2>2
<1>5. CASE frame_dropped
  BY <1>5 DEF frame_dropped, Take, Taking, bounds, FrameStep, HostStep
<1>6. CASE svc_request
  <2> DEFINE types == SvcReplies \ {"CONN_CREATE", "CONN_DESTROY"}
  <2>1. Deliver(SVC_INTF, types) /\ types \subseteq GreybusTypes /\ inbox' = Tail(inbox) /\ asks' = asks
        /\ map' = map /\ wq' = wq /\ response_helper(Head(inbox), Filled, Msg, map, SVC_INF_ID, TRUE)
    BY <1>6 DEF svc_request, GreybusTypes, bounds
  <2> HIDE DEF types
  <2>2. Taking /\ Head(inbox) \in Frames /\ Head(inbox).type \in types /\ Head(inbox).type \in GreybusTypes
    BY <1>2, <2>1
  <2>3. Head(inbox).type \notin {"CONN_CREATE", "CONN_DESTROY"}
    BY <2>2 DEF types
  <2>4. Learnt(Head(inbox), TRUE)
    BY <2>1, <2>2, ResponseLearnt, Zenon
  <2>5. wq'.pc # "connect"
    BY <2>1, <2>2 DEF Taking
  <2> QED BY <2>1, <2>2, <2>3, <2>4, <2>5, Zenon DEF FrameStep, HostStep
<1>7. CASE svc_connection_create
  <2> DEFINE f == Head(inbox)
  <2>1. Deliver(SVC_INTF, {"CONN_CREATE"}) /\ {"CONN_CREATE"} \subseteq GreybusTypes
        /\ inbox' = Tail(inbox) /\ asks' = asks
    BY <1>7 DEF svc_connection_create, bounds, GreybusTypes, SvcReplies, EmptyReplies
  <2>2. Taking /\ f \in Frames /\ f.type = "CONN_CREATE" /\ wq.pc = "idle"
    <3>1. Taking /\ f \in Frames /\ f.type \in {"CONN_CREATE"}
      BY <1>2, <2>1
    <3> QED BY <3>1 DEF Taking
  <2>3. CASE ~Refused(f.to) /\ NeedsSocket(f.to)
    <3>1. wq' = [pc |-> "connect", msg |-> Msg, frame |-> f] /\ UNCHANGED <<map, ap>>
      BY <1>7, <2>3, Zenon DEF svc_connection_create
    <3> QED BY <2>2, <3>1 DEF WaitStep, HostStep
  <2>4. CASE Refused(f.to) \/ ~NeedsSocket(f.to)
    <3>1. Connect(f, Filled, Msg, gb_interface_find_by_id(f.to.id), ~Refused(f.to)) /\ wq' = wq
      BY <1>7, <2>4, Zenon DEF svc_connection_create
    <3>2. (~Refused(f.to)) \in BOOLEAN
          /\ (~Refused(f.to) => f.to # Unconnected /\ gb_interface_find_by_id(f.to.id) # NULL)
      BY DEF Refused
    <3> HIDE DEF f
    <3>3. Connected(f)
      BY <2>2, <3>1, <3>2, ConnectConnected, Zenon
    <3>4. wq'.pc # "connect"
      BY <2>2, <3>1
    <3> QED BY <2>2, <3>3, <3>4 DEF CreateStep, HostStep, f
  <2> QED BY <2>3, <2>4
<1>8. CASE svc_connection_destroy
  <2> DEFINE f == Head(inbox)
             m == node_ap_remove(map, f.c)
  <2>1. Deliver(SVC_INTF, {"CONN_DESTROY"}) /\ {"CONN_DESTROY"} \subseteq GreybusTypes
        /\ inbox' = Tail(inbox) /\ asks' = asks /\ wq' = wq /\ map' = m
        /\ response_helper(f, Filled, Msg, m, SVC_INF_ID, TRUE)
    BY <1>8 DEF svc_connection_destroy, bounds, GreybusTypes, SvcReplies, EmptyReplies
  <2>2. Taking /\ f \in Frames /\ f.type = "CONN_DESTROY"
    <3>1. Taking /\ f \in Frames /\ f.type \in {"CONN_DESTROY"}
      BY <1>2, <2>1
    <3> QED BY <3>1
  <2>3. Learnt(f, TRUE)
    <3> HIDE DEF f, m
    <3> QED BY <2>1, <2>2, ResponseLearnt, Zenon
  <2>4. map' = [map EXCEPT ![f.c] = NoConnection]
    BY <2>1 DEF node_ap_remove
  <2>5. wq'.pc # "connect"
    BY <2>1, <2>2 DEF Taking
  <2> QED BY <2>2, <2>3, <2>4, <2>5, Zenon DEF DestroyStep, HostStep
<1>9. CASE svc_response
  <2>1. CASE \E why : Dies(why)
    BY <1>1, <2>1 DEF HostStep
  <2>2. CASE ~\E why : Dies(why)
    <3> DEFINE types == Responses \cup {"UNSUPPORTED"}
    <3>1. Deliver(SVC_INTF, types) /\ types \subseteq GreybusTypes
          /\ inbox' = Tail(inbox) /\ asks' = asks /\ wq' = wq /\ map' = map /\ ap' = ap
      BY <1>9, <2>2 DEF svc_response, bounds, GreybusTypes
    <3> HIDE DEF types
    <3>2. Taking /\ Head(inbox).type \in GreybusTypes
      BY <1>2, <3>1
    <3>3. wq'.pc # "connect"
      BY <3>1, <3>2 DEF Taking
    <3> QED BY <3>1, <3>2, <3>3, Zenon DEF FrameStep, HostStep
  <2> QED BY <2>1, <2>2
<1>10. CASE svc_unknown_cport
  <2>1. Deliver(SVC_INTF, GreybusTypes) /\ inbox' = Tail(inbox) /\ asks' = asks /\ wq' = wq /\ map' = map /\ ap' = ap
    BY <1>10 DEF svc_unknown_cport, bounds
  <2>2. Taking /\ Head(inbox).type \in GreybusTypes
    BY <1>2, <2>1
  <2>3. wq'.pc # "connect"
    BY <2>1, <2>2 DEF Taking
  <2> QED BY <2>1, <2>2, <2>3, Zenon DEF FrameStep, HostStep
<1>11. CASE local_node_write
  <2>1. Deliver(LOCAL_INTF, GreybusTypes) /\ inbox' = Tail(inbox) /\ asks' = asks /\ wq' = wq /\ map' = map
    BY <1>11 DEF local_node_write, bounds
  <2>2. Taking /\ Head(inbox).type \in GreybusTypes /\ Head(inbox) \in Frames
    BY <1>2, <2>1
  <2>3. wq'.pc # "connect"
    BY <2>1, <2>2 DEF Taking
  <2>4. CASE Head(inbox).type \in ControlReplies
    <3>1. response_helper(Head(inbox), Filled, Msg, map, LOCAL_NODE_ID, TRUE)
      BY <1>11, <2>4, Zenon DEF local_node_write
    <3>2. Learnt(Head(inbox), TRUE)
      BY <2>2, <3>1, ResponseLearnt, Zenon
    <3>3. Head(inbox).type \notin {"CONN_CREATE", "CONN_DESTROY"}
      BY <2>4 DEF ControlReplies, ControlEmptyReplies, ControlPayloadReplies
    <3> QED BY <2>1, <2>2, <2>3, <3>2, <3>3, Zenon DEF FrameStep, HostStep
  <2>5. CASE Head(inbox).type \notin ControlReplies
    <3>1. ap' = ap
      BY <1>11, <2>5, Zenon DEF local_node_write
    <3> QED BY <2>1, <2>2, <2>3, <3>1, Zenon DEF FrameStep, HostStep
  <2> QED BY <2>4, <2>5
<1>12. CASE node_inf_write
  <2>1. CASE \E why : Dies(why)
    BY <1>1, <2>1 DEF HostStep
  <2>2. CASE ~\E why : Dies(why)
    <3>1. PICK i \in NodeIds : Deliver(i, GreybusTypes)
      BY <1>12 DEF node_inf_write
    <3>2. inbox' = Tail(inbox) /\ asks' = asks /\ map' = map /\ ap' = ap
          /\ wq' = [pc |-> "write", msg |-> Msg, frame |-> Head(inbox)]
      BY <1>12, <2>2 DEF node_inf_write, bounds
    <3>3. Taking /\ Head(inbox).type \in GreybusTypes
      BY <1>2, <3>1, <3>2
    <3>4. wq'.pc # "connect"
      BY <3>2
    <3> QED BY <3>2, <3>3, <3>4, Zenon DEF FrameStep, HostStep
  <2> QED BY <2>1, <2>2
<1> QED BY <1>3, <1>4, <1>5, <1>6, <1>7, <1>8, <1>9, <1>10, <1>11, <1>12 DEF WqStep

(* Steps of the threads do not touch what the host relies on.              *)
LEMMA OtherHostStep ==
  ASSUME TypeInv, MessageInv, [Next]_vars, ~WqStep, ~ApStep
  PROVE  QuietStep \/ ReturnStep
<1>1. ASSUME NEW why, Dies(why) PROVE QuietStep
  <2>1. UNCHANGED <<map, inbox, ap, asks, wq>>
    BY <1>1 DEF Dies, bounds
  <2>2. UNCHANGED <<ready, suspended, node>>
    BY <1>1, Zenon DEF Dies
  <2> QED BY <2>1, <2>2, Zenon DEF QuietStep, Off
<1>2. CASE node_connect_returns
  <2> DEFINE i == wq.frame.to.id
  <2>1. CASE \E why : Dies(why)
    BY <1>1, <2>1
  <2>2. CASE ~\E why : Dies(why)
    <3>1. PICK ok \in BOOLEAN :
            /\ Connect(wq.frame, heap, wq.msg, i, ok)
            /\ wq' = [pc |-> "idle", msg |-> NoMessage, frame |-> NoFrame]
            /\ UNCHANGED <<inbox, asks>>
      BY <1>2, <2>2, Zenon DEF node_connect_returns, bounds
    <3>2. wq.pc = "connect" /\ wq.frame \in Frames /\ i \in NodeIds
      BY <1>2 DEF node_connect_returns, TypeInv, WqType, Works
    <3>3. wq.frame.to # Unconnected /\ i # NULL
      BY <3>2 DEF Unconnected, NodeIds, INTERFACE_ID_START, NULL
    <3>4. Connected(wq.frame)
      BY <3>1, <3>2, <3>3, ConnectConnected, Zenon
    <3> QED BY <3>1, <3>2, <3>4 DEF ReturnStep
  <2> QED BY <2>1, <2>2
<1>3. CASE node_write_returns
  <2>1. CASE \E why : Dies(why)
    BY <1>1, <2>1
  <2>2. CASE ~\E why : Dies(why)
    <3>1. wq' = [pc |-> "idle", msg |-> NoMessage, frame |-> NoFrame] /\ UNCHANGED <<map, inbox, ap, asks>>
      BY <1>3, <2>2, Zenon DEF node_write_returns, bounds
    <3>2. Off => Off'
      BY <1>3, <2>2, Zenon DEF node_write_returns, Off
    <3>3. wq'.pc = "idle" /\ wq'.pc # "connect"
      BY <3>1
    <3> QED BY <3>1, <3>2, <3>3, Zenon DEF QuietStep
  <2> QED BY <2>1, <2>2
<1>4. CASE node_filter \/ node_cache_add
  <2>1. ~suspended /\ UNCHANGED <<map, inbox, ap, asks, wq>>
    BY <1>4 DEF node_filter, node_cache_add, Runs, rest
  <2> QED BY <2>1, Zenon DEF QuietStep, Off
<1>5. CASE (\E i \in NodeIds : gb_message_receive(i)) \/ rx_payload_complete \/ rx_payload_cut
  <2>1. UNCHANGED <<map, inbox, ap, asks, wq>> /\ UNCHANGED <<ready, suspended, node>>
    BY <1>5, Zenon DEF gb_message_receive, rx_payload_complete, rx_payload_cut, rest
  <2> QED BY <2>1, Zenon DEF QuietStep, Off
<1>6. CASE \E t \in DOMAIN th : RequestStep(t)
  <2>1. PICK t \in DOMAIN th : RequestStep(t)
    BY <1>6
  <2>2. CASE \E why : Dies(why)
    BY <1>1, <2>2
  <2>3. CASE ~\E why : Dies(why)
    <3>1. UNCHANGED <<map, inbox, ap, asks, wq>> /\ UNCHANGED <<ready, suspended>>
      BY <2>1, <2>3, Zenon DEF RequestStep, new_operation_id, operation_id_reset, gb_message_request_alloc,
                    module_request_sent, module_request_returns, rest
    <3>2. node' = node \/ \E i : node' = [node EXCEPT ![i] = "none"]
      BY <2>1, <2>3, Zenon DEF RequestStep, new_operation_id, operation_id_reset, gb_message_request_alloc,
                    module_request_sent, module_request_returns
    <3>3. (\A i \in NodeIds : node[i] = "none") => \A i \in NodeIds : node'[i] = "none"
      BY <3>2 DEF TypeInv, NodeType
    <3> QED BY <3>1, <3>3, Zenon DEF QuietStep, Off
  <2> QED BY <2>2, <2>3
<1>7. CASE UNCHANGED vars
  <2>1. UNCHANGED <<map, inbox, ap, asks, wq>> /\ UNCHANGED <<ready, suspended, node>>
    BY <1>7 DEF vars
  <2> QED BY <2>1, Zenon DEF QuietStep, Off
<1> QED BY <1>2, <1>3, <1>4, <1>5, <1>6, <1>7 DEF Next, ApStep, NodeReturns

(* The steps of the AP.                                                    *)
LEMMA ApHostStep ==
  ASSUME TypeInv, ApStep
  PROVE  \/ BeginStep("START", "start") \/ (ap.session # "down" /\ BeginStep("STOP", "down"))
         \/ \E ty \in Responses : AnswerStep(ty)
         \/ \E f \in Frames, answered \in BOOLEAN : AskStep(f, answered)
<1>1. ap \in Hosts
  BY DEF TypeInv, HostType
<1>2. ASSUME NEW s, NewSession(s)
      PROVE  /\ ap'.session = s /\ (ap'.fresh => ap.session = "down") /\ ap'.wait = {}
             /\ ap'.conn = [c \in ApCports |-> Unconnected]
  <2> DEFINE none == [c \in ApCports |-> Unconnected]
             young == ap.session = "down"
  <2>1. ap' = [session |-> s, fresh |-> young, conn |-> none, wait |-> {}]
    BY <1>2, Zenon DEF NewSession
  <2> HIDE DEF none, young
  <2>2. ap'.session = s /\ ap'.fresh = young /\ ap'.conn = none /\ ap'.wait = {}
    BY <2>1
  <2>3. ap'.fresh => young
    BY <2>2, Zenon
  <2> QED BY <2>2, <2>3, Zenon DEF none, young
<1>3. CASE ap_start
  BY <1>2, <1>3 DEF ap_start, BeginStep, firmware
<1>4. CASE ap_stop
  BY <1>2, <1>4 DEF ap_stop, BeginStep, firmware, bounds
<1>5. CASE \E o \in DOMAIN ops : ap_answers(o)
  <2>1. PICK o \in DOMAIN ops : ap_answers(o)
    BY <1>5
  <2> DEFINE ty == Response[ops[o].type]
  <2>2. Post(Command(ty)) /\ UNCHANGED <<map, wq, asks>> /\ ap.session \in {"start", "up"}
    BY <2>1 DEF ap_answers, firmware, Command, bounds
  <2>3. ops[o] \in Requests
    BY ElementOfSeq, LenProperties DEF TypeInv, OpsType
  <2>4. ty \in Responses
    BY <2>3 DEF Requests, Responses
  <2>5. PICK s \in {"up", ap.session} : ap' = [ap EXCEPT !.session = s]
    BY <2>1, Zenon DEF ap_answers
  <2>6. ap'.session = s /\ ap'.fresh = ap.fresh /\ ap'.wait = ap.wait /\ ap'.conn = ap.conn
    BY <1>1, <2>5, Zenon DEF Hosts
  <2>7. ap'.session \in {"start", "up"}
    BY <2>2, <2>5, <2>6
  <2>8. ap'.fresh => ap.fresh
    BY <2>6, Zenon
  <2> HIDE DEF ty
  <2> QED BY <2>2, <2>4, <2>6, <2>7, <2>8, Zenon DEF AnswerStep
<1>6. CASE \E ty \in Types : ap_asks(ty)
  <2>1. PICK ty \in Types : ap_asks(ty)
    BY <1>6
  <2>2. PICK f \in Frames, answered \in BOOLEAN :
          /\ Ask(f, answered) /\ f.type = ty /\ ty \in GreybusTypes /\ f.id = asks + 1
          /\ AskKind(f, ty, answered)
    BY <2>1, AsksFrame
  <2>3. Post(f) /\ UNCHANGED <<map, wq>> /\ asks' = asks + 1 /\ ap.session = "up"
    BY <2>2 DEF Ask, firmware
  <2> DEFINE w == IF answered THEN ap.wait \cup {f} ELSE ap.wait
             s == IF f.to = SvcTarget THEN "closing" ELSE ap.session
  <2>4. ap' = [ap EXCEPT !.wait = w, !.session = s]
    BY <2>2, Zenon DEF Ask
  <2> HIDE DEF w, s
  <2>5. ap'.session = s /\ ap'.fresh = ap.fresh /\ ap'.wait = w /\ ap'.conn = ap.conn
    BY <1>1, <2>4, Zenon DEF Hosts
  <2>6. ap'.session = IF f.to = SvcTarget THEN "closing" ELSE "up"
    BY <2>3, <2>5 DEF s
  <2>7. ap'.wait = IF answered THEN ap.wait \cup {f} ELSE ap.wait
    BY <2>5, Zenon DEF w
  <2>8. ap'.fresh => ap.fresh
    BY <2>5, Zenon
  <2> QED BY <2>2, <2>3, <2>5, <2>6, <2>7, <2>8, Zenon DEF AskStep
<1> QED BY <1>3, <1>4, <1>5, <1>6 DEF ApStep

(* Every step of the system is a step of the host in this sense.           *)
LEMMA NextHostStep == TypeInv /\ MessageInv /\ [Next]_vars => HostStep
<1> SUFFICES ASSUME TypeInv, MessageInv, [Next]_vars PROVE HostStep
  OBVIOUS
<1>1. CASE WqStep
  BY <1>1, WqHostStep
<1>2. CASE ApStep
  BY <1>2, ApHostStep DEF HostStep
<1>3. CASE ~WqStep /\ ~ApStep
  BY <1>3, OtherHostStep DEF HostStep
<1> QED BY <1>1, <1>2, <1>3

-----------------------------------------------------------------------------
(* The invariant.  n is the position after the last frame that waits.      *)

(* f ends the connection of AP cport c.                                    *)
Breaks(f, c) == f.type = "STOP" \/ (f.type = "CONN_DESTROY" /\ f.c = c)

(* None of the frames lo..hi ends it.                                      *)
Spared(c, lo, hi) == \A j \in lo..hi : ~Breaks(inbox[j], c)

(* AP cport c will be connected when wq comes to position k: it is, and    *)
(* no frame before ends that; cport 0 also by a START before.              *)
Up(c, k)  == map[c].node_intf # NULL /\ Spared(c, 1, k - 1)
Up0(k)    == Up(0, k) \/ \E s \in 1..(k - 1) : inbox[s].type = "START" /\ Spared(0, s + 1, k - 1)

(* The host waits for the answer to a change of AP cport c.                *)
Changing(c) == \E f \in ap.wait : f.c = c

End == Len(inbox) + 1

(* A Greybus frame finds its cport connected, and so would one that the    *)
(* host sends now, on cport 0 or on a connection it knows of.              *)
ZeroInv ==
  /\ \A k \in 1..Len(inbox) : inbox[k].type \in GreybusTypes /\ inbox[k].cport = 0 => Up0(k)
  /\ ap.session \in {"start", "up"} => Up0(End)
CportInv ==
  /\ \A k \in 1..Len(inbox) : inbox[k].cport # 0 => Up(inbox[k].cport, k)
  /\ \A c \in ApCports \ {0} : ap.conn[c] # Unconnected /\ ~Changing(c) => Up(c, End)

(* The frames of requests are in the order of their ids, the one that wq   *)
(* waits with before all others.                                           *)
Changes == {"CONN_CREATE", "CONN_DESTROY"}
IdInv ==
  /\ \A k \in 1..Len(inbox) : inbox[k].id <= asks /\ (inbox[k].type \in Changes => inbox[k].id # 0)
  /\ \A j, k \in 1..Len(inbox) : j < k /\ inbox[k].id # 0 => inbox[j].id < inbox[k].id
  /\ wq.pc = "connect" =>
       /\ wq.frame.id \in 1..asks /\ wq.frame.type = "CONN_CREATE"
       /\ \A k \in 1..Len(inbox) : inbox[k].id # 0 => wq.frame.id < inbox[k].id

(* The host changes a cport other than 0 once at a time, creates only what *)
(* it has not connected, and nothing that waits before a CONN_CREATE it    *)
(* waits for ends that connection afterwards.                              *)
WaitInv ==
  /\ \A f \in ap.wait : f.id \in 1..asks /\ (f.c # 0 => f.type \in Changes)
  /\ \A f, g \in ap.wait : f.c # 0 /\ f.c = g.c => f = g
  /\ \A f \in ap.wait : f.type = "CONN_CREATE" =>
       /\ f.c # 0 /\ ap.conn[f.c] = Unconnected
       /\ \A k \in 1..Len(inbox) : Breaks(inbox[k], f.c) => \E p \in (k + 1)..Len(inbox) : inbox[p] = f

(* A host that has stopped waits for the STOP, or finds the SVC stopped.   *)
Clean == Off /\ \A c \in ApCports : map[c] = NoConnection
StopInv ==
  ap.session = "down" =>
    \/ inbox # <<>> /\ inbox[Len(inbox)].type = "STOP"
    \/ inbox = <<>> /\ wq.pc = "idle" /\ Clean

(* In a session that began with a stopped SVC: until the STOP is handled   *)
(* nothing is connected; what waits before it, or is in wait, is all that  *)
(* changes the table; and the host knows the entries that do not change.   *)
StopWaits == \E k \in 1..Len(inbox) : inbox[k].type = "STOP"
Known(c) ==
  IF ap.conn[c] = Unconnected THEN map[c].node_intf = NULL
  ELSE map[c].node_id = ap.conn[c].id /\ map[c].node_cport = ap.conn[c].cport
Vacant(f) == f.type = "CONN_CREATE" /\ f.c # 0 => map[f.c].node_intf = NULL
Fresh == ap.session # "down" /\ ap.fresh
Blank == StopWaits => \A c \in ApCports \ {0} : ap.conn[c] = Unconnected
Awaited ==
  /\ \A k \in 1..Len(inbox) : inbox[k].type \in Changes /\ inbox[k].c # 0 =>
       inbox[k] \in ap.wait \/ \E p \in (k + 1)..Len(inbox) : inbox[p].type = "STOP"
  /\ wq.pc = "connect" /\ wq.frame.c # 0 => wq.frame \in ap.wait \/ StopWaits
Agreed ==
  ~StopWaits =>
    /\ \A c \in ApCports \ {0} : ~Changing(c) => Known(c)
    /\ \A k \in 1..Len(inbox) : Vacant(inbox[k])
    /\ wq.pc = "connect" => Vacant(wq.frame)
FreshInv == Fresh => Blank /\ Awaited /\ Agreed

SessionInv == ZeroInv /\ CportInv /\ IdInv /\ WaitInv /\ StopInv /\ FreshInv

-----------------------------------------------------------------------------
(* Lemmas about frames and the queue.                                      *)

(* Commands and responses are not requests of the AP.                      *)
LEMMA KindsOfFrames ==
  /\ "STOP" \notin GreybusTypes /\ "START" \notin GreybusTypes
  /\ Changes \subseteq GreybusTypes
  /\ Responses \subseteq GreybusTypes
  /\ "STOP" \notin Responses /\ "START" \notin Responses
  /\ "STOP" \notin Changes /\ "START" \notin Changes
  /\ \A ty \in Responses : ty \notin Changes
<1>1. Responses = {"VERSION_RESPONSE", "HELLO_RESPONSE", "INSERTED_RESPONSE", "REMOVED_RESPONSE"}
  BY DEF Responses, Response
<1> QED BY <1>1 DEF GreybusTypes, Changes, SvcReplies, ControlReplies, EmptyReplies, PayloadReplies,
                    ControlEmptyReplies, ControlPayloadReplies

(* A command has no arguments.                                             *)
LEMMA CommandFields ==
  ASSUME NEW ty
  PROVE  /\ Command(ty).type = ty /\ Command(ty).cport = 0 /\ Command(ty).id = 0 /\ Command(ty).c = 0
         /\ (ty \in GreybusTypes \cup {"START", "STOP"} => Command(ty) \in Frames)
<1>1. Command(ty) = [type |-> ty, cport |-> 0, id |-> 0, c |-> 0, to |-> Unconnected]
  BY DEF Command, Frame
<1> QED BY <1>1, ApCportZero, SvcAssumption DEF Frames

(* The types of what a step of the host reads.                             *)
LEMMA HostTypes ==
  ASSUME TypeInv
  PROVE  /\ Len(inbox) \in Nat /\ End \in Nat /\ asks \in Nat /\ 0 \in ApCports
         /\ \A k \in 1..Len(inbox) : inbox[k] \in Frames
         /\ ap.wait \subseteq Frames
         /\ ap.conn \in [ApCports -> Targets \cup {Unconnected, SvcTarget}]
         /\ map \in [ApCports -> Entries]
         /\ \A f \in Frames : f.c \in ApCports /\ f.cport \in ApCports /\ f.id \in Nat
<1>1. inbox \in Seq(Frames)
  BY DEF TypeInv, InboxType
<1>2. Len(inbox) \in Nat /\ \A k \in 1..Len(inbox) : inbox[k] \in Frames
  BY <1>1, LenProperties, ElementOfSeq
<1>3. ap.wait \subseteq Frames /\ ap.conn \in [ApCports -> Targets \cup {Unconnected, SvcTarget}]
  BY DEF TypeInv, HostType, Hosts
<1>4. \A f \in Frames : f.c \in ApCports /\ f.cport \in ApCports /\ f.id \in Nat
  BY SvcAssumption DEF Frames
<1> QED BY <1>2, <1>3, <1>4, ApCportZero, SvcAssumption DEF TypeInv, TableType, CountType, End

(* What remains of the queue when wq takes a frame.                        *)
LEMMA TakenQueue ==
  ASSUME TypeInv, Taking
  PROVE  /\ Len(inbox) \in Nat /\ Len(inbox) > 0 /\ Len(inbox') = Len(inbox) - 1
         /\ \A k \in 1..Len(inbox') : k + 1 \in 1..Len(inbox) /\ inbox'[k] = inbox[k + 1]
         /\ 1 \in 1..Len(inbox) /\ Head(inbox) = inbox[1] /\ inbox[1] \in Frames
<1>1. /\ Len(inbox') = Len(inbox) - 1 /\ Len(inbox) \in Nat /\ Len(inbox) > 0
      /\ \A k \in 1..Len(inbox') : inbox'[k] = inbox[k + 1]
      /\ Head(inbox) = inbox[1]
  BY TailElements DEF Taking
<1> QED BY <1>1, HostTypes

(* A step in which wq takes a frame.                                       *)
TakeStep == StartStep \/ StopStep \/ FrameStep \/ DestroyStep \/ WaitStep \/ CreateStep

(* A frame that does not end a connection keeps it, and a START connects   *)
(* cport 0.                                                                *)
Grows(c)  == map[c].node_intf # NULL => map'[c].node_intf # NULL
TakeTable ==
  /\ \A c \in ApCports : Breaks(inbox[1], c) \/ Grows(c)
  /\ inbox[1].type = "START" => map'[0].node_intf # NULL

(* Every step in which wq takes a frame is like that.                      *)
LEMMA TakenTable ==
  ASSUME TypeInv, TakeStep
  PROVE  Taking /\ TakeTable
<1>1. Taking
  BY DEF TakeStep, StartStep, StopStep, FrameStep, DestroyStep, WaitStep, CreateStep
<1>2. Head(inbox) = inbox[1] /\ inbox[1] \in Frames
  BY <1>1, TakenQueue
<1>3. map \in [ApCports -> Entries] /\ 0 \in ApCports /\ inbox[1].c \in ApCports
  BY <1>2, HostTypes
<1>4. CASE StartStep
  BY <1>1, <1>2, <1>3, <1>4 DEF StartStep, TakeTable, Grows
<1>5. CASE StopStep
  BY <1>1, <1>2, <1>5 DEF StopStep, TakeTable, Breaks
<1>6. CASE FrameStep \/ WaitStep
  <2>1. map' = map /\ inbox[1].type \in GreybusTypes
    BY <1>2, <1>6, KindsOfFrames DEF FrameStep, WaitStep, Changes
  <2> QED BY <1>1, <2>1, KindsOfFrames DEF TakeTable, Grows
<1>7. CASE DestroyStep
  <2>1. map' = [map EXCEPT ![inbox[1].c] = NoConnection] /\ inbox[1].type = "CONN_DESTROY"
    BY <1>2, <1>7 DEF DestroyStep
  <2> QED BY <1>1, <1>3, <2>1 DEF TakeTable, Breaks, Grows
<1>8. CASE CreateStep
  <2>1. Connected(inbox[1]) /\ inbox[1].type = "CONN_CREATE"
    BY <1>2, <1>8 DEF CreateStep
  <2> QED BY <1>1, <2>1 DEF Connected, TakeTable, Grows
<1> QED BY <1>1, <1>4, <1>5, <1>6, <1>7, <1>8 DEF TakeStep

(* Connections along the queue, when a frame is taken ...                  *)
LEMMA UpTake ==
  ASSUME TypeInv, Taking, TakeTable, NEW c \in ApCports, NEW k \in 1..Len(inbox), Up(c, k + 1)
  PROVE  Up(c, k)'
<1>1. /\ Len(inbox) \in Nat /\ Len(inbox') = Len(inbox) - 1
      /\ \A j \in 1..Len(inbox') : inbox'[j] = inbox[j + 1]
  BY TakenQueue
<1>2. map[c].node_intf # NULL /\ \A j \in 1..k : ~Breaks(inbox[j], c)
  BY DEF Up, Spared
<1>3. map'[c].node_intf # NULL
  BY <1>2 DEF TakeTable, Grows
<1>4. \A j \in 1..(k - 1) : ~Breaks(inbox'[j], c)
  <2> SUFFICES ASSUME NEW j \in 1..(k - 1) PROVE ~Breaks(inbox'[j], c)
    OBVIOUS
  <2>1. inbox'[j] = inbox[j + 1] /\ j + 1 \in 1..k
    BY <1>1
  <2> QED BY <1>2, <2>1
<1> QED BY <1>3, <1>4 DEF Up, Spared

(* The same for cport 0, which a START also connects.                      *)
LEMMA Up0Take ==
  ASSUME TypeInv, Taking, TakeTable, NEW k \in 1..Len(inbox), Up0(k + 1)
  PROVE  Up0(k)'
<1>1. /\ Len(inbox) \in Nat /\ Len(inbox') = Len(inbox) - 1
      /\ \A j \in 1..Len(inbox') : inbox'[j] = inbox[j + 1]
  BY TakenQueue
<1>2. CASE Up(0, k + 1)
  BY <1>2, UpTake, ApCportZero DEF Up0
<1>3. CASE \E s \in 1..k : inbox[s].type = "START" /\ Spared(0, s + 1, k)
  <2>1. PICK s \in 1..k : inbox[s].type = "START" /\ \A j \in (s + 1)..k : ~Breaks(inbox[j], 0)
    BY <1>3 DEF Spared
  <2>2. ASSUME NEW j \in s..(k - 1) PROVE j \in 1..Len(inbox') /\ inbox'[j] = inbox[j + 1] /\ ~Breaks(inbox'[j], 0)
    <3>1. j \in 1..Len(inbox') /\ j + 1 \in (s + 1)..k
      BY <1>1
    <3> QED BY <1>1, <2>1, <3>1
  <2>3. CASE s = 1
    <3>1. map'[0].node_intf # NULL
      BY <2>1, <2>3 DEF TakeTable
    <3>2. \A j \in 1..(k - 1) : ~Breaks(inbox'[j], 0)
      BY <2>2, <2>3
    <3> QED BY <3>1, <3>2 DEF Up0, Up, Spared
  <2>4. CASE s # 1
    <3>1. s - 1 \in 1..(k - 1) /\ s - 1 \in 1..Len(inbox') /\ (s - 1) + 1 = s
      BY <1>1, <2>4
    <3>2. inbox'[s - 1].type = "START"
      BY <1>1, <2>1, <3>1
    <3>3. \A j \in ((s - 1) + 1)..(k - 1) : ~Breaks(inbox'[j], 0)
      BY <2>2, <3>1
    <3> QED BY <3>1, <3>2, <3>3 DEF Up0, Spared
  <2> QED BY <2>3, <2>4
<1>4. (k + 1) - 1 = k
  OBVIOUS
<1> QED BY <1>2, <1>3, <1>4 DEF Up0

(* ... when the host sends one ...                                         *)
LEMMA UpPost ==
  ASSUME TypeInv, NEW f \in Frames, Post(f), map' = map, NEW c \in ApCports
  PROVE  /\ \A k \in 1..End : Up(c, k) => Up(c, k)'
         /\ Up(c, End) /\ ~Breaks(f, c) => Up(c, End)'
<1>1. /\ Len(inbox) \in Nat
      /\ \A k \in 1..Len(inbox) : inbox'[k] = inbox[k]
      /\ inbox'[Len(inbox) + 1] = f
  BY PostElements
<1>2. ASSUME NEW k \in 1..End, Up(c, k) PROVE Up(c, k)'
  BY <1>1, <1>2 DEF Up, Spared, End
<1>3. ASSUME Up(c, End), ~Breaks(f, c) PROVE Up(c, End)'
  <2>1. map'[c].node_intf # NULL /\ \A j \in 1..Len(inbox) : ~Breaks(inbox[j], c)
    BY <1>1, <1>3 DEF Up, Spared, End
  <2>2. \A j \in 1..(Len(inbox) + 1) : ~Breaks(inbox'[j], c)
    BY <1>1, <1>3, <2>1
  <2>3. Len(inbox') = Len(inbox) + 1
    BY PostElements
  <2> QED BY <1>1, <2>1, <2>2, <2>3 DEF Up, Spared, End
<1> QED BY <1>2, <1>3

(* The same for cport 0.                                                   *)
LEMMA Up0Post ==
  ASSUME TypeInv, NEW f \in Frames, Post(f), map' = map
  PROVE  /\ \A k \in 1..End : Up0(k) => Up0(k)'
         /\ Up0(End) /\ ~Breaks(f, 0) => Up0(End)'
         /\ f.type = "START" => Up0(End)'
<1>1. /\ Len(inbox) \in Nat /\ Len(inbox') = Len(inbox) + 1
      /\ \A k \in 1..Len(inbox) : inbox'[k] = inbox[k]
      /\ inbox'[Len(inbox) + 1] = f
  BY PostElements
<1>2. ASSUME NEW k \in 1..End, Up0(k) PROVE Up0(k)'
  <2>1. CASE Up(0, k)
    BY <2>1, UpPost, ApCportZero DEF Up0
  <2>2. CASE \E s \in 1..(k - 1) : inbox[s].type = "START" /\ Spared(0, s + 1, k - 1)
    <3>1. PICK s \in 1..(k - 1) : inbox[s].type = "START" /\ \A j \in (s + 1)..(k - 1) : ~Breaks(inbox[j], 0)
      BY <2>2 DEF Spared
    <3>2. inbox'[s].type = "START" /\ \A j \in (s + 1)..(k - 1) : ~Breaks(inbox'[j], 0)
      BY <1>1, <3>1 DEF End
    <3> QED BY <3>2 DEF Up0, Spared
  <2> QED BY <1>2, <2>1, <2>2 DEF Up0
<1>3. ASSUME Up0(End), ~Breaks(f, 0) PROVE Up0(End)'
  <2>1. CASE Up(0, End)
    BY <1>3, <2>1, UpPost, ApCportZero DEF Up0
  <2>2. CASE \E s \in 1..(End - 1) : inbox[s].type = "START" /\ Spared(0, s + 1, End - 1)
    <3>1. PICK s \in 1..Len(inbox) : inbox[s].type = "START" /\ \A j \in (s + 1)..Len(inbox) : ~Breaks(inbox[j], 0)
      BY <1>1, <2>2 DEF Spared, End
    <3>2. s \in 1..Len(inbox') /\ inbox'[s].type = "START" /\ \A j \in (s + 1)..Len(inbox') : ~Breaks(inbox'[j], 0)
      BY <1>1, <1>3, <3>1
    <3>3. Len(inbox') = (Len(inbox') + 1) - 1
      BY <1>1
    <3> QED BY <3>2, <3>3 DEF Up0, Spared, End
  <2> QED BY <1>3, <2>1, <2>2 DEF Up0
<1>4. ASSUME f.type = "START" PROVE Up0(End)'
  <2>1. Len(inbox') \in 1..Len(inbox') /\ inbox'[Len(inbox')].type = "START"
        /\ Len(inbox') = (Len(inbox') + 1) - 1 /\ \A j \in (Len(inbox') + 1)..Len(inbox') : FALSE
    BY <1>1, <1>4
  <2> QED BY <2>1 DEF Up0, Spared, End
<1> QED BY <1>2, <1>3, <1>4

(* ... and when only the table changes.                                    *)
LEMMA UpSame ==
  ASSUME TypeInv, inbox' = inbox, \A c \in ApCports : Grows(c)
  PROVE  /\ \A c \in ApCports, k \in 1..End : Up(c, k) => Up(c, k)'
         /\ \A k \in 1..End : Up0(k) => Up0(k)'
<1>1. \A c \in ApCports, k \in 1..End : Up(c, k) => Up(c, k)'
  BY DEF Up, Spared, Grows
<1>2. \A k \in 1..End : Up0(k) => Up0(k)'
  BY <1>1, ApCportZero DEF Up0, Spared
<1> QED BY <1>1, <1>2

(* What the host learns in a step of wq: frame f is answered, or nothing.  *)
LEMMA TakenHost ==
  ASSUME TypeInv, TakeStep
  PROVE  \/ ap' = ap
         \/ /\ \E ok \in BOOLEAN : Learnt(inbox[1], ok) /\ (ok \/ inbox[1].type = "CONN_CREATE")
<1>1. Head(inbox) = inbox[1]
  BY TakenTable, TakenQueue
<1> QED BY <1>1 DEF TakeStep, StartStep, StopStep, FrameStep, DestroyStep, WaitStep, CreateStep, Connected

(* What an answer changes: the one connection that was changing.           *)
Settles(f, ok, c) ==
  /\ f \in ap.wait /\ f \notin ap'.wait /\ f.c = c
  /\ \/ f.type = "CONN_CREATE" /\ ok /\ ap'.conn[c] = f.to
     \/ f.type = "CONN_CREATE" /\ ~ok /\ ap'.conn[c] = Unconnected
     \/ f.type = "CONN_DESTROY" /\ ap'.conn[c] = Unconnected

(* An answer settles a connection that was changing and no other.          *)
LEMMA LearntConn ==
  ASSUME TypeInv, WaitInv, NEW f \in Frames, NEW ok \in BOOLEAN, Learnt(f, ok),
         ok \/ f.type = "CONN_CREATE", NEW c \in ApCports \ {0}
  PROVE  /\ ap'.wait \subseteq ap.wait
         /\ Changing(c)' => Changing(c) /\ ap'.conn[c] = ap.conn[c]
         /\ ~Changing(c) => ap'.conn[c] = ap.conn[c]
         /\ Changing(c) /\ ~Changing(c)' => Settles(f, ok, c)
<1>1. ap.conn \in [ApCports -> Targets \cup {Unconnected, SvcTarget}] /\ f.c \in ApCports
  BY HostTypes
<1>2. CASE ap'.wait = ap.wait /\ ap'.conn = ap.conn
  BY <1>2 DEF Changing
<1>3. CASE f \in ap.wait /\ f.c # c /\ ap'.wait = ap.wait \ {f}
           /\ ap'.conn = IF ok /\ f.type = "CONN_CREATE" THEN [ap.conn EXCEPT ![f.c] = f.to]
                         ELSE IF ok /\ f.type = "CONN_DESTROY" THEN [ap.conn EXCEPT ![f.c] = Unconnected]
                         ELSE ap.conn
  <2>1. ap'.conn[c] = ap.conn[c]
    BY <1>1, <1>3
  <2> QED BY <1>3, <2>1 DEF Changing
<1>4. CASE f \in ap.wait /\ f.c = c /\ ap'.wait = ap.wait \ {f}
           /\ ap'.conn = IF ok /\ f.type = "CONN_CREATE" THEN [ap.conn EXCEPT ![f.c] = f.to]
                         ELSE IF ok /\ f.type = "CONN_DESTROY" THEN [ap.conn EXCEPT ![f.c] = Unconnected]
                         ELSE ap.conn
  <2>1. Changing(c) /\ ~Changing(c)'
    BY <1>4 DEF Changing, WaitInv
  <2>2. f.type \in Changes /\ (f.type = "CONN_CREATE" => ap.conn[c] = Unconnected)
    BY <1>4 DEF WaitInv
  <2>3. CASE f.type = "CONN_CREATE" /\ ok
    <3>1. ap'.conn = [ap.conn EXCEPT ![f.c] = f.to]
      BY <1>4, <2>3, Zenon
    <3>2. ap'.conn[c] = f.to
      BY <1>1, <1>4, <3>1
    <3>3. Settles(f, ok, c)
      BY <1>4, <2>3, <3>2, Zenon DEF Settles
    <3> QED BY <1>4, <2>1, <3>3
  <2>4. CASE f.type = "CONN_CREATE" /\ ~ok
    <3>1. ap'.conn = ap.conn
      BY <1>4, <2>4, Zenon
    <3>2. Settles(f, ok, c)
      BY <1>4, <2>2, <2>4, <3>1, Zenon DEF Settles
    <3> QED BY <1>4, <2>1, <3>2
  <2>5. CASE f.type = "CONN_DESTROY"
    <3>1. ok /\ f.type # "CONN_CREATE"
      BY <2>5
    <3>2. ap'.conn = [ap.conn EXCEPT ![f.c] = Unconnected]
      BY <1>4, <2>5, <3>1, Zenon
    <3>3. ap'.conn[c] = Unconnected
      BY <1>1, <1>4, <3>2
    <3>4. Settles(f, ok, c)
      BY <1>4, <2>5, <3>3, Zenon DEF Settles
    <3> QED BY <1>4, <2>1, <3>4
  <2> QED BY <2>2, <2>3, <2>4, <2>5 DEF Changes
<1> QED BY <1>2, <1>3, <1>4 DEF Learnt

(* A connection that wq waited for.                                        *)
LEMMA ReturnTable ==
  ASSUME TypeInv, ReturnStep
  PROVE  /\ \A c \in ApCports : Grows(c)
         /\ \E ok \in BOOLEAN : Learnt(wq.frame, ok)
         /\ wq.frame \in Frames
<1>1. wq.frame \in Frames
  BY DEF TypeInv, WqType, Works
<1>2. map \in [ApCports -> Entries] /\ wq.frame.c \in ApCports
  BY <1>1, HostTypes
<1> QED BY <1>1, <1>2 DEF ReturnStep, Connected, Grows

-----------------------------------------------------------------------------
(* Every step keeps the invariant, part by part.                           *)

(* Cport 0 is connected for every frame on it.                             *)
LEMMA ZeroNext ==
  ASSUME TypeInv, ZeroInv, HostStep
  PROVE  ZeroInv'
<1>1. Len(inbox) \in Nat /\ End \in 1..End
  BY HostTypes DEF End
<1>2. CASE TakeStep
  <2>1. Taking /\ TakeTable
    BY <1>2, TakenTable
  <2>2. /\ Len(inbox) > 0 /\ Len(inbox') = Len(inbox) - 1
        /\ \A k \in 1..Len(inbox') : k + 1 \in 1..Len(inbox) /\ inbox'[k] = inbox[k + 1]
    BY <2>1, TakenQueue
  <2>3. ap'.session = ap.session
    BY <1>2, TakenHost DEF Learnt
  <2>4. ASSUME NEW k \in 1..Len(inbox'), inbox'[k].type \in GreybusTypes, inbox'[k].cport = 0
        PROVE  Up0(k)'
    <3>1. Up0(k + 1) /\ k \in 1..Len(inbox)
      BY <1>1, <2>2, <2>4 DEF ZeroInv
    <3> QED BY <2>1, <3>1, Up0Take
  <2>5. ASSUME ap'.session \in {"start", "up"} PROVE Up0(End)'
    <3> DEFINE k == Len(inbox)
    <3>1. Up0(k + 1) /\ k \in 1..Len(inbox)
      BY <1>1, <2>2, <2>3, <2>5 DEF ZeroInv, End
    <3>2. Len(inbox') + 1 = k
      BY <1>1, <2>2
    <3>3. ASSUME NEW m \in 1..Len(inbox), Up0(m + 1) PROVE Up0(m)'
      BY <2>1, <3>3, Up0Take
    <3>4. PICK m \in 1..Len(inbox) : m = k /\ Up0(m + 1)
      BY <3>1
    <3>5. Up0(m)' /\ End' = m
      BY <3>2, <3>3, <3>4 DEF End
    <3> QED BY <3>5
  <2> QED BY <2>4, <2>5 DEF ZeroInv
<1>3. CASE QuietStep \/ ReturnStep
  <2>1. inbox' = inbox /\ ap'.session = ap.session /\ \A c \in ApCports : Grows(c)
    BY <1>3, ReturnTable DEF QuietStep, ReturnStep, Learnt, Grows
  <2>2. \A k \in 1..End : Up0(k) => Up0(k)'
    BY <2>1, UpSame
  <2>3. End' = End
    BY <2>1 DEF End
  <2>4. ASSUME ap'.session \in {"start", "up"} PROVE Up0(End)'
    <3>1. Up0(End)
      BY <2>1, <2>4 DEF ZeroInv
    <3>2. PICK m \in 1..End : m = End
      BY <1>1
    <3>3. Up0(m)'
      BY <2>2, <3>1, <3>2
    <3> QED BY <2>3, <3>2, <3>3
  <2>5. \A k \in 1..Len(inbox) : k \in 1..End
    BY <1>1 DEF End
  <2> QED BY <2>1, <2>2, <2>4, <2>5 DEF ZeroInv
<1>4. ASSUME NEW f \in Frames, Post(f), map' = map,
             f.type \in GreybusTypes /\ f.cport = 0 => Up0(End),
             ap'.session \in {"start", "up"} => f.type = "START" \/ (Up0(End) /\ ~Breaks(f, 0))
      PROVE  ZeroInv'
  <2>1. /\ Len(inbox') = Len(inbox) + 1
        /\ \A k \in 1..Len(inbox) : inbox'[k] = inbox[k]
        /\ inbox'[Len(inbox) + 1] = f
    BY <1>4, PostElements
  <2>2. /\ \A k \in 1..End : Up0(k) => Up0(k)'
        /\ ap'.session \in {"start", "up"} => Up0(End)'
    BY <1>4, Up0Post
  <2>3. ASSUME NEW k \in 1..Len(inbox'), inbox'[k].type \in GreybusTypes, inbox'[k].cport = 0
        PROVE  Up0(k)'
    <3>1. k \in 1..End
      BY <1>1, <2>1 DEF End
    <3>2. Up0(k)
      BY <1>1, <1>4, <2>1, <2>3, <3>1 DEF ZeroInv, End
    <3> QED BY <2>2, <3>1, <3>2
  <2> QED BY <2>2, <2>3 DEF ZeroInv
<1>5. CASE BeginStep("START", "start") \/ BeginStep("STOP", "down")
  <2>1. PICK ty \in {"START", "STOP"} :
          Post(Command(ty)) /\ map' = map /\ ap'.session = IF ty = "START" THEN "start" ELSE "down"
    BY <1>5 DEF BeginStep
  <2>2. Command(ty) \in Frames /\ Command(ty).type = ty
    BY CommandFields
  <2>3. ap'.session \in {"start", "up"} => ty = "START"
    BY <2>1
  <2>4. ty \notin GreybusTypes
    BY KindsOfFrames
  <2> QED BY <1>4, <2>1, <2>2, <2>3, <2>4
<1>6. CASE \E ty \in Responses : AnswerStep(ty)
  <2>1. PICK ty \in Responses : AnswerStep(ty)
    BY <1>6
  <2>2. Command(ty) \in Frames /\ Command(ty).type = ty /\ ~Breaks(Command(ty), 0)
    BY CommandFields, KindsOfFrames DEF Breaks, Changes
  <2>3. Post(Command(ty)) /\ map' = map /\ Up0(End)
    BY <2>1 DEF AnswerStep, ZeroInv
  <2> QED BY <1>4, <2>2, <2>3
<1>7. CASE \E f \in Frames, answered \in BOOLEAN : AskStep(f, answered)
  <2>1. PICK f \in Frames, answered \in BOOLEAN : AskStep(f, answered)
    BY <1>7
  <2>2. Post(f) /\ map' = map /\ Up0(End) /\ f.type \in GreybusTypes
        /\ (ap'.session = "up" => f.to # SvcTarget) /\ ap'.session \in {"up", "closing"}
    BY <2>1 DEF AskStep, ZeroInv
  <2>3. f.type = "CONN_DESTROY" /\ f.c = 0 => f.to = SvcTarget
    <3>1. AskKind(f, f.type, answered)
      BY <2>1 DEF AskStep
    <3> QED BY <3>1 DEF AskKind, ControlReplies, ControlEmptyReplies, ControlPayloadReplies
  <2>4. ap'.session \in {"start", "up"} => ~Breaks(f, 0)
    BY <2>2, <2>3, KindsOfFrames DEF Breaks
  <2> QED BY <1>4, <2>2, <2>4
<1> QED BY <1>2, <1>3, <1>5, <1>6, <1>7 DEF HostStep, TakeStep

(* The frames of requests stay in order.                                   *)
LEMMA IdNext ==
  ASSUME TypeInv, IdInv, HostStep
  PROVE  IdInv'
<1>1. Len(inbox) \in Nat /\ asks \in Nat /\ \A k \in 1..Len(inbox) : inbox[k].id \in Nat
  BY HostTypes
<1>2. CASE TakeStep
  <2>1. Taking /\ TakeTable
    BY <1>2, TakenTable
  <2>2. /\ Len(inbox) > 0 /\ Len(inbox') = Len(inbox) - 1
        /\ \A k \in 1..Len(inbox') : k + 1 \in 1..Len(inbox) /\ inbox'[k] = inbox[k + 1]
        /\ Head(inbox) = inbox[1] /\ 1 \in 1..Len(inbox) /\ asks' = asks
    BY <2>1, TakenQueue DEF Taking
  <2>3. wq'.pc = "connect" => inbox[1].type = "CONN_CREATE" /\ wq'.frame = inbox[1]
    BY <1>2, <2>1, <2>2 DEF TakeStep, StartStep, StopStep, FrameStep, DestroyStep, WaitStep, CreateStep, Taking
  <2>4. \A k \in 1..Len(inbox') : inbox'[k].id <= asks' /\ (inbox'[k].type \in Changes => inbox'[k].id # 0)
    BY <2>2 DEF IdInv
  <2>5. ASSUME NEW j \in 1..Len(inbox'), NEW k \in 1..Len(inbox'), j < k, inbox'[k].id # 0
        PROVE  inbox'[j].id < inbox'[k].id
    <3>1. j + 1 \in 1..Len(inbox) /\ k + 1 \in 1..Len(inbox) /\ j + 1 < k + 1
          /\ inbox'[j] = inbox[j + 1] /\ inbox'[k] = inbox[k + 1]
      BY <1>1, <2>2, <2>5
    <3> QED BY <2>5, <3>1 DEF IdInv
  <2>6. ASSUME wq'.pc = "connect"
        PROVE  /\ wq'.frame.id \in 1..asks' /\ wq'.frame.type = "CONN_CREATE"
               /\ \A k \in 1..Len(inbox') : inbox'[k].id # 0 => wq'.frame.id < inbox'[k].id
    <3>1. inbox[1].id <= asks /\ inbox[1].id # 0 /\ inbox[1].id \in Nat
      BY <1>1, <2>2, <2>3, <2>6 DEF IdInv, Changes
    <3>2. ASSUME NEW k \in 1..Len(inbox'), inbox'[k].id # 0 PROVE inbox[1].id < inbox'[k].id
      <4>1. k + 1 \in 1..Len(inbox) /\ 1 < k + 1 /\ inbox'[k] = inbox[k + 1]
        BY <1>1, <2>2
      <4> QED BY <2>2, <3>2, <4>1 DEF IdInv
    <3> QED BY <1>1, <2>2, <2>3, <2>6, <3>1, <3>2
  <2> QED BY <2>4, <2>5, <2>6 DEF IdInv
<1>3. CASE QuietStep \/ ReturnStep
  <2>1. inbox' = inbox /\ asks' = asks
        /\ (wq'.pc = "connect" => wq.pc = "connect" /\ wq'.frame = wq.frame)
    BY <1>3 DEF QuietStep, ReturnStep
  <2> QED BY <2>1 DEF IdInv
<1>4. ASSUME NEW f \in Frames, Post(f), wq' = wq, asks' \in Nat, asks <= asks',
             f.id <= asks', f.type \in Changes => f.id # 0, f.id # 0 => f.id > asks
      PROVE  IdInv'
  <2>1. /\ Len(inbox') = Len(inbox) + 1
        /\ \A k \in 1..Len(inbox) : inbox'[k] = inbox[k]
        /\ inbox'[Len(inbox) + 1] = f
    BY <1>4, PostElements
  <2>2. f.id \in Nat
    BY HostTypes
  <2>3. ASSUME NEW k \in 1..Len(inbox')
        PROVE inbox'[k].id <= asks' /\ (inbox'[k].type \in Changes => inbox'[k].id # 0)
    BY <1>1, <1>4, <2>1, <2>2 DEF IdInv
  <2>4. ASSUME NEW j \in 1..Len(inbox'), NEW k \in 1..Len(inbox'), j < k, inbox'[k].id # 0
        PROVE  inbox'[j].id < inbox'[k].id
    <3>1. j \in 1..Len(inbox) /\ inbox'[j] = inbox[j] /\ inbox[j].id <= asks
      BY <1>1, <2>1, <2>4 DEF IdInv
    <3>2. CASE k \in 1..Len(inbox)
      BY <2>1, <2>4, <3>1, <3>2 DEF IdInv
    <3>3. CASE k = Len(inbox) + 1
      BY <1>1, <1>4, <2>1, <2>2, <2>4, <3>1, <3>3
    <3> QED BY <1>1, <2>1, <3>2, <3>3
  <2>5. ASSUME wq'.pc = "connect"
        PROVE  /\ wq'.frame.id \in 1..asks' /\ wq'.frame.type = "CONN_CREATE"
               /\ \A k \in 1..Len(inbox') : inbox'[k].id # 0 => wq'.frame.id < inbox'[k].id
    <3>1. /\ wq.frame.id \in 1..asks /\ wq.frame.type = "CONN_CREATE"
          /\ \A k \in 1..Len(inbox) : inbox[k].id # 0 => wq.frame.id < inbox[k].id
      BY <1>4, <2>5 DEF IdInv
    <3>2. ASSUME NEW k \in 1..Len(inbox'), inbox'[k].id # 0 PROVE wq.frame.id < inbox'[k].id
      BY <1>1, <1>4, <2>1, <2>2, <3>1, <3>2
    <3> QED BY <1>1, <1>4, <3>1, <3>2
  <2> QED BY <2>3, <2>4, <2>5 DEF IdInv
<1>5. CASE BeginStep("START", "start") \/ BeginStep("STOP", "down") \/ \E ty \in Responses : AnswerStep(ty)
  <2>1. PICK ty \in Responses \cup {"START", "STOP"} : Post(Command(ty)) /\ wq' = wq /\ asks' = asks
    BY <1>5 DEF BeginStep, AnswerStep
  <2>2. Command(ty) \in Frames /\ Command(ty).type \notin Changes /\ Command(ty).id = 0
    BY CommandFields, KindsOfFrames
  <2> QED BY <1>1, <1>4, <2>1, <2>2
<1>6. CASE \E f \in Frames, answered \in BOOLEAN : AskStep(f, answered)
  <2>1. PICK f \in Frames, answered \in BOOLEAN : AskStep(f, answered)
    BY <1>6
  <2> QED BY <1>1, <1>4, <2>1 DEF AskStep
<1> QED BY <1>2, <1>3, <1>5, <1>6 DEF HostStep, TakeStep

(* A CONN_CREATE that is answered to a host that waits for it was sent     *)
(* after everything that ends its connection, and that has been handled.   *)
LEMMA CreateSpared ==
  ASSUME TypeInv, IdInv, WaitInv, NEW f \in ap.wait, f.type = "CONN_CREATE",
         \/ TakeStep /\ f = inbox[1]
         \/ ReturnStep /\ f = wq.frame
  PROVE  \A k \in 1..Len(inbox') : ~Breaks(inbox'[k], f.c)
<1>1. Len(inbox) \in Nat /\ \A k \in 1..Len(inbox) : inbox[k].id \in Nat
  BY HostTypes
<1>2. \A k \in 1..Len(inbox) : Breaks(inbox[k], f.c) => \E p \in (k + 1)..Len(inbox) : inbox[p] = f
  BY DEF WaitInv
<1>3. CASE TakeStep /\ f = inbox[1]
  <2>1. /\ Len(inbox) > 0 /\ Len(inbox') = Len(inbox) - 1
        /\ \A k \in 1..Len(inbox') : k + 1 \in 1..Len(inbox) /\ inbox'[k] = inbox[k + 1]
    BY <1>3, TakenTable, TakenQueue
  <2>2. 1 \in 1..Len(inbox) /\ inbox[1].id # 0
    BY <1>1, <1>3, <2>1 DEF IdInv, Changes
  <2>3. ASSUME NEW p \in 2..Len(inbox) PROVE inbox[p] # f
    BY <1>1, <1>3, <2>2, <2>3 DEF IdInv
  <2> QED BY <1>1, <1>2, <2>1, <2>3
<1>4. CASE ReturnStep /\ f = wq.frame
  <2>1. inbox' = inbox /\ wq.frame.id \in Nat /\ wq.frame.id # 0
        /\ \A k \in 1..Len(inbox) : inbox[k].id # 0 => wq.frame.id < inbox[k].id
    BY <1>4, HostTypes DEF ReturnStep, IdInv
  <2>2. \A p \in 1..Len(inbox) : inbox[p] # f
    BY <1>1, <1>4, <2>1
  <2> QED BY <1>1, <1>2, <2>1, <2>2
<1> QED BY <1>3, <1>4

(* The requests that the host waits for.                                   *)
LEMMA WaitNext ==
  ASSUME TypeInv, IdInv, WaitInv, HostStep
  PROVE  WaitInv'
<1>1. Len(inbox) \in Nat /\ asks \in Nat /\ ap.wait \subseteq Frames /\ \A f \in Frames : f.c \in ApCports
  BY HostTypes
<1>2. ASSUME NEW f \in Frames, NEW ok \in BOOLEAN, Learnt(f, ok), ok \/ f.type = "CONN_CREATE", asks' = asks,
             \A g \in ap'.wait : g.type = "CONN_CREATE" => \A k \in 1..Len(inbox') :
               Breaks(inbox'[k], g.c) => \E p \in (k + 1)..Len(inbox') : inbox'[p] = g
      PROVE  WaitInv'
  <2>1. ap'.wait \subseteq ap.wait
    BY <1>2, ApCportZero DEF Learnt
  <2>2. ASSUME NEW g \in ap'.wait, g.type = "CONN_CREATE" PROVE g.c # 0 /\ ap'.conn[g.c] = Unconnected
    <3>1. g \in ap.wait /\ g.c \in ApCports \ {0} /\ ap.conn[g.c] = Unconnected
      BY <1>1, <2>1, <2>2 DEF WaitInv
    <3>2. Changing(g.c)'
      BY <2>2 DEF Changing
    <3>3. \A c \in ApCports \ {0} : Changing(c)' => ap'.conn[c] = ap.conn[c]
      BY <1>2, LearntConn
    <3>4. PICK c \in ApCports \ {0} : c = g.c
      BY <3>1
    <3>5. Changing(c)'
      BY <2>2, <3>4 DEF Changing
    <3> QED BY <3>1, <3>3, <3>4, <3>5
  <2> QED BY <1>2, <2>1, <2>2 DEF WaitInv
<1>3. CASE TakeStep
  <2>1. /\ Len(inbox) > 0 /\ Len(inbox') = Len(inbox) - 1 /\ asks' = asks /\ inbox[1] \in Frames
        /\ \A k \in 1..Len(inbox') : k + 1 \in 1..Len(inbox) /\ inbox'[k] = inbox[k + 1]
    BY <1>3, TakenTable, TakenQueue DEF Taking
  <2>2. ASSUME NEW g \in ap.wait, g.type = "CONN_CREATE", NEW k \in 1..Len(inbox'), Breaks(inbox'[k], g.c)
        PROVE  \E p \in (k + 1)..Len(inbox') : inbox'[p] = g
    <3> DEFINE m == k + 1
    <3>0. m \in 1..Len(inbox) /\ inbox'[k] = inbox[m]
      BY <2>1
    <3> HIDE DEF m
    <3>1. PICK p \in (m + 1)..Len(inbox) : inbox[p] = g
      BY <2>2, <3>0 DEF WaitInv
    <3> USE DEF m
    <3>2. p - 1 \in (k + 1)..Len(inbox') /\ p - 1 \in 1..Len(inbox') /\ (p - 1) + 1 = p
      BY <1>1, <2>1
    <3> QED BY <2>1, <3>1, <3>2
  <2>3. CASE ap' = ap
    BY <2>1, <2>2, <2>3 DEF WaitInv
  <2>4. CASE \E ok \in BOOLEAN : Learnt(inbox[1], ok) /\ (ok \/ inbox[1].type = "CONN_CREATE")
    <3>1. PICK ok \in BOOLEAN : Learnt(inbox[1], ok) /\ (ok \/ inbox[1].type = "CONN_CREATE")
      BY <2>4
    <3>2. ap'.wait \subseteq ap.wait
      BY <3>1 DEF Learnt
    <3> QED BY <1>2, <2>1, <2>2, <3>1, <3>2
  <2> QED BY <1>3, <2>3, <2>4, TakenHost
<1>4. CASE ReturnStep
  <2>1. PICK ok \in BOOLEAN : Learnt(wq.frame, ok)
    BY <1>4, ReturnTable
  <2>2. wq.frame \in Frames /\ inbox' = inbox /\ asks' = asks /\ wq.frame.type = "CONN_CREATE"
    BY <1>4, ReturnTable DEF ReturnStep, IdInv
  <2>3. ap'.wait \subseteq ap.wait
    BY <2>1 DEF Learnt
  <2> QED BY <1>2, <2>1, <2>2, <2>3 DEF WaitInv
<1>5. CASE QuietStep
  BY <1>5 DEF QuietStep, WaitInv
<1>6. CASE BeginStep("START", "start") \/ BeginStep("STOP", "down")
  <2>1. ap'.wait = {}
    BY <1>6 DEF BeginStep
  <2> QED BY <2>1 DEF WaitInv
<1>7. ASSUME NEW f \in Frames, Post(f), NEW g \in ap.wait, g.type = "CONN_CREATE", ~Breaks(f, g.c),
             NEW k \in 1..Len(inbox'), Breaks(inbox'[k], g.c)
      PROVE  \E p \in (k + 1)..Len(inbox') : inbox'[p] = g
  <2>1. /\ Len(inbox') = Len(inbox) + 1
        /\ \A j \in 1..Len(inbox) : inbox'[j] = inbox[j]
        /\ inbox'[Len(inbox) + 1] = f
    BY <1>7, PostElements
  <2>2. k \in 1..Len(inbox) /\ Breaks(inbox[k], g.c)
    BY <1>1, <1>7, <2>1
  <2>3. PICK p \in (k + 1)..Len(inbox) : inbox[p] = g
    BY <1>7, <2>2 DEF WaitInv
  <2> QED BY <1>1, <2>1, <2>2, <2>3
<1>8. CASE \E ty \in Responses : AnswerStep(ty)
  <2>1. PICK ty \in Responses : AnswerStep(ty)
    BY <1>8
  <2>2. Command(ty) \in Frames /\ \A c : ~Breaks(Command(ty), c)
    BY CommandFields, KindsOfFrames DEF Breaks, Changes
  <2>3. Post(Command(ty)) /\ asks' = asks /\ ap'.wait = ap.wait /\ ap'.conn = ap.conn
    BY <2>1 DEF AnswerStep
  <2>4. \A g \in ap.wait : g.type = "CONN_CREATE" => \A k \in 1..Len(inbox') :
               Breaks(inbox'[k], g.c) => \E p \in (k + 1)..Len(inbox') : inbox'[p] = g
    BY <1>7, <2>2, <2>3
  <2> QED BY <2>3, <2>4 DEF WaitInv
<1>9. CASE \E f \in Frames, answered \in BOOLEAN : AskStep(f, answered)
  <2>1. PICK f \in Frames, answered \in BOOLEAN : AskStep(f, answered)
    BY <1>9
  <2>2. Post(f) /\ asks' = asks + 1 /\ f.id = asks + 1 /\ ap'.conn = ap.conn
        /\ f.type \in GreybusTypes /\ ap'.wait \subseteq ap.wait \cup {f}
    BY <2>1 DEF AskStep
  <2>3. AskKind(f, f.type, answered)
    BY <2>1 DEF AskStep
  <2>4. /\ f.c # 0 => f.type \in Changes /\ ~Busy(f.c)
        /\ f.type = "CONN_CREATE" => f.c # 0 /\ ap.conn[f.c] = Unconnected
    BY <1>1, <2>3 DEF AskKind, Changes, ControlReplies, ControlEmptyReplies, ControlPayloadReplies
  <2>5. f.c # 0 => \A g \in ap.wait : g.c # f.c
    BY <2>4 DEF Busy
  <2>6. \A g \in ap'.wait : g.id \in 1..asks' /\ (g.c # 0 => g.type \in Changes)
    BY <1>1, <2>2, <2>4 DEF WaitInv
  <2>7. \A g, h \in ap'.wait : g.c # 0 /\ g.c = h.c => g = h
    BY <2>2, <2>5 DEF WaitInv
  <2>8. ASSUME NEW g \in ap'.wait, g.type = "CONN_CREATE", NEW k \in 1..Len(inbox'), Breaks(inbox'[k], g.c)
        PROVE  \E p \in (k + 1)..Len(inbox') : inbox'[p] = g
    <3>1. CASE g \in ap.wait
      <4>1. g.c # 0
        BY <2>8, <3>1 DEF WaitInv
      <4>2. ~Breaks(f, g.c)
        BY <2>2, <2>5, <3>1, <4>1, KindsOfFrames DEF Breaks
      <4> QED BY <1>7, <2>2, <2>8, <3>1, <4>2
    <3>2. CASE g = f
      <4>1. /\ Len(inbox') = Len(inbox) + 1
            /\ inbox'[Len(inbox) + 1] = f
        BY <2>2, PostElements
      <4>2. ~Breaks(f, g.c)
        BY <2>8, <3>2 DEF Breaks
      <4>3. k # Len(inbox) + 1
        BY <2>8, <4>1, <4>2
      <4> QED BY <1>1, <3>2, <4>1, <4>3
    <3> QED BY <2>2, <2>8, <3>1, <3>2
  <2>9. \A g \in ap'.wait : g.type = "CONN_CREATE" => g.c # 0 /\ ap'.conn[g.c] = Unconnected
    BY <2>2, <2>4 DEF WaitInv
  <2> QED BY <2>6, <2>7, <2>8, <2>9 DEF WaitInv
<1> QED BY <1>3, <1>4, <1>5, <1>6, <1>8, <1>9 DEF HostStep, TakeStep

(* A cport other than 0 is connected for every frame on it.                *)
LEMMA CportNext ==
  ASSUME TypeInv, IdInv, WaitInv, CportInv, HostStep
  PROVE  CportInv'
<1>1. /\ Len(inbox) \in Nat /\ End \in 1..End /\ ap.wait \subseteq Frames
      /\ \A f \in Frames : f.c \in ApCports /\ f.cport \in ApCports
      /\ \A k \in 1..Len(inbox) : inbox[k] \in Frames
  BY HostTypes DEF End
(* What the host may use after an answer: what it might before, or what    *)
(* was created.                                                            *)
<1>2. ASSUME NEW f \in Frames, NEW ok \in BOOLEAN, Learnt(f, ok), ok \/ f.type = "CONN_CREATE",
             NEW c \in ApCports \ {0}, ap'.conn[c] # Unconnected, ~Changing(c)'
      PROVE  \/ ap.conn[c] # Unconnected /\ ~Changing(c)
             \/ f \in ap.wait /\ f.type = "CONN_CREATE" /\ f.c = c /\ f \notin ap'.wait /\ ok
  <2>1. /\ ~Changing(c) => ap'.conn[c] = ap.conn[c]
        /\ Changing(c) => Settles(f, ok, c)
    BY <1>2, LearntConn
  <2> QED BY <1>2, <2>1 DEF Settles
<1>3. CASE TakeStep
  <2>1. Taking /\ TakeTable
    BY <1>3, TakenTable
  <2>2. /\ Len(inbox) > 0 /\ Len(inbox') = Len(inbox) - 1 /\ inbox[1] \in Frames /\ Head(inbox) = inbox[1]
        /\ \A k \in 1..Len(inbox') : k + 1 \in 1..Len(inbox) /\ inbox'[k] = inbox[k + 1]
    BY <2>1, TakenQueue
  <2>3. ASSUME NEW k \in 1..Len(inbox'), inbox'[k].cport # 0 PROVE Up(inbox[k].cport, k)'
    <3>1. PICK c \in ApCports : c = inbox[k + 1].cport
      BY <1>1, <2>2
    <3>2. Up(c, k + 1) /\ k \in 1..Len(inbox)
      BY <1>1, <2>2, <2>3, <3>1 DEF CportInv
    <3>3. Up(c, k)'
      BY <2>1, <3>2, UpTake
    <3> QED BY <2>2, <3>1, <3>3
  <2>4. ASSUME NEW c \in ApCports \ {0}, ap.conn[c] # Unconnected, ~Changing(c) PROVE Up(c, End)'
    <3>1. Up(c, End)
      BY <2>4 DEF CportInv
    <3>2. PICK m \in 1..Len(inbox) : m = Len(inbox) /\ m + 1 = End /\ End' = m
      BY <1>1, <2>2 DEF End
    <3>3. Up(c, m)'
      BY <2>1, <3>1, <3>2, UpTake
    <3> QED BY <3>2, <3>3
  <2>5. ASSUME NEW c \in ApCports \ {0}, ap'.conn[c] # Unconnected, ~Changing(c)' PROVE Up(c, End)'
    <3>1. CASE ap' = ap
      BY <2>4, <2>5, <3>1 DEF Changing
    <3>2. CASE ap' # ap
      <4>1. PICK ok \in BOOLEAN : Learnt(inbox[1], ok) /\ (ok \/ inbox[1].type = "CONN_CREATE")
        BY <1>3, <3>2, TakenHost
      <4>2. CASE ap.conn[c] # Unconnected /\ ~Changing(c)
        BY <2>4, <4>2
      <4>3. CASE /\ inbox[1] \in ap.wait /\ inbox[1].type = "CONN_CREATE" /\ inbox[1].c = c
                 /\ inbox[1] \notin ap'.wait
        <5>1. CreateStep
          BY <1>3, <2>2, <3>2, <4>3, KindsOfFrames DEF TakeStep, StartStep, StopStep, FrameStep, DestroyStep, WaitStep
        <5>2. map'[c].node_intf # NULL
          <6>1. Connected(inbox[1])
            BY <2>2, <5>1 DEF CreateStep
          <6>2. CASE Learnt(inbox[1], FALSE)
            <7>1. ap.conn[c] # Unconnected
              BY <2>5, <4>3, <6>2 DEF Learnt
            <7> QED BY <4>3, <7>1 DEF WaitInv
          <6> QED BY <4>3, <6>1, <6>2 DEF Connected
        <5>3. \A k \in 1..Len(inbox') : ~Breaks(inbox'[k], c)
          BY <1>3, <4>3, CreateSpared
        <5>4. Len(inbox') = (Len(inbox') + 1) - 1
          BY <1>1, <2>2
        <5> QED BY <5>2, <5>3, <5>4 DEF Up, Spared, End
      <4> QED BY <1>2, <2>2, <2>5, <4>1, <4>2, <4>3
    <3> QED BY <3>1, <3>2
  <2> QED BY <2>3, <2>5 DEF CportInv
<1>4. ASSUME inbox' = inbox, \A c \in ApCports : Grows(c)
      PROVE  /\ \A k \in 1..Len(inbox') : inbox'[k].cport # 0 => Up(inbox[k].cport, k)'
             /\ \A c \in ApCports \ {0} : ap.conn[c] # Unconnected /\ ~Changing(c) => Up(c, End)'
  <2>1. \A c \in ApCports, k \in 1..End : Up(c, k) => Up(c, k)'
    BY <1>4, UpSame
  <2>2. ASSUME NEW k \in 1..Len(inbox'), inbox'[k].cport # 0 PROVE Up(inbox[k].cport, k)'
    <3>1. PICK c \in ApCports : c = inbox[k].cport
      BY <1>1, <1>4
    <3>2. Up(c, k) /\ k \in 1..End
      BY <1>1, <1>4, <2>2, <3>1 DEF CportInv, End
    <3>3. Up(c, k)'
      BY <2>1, <3>2
    <3> QED BY <1>4, <3>1, <3>3
  <2>3. ASSUME NEW c \in ApCports \ {0}, ap.conn[c] # Unconnected, ~Changing(c) PROVE Up(c, End)'
    <3>1. Up(c, End)
      BY <2>3 DEF CportInv
    <3>2. PICK m \in 1..End : m = End /\ End' = m
      BY <1>1, <1>4 DEF End
    <3>3. Up(c, m)'
      BY <2>1, <3>1, <3>2
    <3> QED BY <3>2, <3>3
  <2> QED BY <2>2, <2>3
<1>5. CASE ReturnStep
  <2>1. inbox' = inbox /\ wq.frame \in Frames /\ (\A c \in ApCports : Grows(c)) /\ wq.frame.type = "CONN_CREATE"
        /\ Connected(wq.frame)
    BY <1>5, ReturnTable DEF ReturnStep, IdInv
  <2>2. PICK ok \in BOOLEAN : Learnt(wq.frame, ok)
    BY <1>5, ReturnTable
  <2>3. ASSUME NEW c \in ApCports \ {0}, ap'.conn[c] # Unconnected, ~Changing(c)' PROVE Up(c, End)'
    <3>1. CASE ap.conn[c] # Unconnected /\ ~Changing(c)
      BY <1>4, <2>1, <3>1
    <3>2. CASE wq.frame \in ap.wait /\ wq.frame.c = c /\ wq.frame \notin ap'.wait
      <4>1. map'[c].node_intf # NULL
        <5>1. CASE Learnt(wq.frame, FALSE)
          <6>1. ap.conn[c] # Unconnected
            BY <2>3, <3>2, <5>1 DEF Learnt
          <6> QED BY <2>1, <3>2, <6>1 DEF WaitInv
        <5> QED BY <2>1, <3>2, <5>1 DEF Connected
      <4>2. \A k \in 1..Len(inbox') : ~Breaks(inbox'[k], c)
        BY <1>5, <2>1, <3>2, CreateSpared
      <4>3. Len(inbox') = (Len(inbox') + 1) - 1
        BY <1>1, <2>1
      <4> QED BY <4>1, <4>2, <4>3 DEF Up, Spared, End
    <3> QED BY <1>2, <2>1, <2>2, <2>3, <3>1, <3>2
  <2> QED BY <1>4, <2>1, <2>3 DEF CportInv
<1>6. CASE QuietStep
  <2>1. inbox' = inbox /\ ap' = ap /\ \A c \in ApCports : Grows(c)
    BY <1>6 DEF QuietStep, Grows
  <2> QED BY <1>4, <2>1 DEF CportInv, Changing
<1>7. ASSUME NEW f \in Frames, Post(f), map' = map,
             f.cport # 0 => Up(f.cport, End),
             \A c \in ApCports \ {0} : ap'.conn[c] # Unconnected /\ ~Changing(c)' => Up(c, End) /\ ~Breaks(f, c)
      PROVE  CportInv'
  <2>1. /\ Len(inbox') = Len(inbox) + 1
        /\ \A j \in 1..Len(inbox) : inbox'[j] = inbox[j]
        /\ inbox'[Len(inbox) + 1] = f
    BY <1>7, PostElements
  <2>2. \A c \in ApCports : /\ \A k \in 1..End : Up(c, k) => Up(c, k)'
                            /\ Up(c, End) /\ ~Breaks(f, c) => Up(c, End)'
    BY <1>7, UpPost
  <2>3. ASSUME NEW k \in 1..Len(inbox'), inbox'[k].cport # 0 PROVE Up(inbox[k].cport, k)'
    <3>1. PICK c \in ApCports : c = inbox'[k].cport
      BY <1>1, <2>1
    <3>2. k \in 1..End
      BY <1>1, <2>1 DEF End
    <3>3. Up(c, k)
      <4>1. CASE k \in 1..Len(inbox)
        BY <2>1, <2>3, <3>1, <4>1 DEF CportInv
      <4>2. CASE k = End
        BY <1>7, <2>1, <2>3, <3>1, <4>2 DEF End
      <4> QED BY <1>1, <3>2, <4>1, <4>2 DEF End
    <3>4. Up(c, k)'
      BY <2>2, <3>2, <3>3
    <3> QED BY <3>1, <3>4
  <2>4. ASSUME NEW c \in ApCports \ {0}, ap'.conn[c] # Unconnected, ~Changing(c)' PROVE Up(c, End)'
    BY <1>7, <2>2, <2>4
  <2> QED BY <2>3, <2>4 DEF CportInv
<1>8. CASE BeginStep("START", "start") \/ BeginStep("STOP", "down")
  <2>1. PICK ty \in {"START", "STOP"} :
          Post(Command(ty)) /\ map' = map /\ ap'.conn = [c \in ApCports |-> Unconnected]
    BY <1>8 DEF BeginStep
  <2>2. Command(ty) \in Frames /\ Command(ty).cport = 0
    BY CommandFields
  <2> QED BY <1>7, <2>1, <2>2
<1>9. CASE \E ty \in Responses : AnswerStep(ty)
  <2>1. PICK ty \in Responses : AnswerStep(ty)
    BY <1>9
  <2>2. Command(ty) \in Frames /\ Command(ty).cport = 0 /\ \A c : ~Breaks(Command(ty), c)
    BY CommandFields, KindsOfFrames DEF Breaks, Changes
  <2>3. Post(Command(ty)) /\ map' = map /\ ap'.wait = ap.wait /\ ap'.conn = ap.conn
    BY <2>1 DEF AnswerStep
  <2>4. \A c \in ApCports \ {0} : ap'.conn[c] # Unconnected /\ ~Changing(c)' => Up(c, End)
    BY <2>3 DEF CportInv, Changing
  <2> QED BY <1>7, <2>2, <2>3, <2>4
<1>10. CASE \E f \in Frames, answered \in BOOLEAN : AskStep(f, answered)
  <2>1. PICK f \in Frames, answered \in BOOLEAN : AskStep(f, answered)
    BY <1>10
  <2>2. Post(f) /\ map' = map /\ ap'.conn = ap.conn /\ f.type \in GreybusTypes
        /\ ap.wait \subseteq ap'.wait /\ (answered => f \in ap'.wait)
    BY <2>1 DEF AskStep
  <2>3. AskKind(f, f.type, answered)
    BY <2>1 DEF AskStep
  <2>4. f.cport # 0 => ap.conn[f.cport] # Unconnected /\ ~Changing(f.cport)
    BY <2>3 DEF AskKind, Busy, Changing
  <2>5. f.type = "CONN_DESTROY" => answered
    BY <2>3 DEF AskKind, ControlReplies, ControlEmptyReplies, ControlPayloadReplies
  <2>6. f.cport # 0 => Up(f.cport, End)
    BY <1>1, <2>4 DEF CportInv
  <2>7. ASSUME NEW c \in ApCports \ {0}, ap'.conn[c] # Unconnected, ~Changing(c)'
        PROVE  Up(c, End) /\ ~Breaks(f, c)
    <3>1. ap.conn[c] # Unconnected /\ ~Changing(c)
      BY <2>2, <2>7 DEF Changing
    <3>2. ~Breaks(f, c)
      BY <2>2, <2>5, <2>7, KindsOfFrames DEF Breaks, Changing
    <3> QED BY <3>1, <3>2 DEF CportInv
  <2> QED BY <1>7, <2>2, <2>6, <2>7
<1> QED BY <1>3, <1>5, <1>6, <1>8, <1>9, <1>10 DEF HostStep, TakeStep

(* The last STOP is handled with an empty queue behind it.                 *)
LEMMA StopNext ==
  ASSUME TypeInv, StopInv, HostStep
  PROVE  StopInv'
<1>1. Len(inbox) \in Nat /\ inbox \in Seq(Frames)
  BY HostTypes DEF TypeInv, InboxType
<1>2. CASE TakeStep
  <2>1. Taking
    BY <1>2, TakenTable
  <2>2. /\ Len(inbox) > 0 /\ Len(inbox') = Len(inbox) - 1 /\ Head(inbox) = inbox[1]
        /\ \A k \in 1..Len(inbox') : k + 1 \in 1..Len(inbox) /\ inbox'[k] = inbox[k + 1]
    BY <2>1, TakenQueue
  <2>3. ap'.session = ap.session
    BY <1>2, TakenHost DEF Learnt
  <2> SUFFICES ASSUME ap.session = "down" PROVE StopInv'
    BY <2>3 DEF StopInv
  <2>4. inbox[Len(inbox)].type = "STOP" /\ wq.pc = "idle"
    BY <2>1 DEF StopInv, Taking
  <2>5. inbox' \in Seq(Frames)
    <3>1. inbox # <<>> /\ inbox' = Tail(inbox)
      BY <2>1 DEF Taking
    <3> QED BY <1>1, <3>1, HeadTailProperties
  <2>6. CASE Len(inbox) = 1
    <3>1. StopStep
      BY <1>2, <2>2, <2>4, <2>6, KindsOfFrames
         DEF TakeStep, StartStep, FrameStep, DestroyStep, WaitStep, CreateStep
    <3>2. inbox' = <<>>
      BY <2>2, <2>5, <2>6, EmptySeq
    <3>3. Off' /\ \A c \in ApCports : map'[c] = NoConnection
      <4>1. map' = [c \in ApCports |-> NoConnection] /\ Off'
        BY <3>1, Zenon DEF StopStep
      <4>2. \A c \in ApCports : map'[c] = NoConnection
        BY <4>1
      <4> QED BY <4>1, <4>2
    <3>4. wq'.pc = "idle"
      BY <2>4, <3>1 DEF StopStep
    <3> QED BY <3>2, <3>3, <3>4, Zenon DEF StopInv, Clean
  <2>7. CASE Len(inbox) # 1
    <3>1. Len(inbox') \in 1..Len(inbox') /\ Len(inbox') + 1 = Len(inbox)
      BY <1>1, <2>2, <2>7
    <3>2. inbox'[Len(inbox')].type = "STOP"
      BY <2>2, <2>4, <3>1
    <3>3. inbox' # <<>>
      BY <2>5, <3>1, EmptySeq
    <3> QED BY <3>2, <3>3 DEF StopInv
  <2> QED BY <2>6, <2>7
<1>3. CASE QuietStep \/ ReturnStep
  <2>1. inbox' = inbox /\ ap'.session = ap.session
    BY <1>3, ReturnTable DEF QuietStep, ReturnStep, Learnt
  <2>2. CASE ap.session = "down" /\ inbox = <<>> /\ wq.pc = "idle" /\ Clean
    <3>1. QuietStep /\ wq'.pc = "idle"
      BY <1>3, <2>2 DEF QuietStep, ReturnStep
    <3>2. Off /\ Off' /\ map' = map
      BY <2>2, <3>1, Zenon DEF QuietStep, Clean
    <3>3. Clean'
      BY <2>2, <3>2, Zenon DEF Clean
    <3> QED BY <2>1, <2>2, <3>1, <3>3, Zenon DEF StopInv
  <2> QED BY <2>1, <2>2, Zenon DEF StopInv
<1>4. CASE BeginStep("STOP", "down")
  <2>1. Post(Command("STOP")) /\ Command("STOP") \in Frames /\ Command("STOP").type = "STOP"
    BY <1>4, CommandFields DEF BeginStep
  <2>2. Len(inbox') = Len(inbox) + 1 /\ inbox'[Len(inbox) + 1].type = "STOP"
    BY <2>1, PostElements
  <2>3. inbox' # <<>>
    <3>1. inbox' = Append(inbox, Command("STOP"))
      BY <2>1 DEF Post
    <3> QED BY <1>1, <2>1, <3>1, AppendProperties
  <2> QED BY <2>2, <2>3 DEF StopInv
<1>5. CASE ap'.session # "down"
  BY <1>5 DEF StopInv
<1> QED BY <1>2, <1>3, <1>4, <1>5 DEF HostStep, TakeStep, BeginStep, AnswerStep, AskStep

(* The step of wq in which f is answered, if it is.                        *)
AnswerOf(f) ==
  \/ TakeStep /\ f = inbox[1]
  \/ ReturnStep /\ f = wq.frame

(* The frames that wait afterwards did so before, and none of the requests *)
(* is f; a STOP that no longer waits was handled.                          *)
LEMMA AnswerFacts ==
  ASSUME TypeInv, IdInv, NEW f, AnswerOf(f)
  PROVE  /\ f \in Frames
         /\ \A k \in 1..Len(inbox') : \E m \in 1..Len(inbox) :
              /\ inbox'[k] = inbox[m] /\ (inbox[m].id # 0 => inbox[m] # f)
              /\ (\E p \in (m + 1)..Len(inbox) : inbox[p].type = "STOP") =>
                   \E p \in (k + 1)..Len(inbox') : inbox'[p].type = "STOP"
         /\ \/ ap' = ap
            \/ \E ok \in BOOLEAN : Learnt(f, ok) /\ (ok \/ f.type = "CONN_CREATE")
         /\ StopWaits' => StopWaits
         /\ StopWaits /\ ~StopWaits' => StopStep
<1>1. Len(inbox) \in Nat /\ \A k \in 1..Len(inbox) : inbox[k].id \in Nat
  BY HostTypes
<1>2. CASE TakeStep /\ f = inbox[1]
  <2>1. /\ Len(inbox) > 0 /\ Len(inbox') = Len(inbox) - 1 /\ 1 \in 1..Len(inbox)
        /\ \A k \in 1..Len(inbox') : k + 1 \in 1..Len(inbox) /\ inbox'[k] = inbox[k + 1]
        /\ inbox[1] \in Frames /\ Head(inbox) = inbox[1]
    BY <1>2, TakenTable, TakenQueue
  <2>2. ASSUME NEW k \in 1..Len(inbox')
        PROVE  \E m \in 1..Len(inbox) :
              /\ inbox'[k] = inbox[m] /\ (inbox[m].id # 0 => inbox[m] # f)
              /\ (\E p \in (m + 1)..Len(inbox) : inbox[p].type = "STOP") =>
                   \E p \in (k + 1)..Len(inbox') : inbox'[p].type = "STOP"
    <3>1. PICK m \in 1..Len(inbox) : m = k + 1 /\ inbox'[k] = inbox[m]
      BY <2>1
    <3>2. inbox[m].id # 0 => inbox[m] # f
      <4>1. 1 < m
        BY <1>1, <3>1
      <4> QED BY <1>1, <1>2, <2>1, <4>1 DEF IdInv
    <3>3. ASSUME NEW p \in (m + 1)..Len(inbox), inbox[p].type = "STOP"
          PROVE  \E q \in (k + 1)..Len(inbox') : inbox'[q].type = "STOP"
      <4>1. p - 1 \in (k + 1)..Len(inbox') /\ p - 1 \in 1..Len(inbox') /\ (p - 1) + 1 = p
        BY <1>1, <2>1, <3>1
      <4> QED BY <2>1, <3>3, <4>1
    <3> QED BY <3>1, <3>2, <3>3
  <2>3. StopWaits' => StopWaits
    BY <2>1 DEF StopWaits
  <2>4. ASSUME StopWaits, ~StopWaits' PROVE StopStep
    <3>1. PICK k \in 1..Len(inbox) : inbox[k].type = "STOP"
      BY <2>4 DEF StopWaits
    <3>2. k = 1
      <4>1. SUFFICES ASSUME k # 1 PROVE FALSE
        OBVIOUS
      <4>2. k - 1 \in 1..Len(inbox') /\ (k - 1) + 1 = k
        BY <1>1, <2>1, <4>1
      <4>3. inbox'[k - 1].type = "STOP"
        BY <2>1, <3>1, <4>2
      <4> QED BY <2>4, <4>2, <4>3 DEF StopWaits
    <3> QED BY <1>2, <2>1, <3>1, <3>2, KindsOfFrames
            DEF TakeStep, StartStep, FrameStep, DestroyStep, WaitStep, CreateStep
  <2> QED BY <1>2, <2>1, <2>2, <2>3, <2>4, TakenHost
<1>3. CASE ReturnStep /\ f = wq.frame
  <2>1. inbox' = inbox /\ wq.frame \in Frames /\ wq.frame.type = "CONN_CREATE" /\ wq.frame.id \in Nat
        /\ \A k \in 1..Len(inbox) : inbox[k].id # 0 => wq.frame.id < inbox[k].id
    BY <1>3, ReturnTable, HostTypes DEF ReturnStep, IdInv
  <2>2. \E ok \in BOOLEAN : Learnt(f, ok) /\ (ok \/ f.type = "CONN_CREATE")
    BY <1>3, <2>1, ReturnTable
  <2>3. \A k \in 1..Len(inbox) : inbox[k].id # 0 => inbox[k] # f
    BY <1>1, <1>3, <2>1
  <2>4. StopWaits' <=> StopWaits
    BY <2>1 DEF StopWaits
  <2> QED BY <1>3, <2>1, <2>2, <2>3, <2>4
<1> QED BY <1>2, <1>3 DEF AnswerOf

(* Nothing is connected before the STOP is handled.                        *)
LEMMA BlankAnswer ==
  ASSUME TypeInv, IdInv, WaitInv, NEW f, AnswerOf(f), Blank
  PROVE  Blank'
<1> SUFFICES ASSUME StopWaits', NEW c \in ApCports \ {0} PROVE ap'.conn[c] = Unconnected
  BY DEF Blank
<1>1. ap.conn[c] = Unconnected /\ f \in Frames
  BY AnswerFacts DEF Blank
<1>2. CASE ap' = ap
  BY <1>1, <1>2
<1>3. CASE \E ok \in BOOLEAN : Learnt(f, ok) /\ (ok \/ f.type = "CONN_CREATE")
  <2>1. PICK ok \in BOOLEAN : Learnt(f, ok) /\ (ok \/ f.type = "CONN_CREATE")
    BY <1>3
  <2>2. ap'.conn[c] = ap.conn[c] \/ Settles(f, ok, c)
    BY <1>1, <2>1, LearntConn
  <2>3. CASE f \in ap.wait /\ f.type = "CONN_CREATE"
    <3>1. \A k \in 1..Len(inbox') : ~Breaks(inbox'[k], f.c)
      BY <2>3, CreateSpared DEF AnswerOf
    <3> QED BY <3>1 DEF StopWaits, Breaks
  <2> QED BY <1>1, <2>2, <2>3 DEF Settles
<1> QED BY <1>2, <1>3, AnswerFacts

(* What waits and changes the table is awaited.                            *)
LEMMA AwaitedAnswer ==
  ASSUME TypeInv, IdInv, WaitInv, NEW f, AnswerOf(f), Awaited
  PROVE  Awaited'
<1>1. /\ ap'.wait = ap.wait \/ ap'.wait = ap.wait \ {f}
  BY AnswerFacts DEF Learnt
<1>2. ASSUME NEW k \in 1..Len(inbox'), inbox'[k].type \in Changes, inbox'[k].c # 0
      PROVE  inbox'[k] \in ap'.wait \/ \E p \in (k + 1)..Len(inbox') : inbox'[p].type = "STOP"
  <2>1. PICK m \in 1..Len(inbox) :
              /\ inbox'[k] = inbox[m] /\ (inbox[m].id # 0 => inbox[m] # f)
              /\ (\E p \in (m + 1)..Len(inbox) : inbox[p].type = "STOP") =>
                   \E p \in (k + 1)..Len(inbox') : inbox'[p].type = "STOP"
    BY AnswerFacts
  <2>2. inbox[m].id # 0
    BY <1>2, <2>1 DEF IdInv
  <2>3. inbox[m] \in ap.wait \/ \E p \in (m + 1)..Len(inbox) : inbox[p].type = "STOP"
    BY <1>2, <2>1 DEF Awaited
  <2> QED BY <1>1, <2>1, <2>2, <2>3
<1>3. ASSUME wq'.pc = "connect", wq'.frame.c # 0
      PROVE  wq'.frame \in ap'.wait \/ StopWaits'
  <2>1. TakeStep
    BY <1>3 DEF AnswerOf, ReturnStep
  <2>2. /\ Len(inbox) \in Nat /\ Len(inbox') = Len(inbox) - 1 /\ 1 \in 1..Len(inbox)
        /\ \A k \in 1..Len(inbox') : k + 1 \in 1..Len(inbox) /\ inbox'[k] = inbox[k + 1]
        /\ Head(inbox) = inbox[1] /\ Taking
    BY <2>1, TakenTable, TakenQueue
  <2>3. WaitStep
    BY <1>3, <2>1, <2>2 DEF TakeStep, StartStep, StopStep, FrameStep, DestroyStep, CreateStep, Taking
  <2>4. ap' = ap /\ wq'.frame = inbox[1] /\ inbox[1].type \in Changes
    BY <2>2, <2>3 DEF WaitStep, Changes
  <2>5. inbox[1] \in ap.wait \/ \E p \in 2..Len(inbox) : inbox[p].type = "STOP"
    BY <1>3, <2>2, <2>4 DEF Awaited
  <2>6. ASSUME NEW p \in 2..Len(inbox), inbox[p].type = "STOP" PROVE StopWaits'
    <3>1. p - 1 \in 1..Len(inbox') /\ (p - 1) + 1 = p
      BY <2>2
    <3>2. inbox'[p - 1].type = "STOP"
      BY <2>2, <2>6, <3>1
    <3> QED BY <3>1, <3>2 DEF StopWaits
  <2> QED BY <2>4, <2>5, <2>6
<1> QED BY <1>2, <1>3 DEF Awaited

(* After the answer to a CONN_CREATE the host knows the entry, whether     *)
(* there is one or not.                                                    *)
LEMMA ConnectedKnown ==
  ASSUME TypeInv, WaitInv, NEW f \in Frames, f.type = "CONN_CREATE", Connected(f), Vacant(f),
         f.c # 0 => f \in ap.wait,
         NEW c \in ApCports \ {0}, ~Changing(c)', ~Changing(c) => Known(c)
  PROVE  Known(c)'
<1>1. CASE map' = map /\ Learnt(f, FALSE)
  <2>1. /\ ~Changing(c) => ap'.conn[c] = ap.conn[c]
        /\ Changing(c) => Settles(f, FALSE, c)
    BY <1>1, LearntConn
  <2>2. CASE ~Changing(c)
    BY <1>1, <2>1, <2>2 DEF Known
  <2>3. CASE Changing(c)
    <3>1. f.c = c /\ ap'.conn[c] = Unconnected
      BY <2>1, <2>3 DEF Settles
    <3> QED BY <1>1, <3>1 DEF Known, Vacant
  <2> QED BY <2>2, <2>3
<1>2. CASE /\ f.to # Unconnected
           /\ map'[f.c].node_id = f.to.id /\ map'[f.c].node_cport = f.to.cport
           /\ \A d \in ApCports : d # f.c => map'[d] = map[d]
           /\ Learnt(f, TRUE)
  <2>1. /\ ~Changing(c) => ap'.conn[c] = ap.conn[c]
        /\ Changing(c) => Settles(f, TRUE, c)
    BY <1>2, LearntConn
  <2>2. CASE ~Changing(c)
    <3>1. f.c # c
      BY <2>2 DEF Changing
    <3>2. map'[c] = map[c]
      BY <1>2, <3>1
    <3> QED BY <2>1, <2>2, <3>2 DEF Known
  <2>3. CASE Changing(c)
    <3>1. f.c = c /\ ap'.conn[c] = f.to
      BY <2>1, <2>3 DEF Settles
    <3> QED BY <1>2, <3>1 DEF Known
  <2> QED BY <2>2, <2>3
<1> QED BY <1>1, <1>2 DEF Connected

(* A new entry is not where another CONN_CREATE that waits wants its own.  *)
LEMMA ConnectedVacant ==
  ASSUME TypeInv, WaitInv, NEW f \in Frames, f.type = "CONN_CREATE", Connected(f),
         f.c # 0 => f \in ap.wait,
         NEW g \in Frames, Vacant(g), g # f, g.type = "CONN_CREATE" /\ g.c # 0 => g \in ap.wait
  PROVE  Vacant(g)'
<1> SUFFICES ASSUME g.type = "CONN_CREATE", g.c # 0 PROVE map'[g.c].node_intf = NULL
  BY DEF Vacant
<1>1. map[g.c].node_intf = NULL /\ g.c \in ApCports
  BY HostTypes DEF Vacant
<1>2. g.c # f.c
  BY DEF WaitInv
<1> QED BY <1>1, <1>2 DEF Connected

(* The host knows the table.                                               *)
LEMMA AgreedAnswer ==
  ASSUME TypeInv, IdInv, WaitInv, NEW f, AnswerOf(f), Blank, Awaited, Agreed
  PROVE  Agreed'
<1> SUFFICES ASSUME ~StopWaits' PROVE Agreed'
  BY DEF Agreed
<1>1. f \in Frames /\ map \in [ApCports -> Entries] /\ f.c \in ApCports
      /\ \A k \in 1..Len(inbox) : inbox[k] \in Frames
  BY AnswerFacts, HostTypes
<1>2. CASE StopWaits
  <2>1. StopStep
    BY <1>2, AnswerFacts
  <2>2. map' = [c \in ApCports |-> NoConnection] /\ ap' = ap /\ wq'.pc # "connect"
    BY <2>1 DEF StopStep, Taking
  <2>3. \A c \in ApCports : map'[c].node_intf = NULL
    BY <2>2 DEF NoConnection
  <2>4. \A c \in ApCports \ {0} : Known(c)'
    BY <1>2, <2>2, <2>3 DEF Known, Blank
  <2>5. ASSUME NEW k \in 1..Len(inbox') PROVE Vacant(inbox[k])'
    <3>1. inbox'[k].c \in ApCports
      <4>1. PICK m \in 1..Len(inbox) : inbox'[k] = inbox[m]
        BY AnswerFacts
      <4> QED BY <1>1, <4>1, HostTypes
    <3> QED BY <2>3, <3>1 DEF Vacant
  <2> QED BY <2>2, <2>4, <2>5 DEF Agreed
<1>3. CASE ~StopWaits
  <2>1. /\ \A c \in ApCports \ {0} : ~Changing(c) => Known(c)
        /\ \A k \in 1..Len(inbox) : Vacant(inbox[k])
        /\ wq.pc = "connect" => Vacant(wq.frame)
    BY <1>3 DEF Agreed
  <2>2. \A k \in 1..Len(inbox) : inbox[k].type \in Changes /\ inbox[k].c # 0 => inbox[k] \in ap.wait
    BY <1>3, HostTypes DEF Awaited, StopWaits
  <2>3. \A k \in 1..Len(inbox') : \E m \in 1..Len(inbox) : inbox'[k] = inbox[m] /\ (inbox[m].id # 0 => inbox[m] # f)
    BY AnswerFacts
  <2>4. CASE f.type = "CONN_CREATE" /\ Connected(f) /\ Vacant(f) /\ (f.c # 0 => f \in ap.wait) /\ wq'.pc # "connect"
    <3>1. ASSUME NEW c \in ApCports \ {0}, ~Changing(c)' PROVE Known(c)'
      BY <1>1, <2>1, <2>4, <3>1, ConnectedKnown
    <3>2. ASSUME NEW k \in 1..Len(inbox') PROVE Vacant(inbox[k])'
      <4>1. PICK m \in 1..Len(inbox) : inbox'[k] = inbox[m] /\ (inbox[m].id # 0 => inbox[m] # f)
        BY <2>3
      <4>2. CASE inbox[m].type = "CONN_CREATE"
        <5>1. inbox[m].id # 0 /\ inbox[m] # f /\ (inbox[m].c # 0 => inbox[m] \in ap.wait)
          BY <2>2, <4>1, <4>2 DEF IdInv, Changes
        <5>2. PICK g \in Frames : g = inbox[m]
          BY <1>1
        <5>3. Vacant(g)'
          BY <1>1, <2>1, <2>4, <5>1, <5>2, ConnectedVacant
        <5> QED BY <4>1, <5>2, <5>3 DEF Vacant
      <4>3. CASE inbox[m].type # "CONN_CREATE"
        BY <4>1, <4>3 DEF Vacant
      <4> QED BY <4>2, <4>3
    <3> QED BY <2>4, <3>1, <3>2 DEF Agreed
  <2>5. ASSUME \A c \in ApCports \ {0} : map'[c].node_intf # NULL => map'[c] = map[c]
        PROVE  \A k \in 1..Len(inbox') : Vacant(inbox[k])'
    <3> SUFFICES ASSUME NEW k \in 1..Len(inbox') PROVE Vacant(inbox[k])'
      OBVIOUS
    <3>1. PICK m \in 1..Len(inbox) : inbox'[k] = inbox[m]
      BY <2>3
    <3>2. Vacant(inbox[m]) /\ inbox[m].c \in ApCports
      BY <1>1, <2>1, HostTypes
    <3> QED BY <2>5, <3>1, <3>2 DEF Vacant
  <2>6. CASE ReturnStep /\ f = wq.frame
    <3>1. wq.pc = "connect" /\ Connected(f) /\ wq'.pc # "connect"
      BY <2>6 DEF ReturnStep
    <3>2. f.type = "CONN_CREATE" /\ (f.c # 0 => f \in ap.wait)
      BY <1>3, <2>6, <3>1 DEF IdInv, Awaited
    <3> QED BY <2>1, <2>4, <2>6, <3>1, <3>2
  <2>7. CASE TakeStep /\ f = inbox[1]
    <3>1. Taking /\ 1 \in 1..Len(inbox) /\ Head(inbox) = f
      BY <2>7, TakenTable, TakenQueue
    <3>2. CASE CreateStep
      <4>1. f.type = "CONN_CREATE" /\ Connected(f) /\ wq'.pc # "connect"
        BY <3>1, <3>2 DEF CreateStep
      <4>2. Vacant(f) /\ (f.c # 0 => f \in ap.wait)
        BY <2>1, <2>2, <2>7, <3>1, <4>1 DEF Changes
      <4> QED BY <2>4, <4>1, <4>2
    <3>3. CASE StartStep
      <4>1. ap' = ap /\ wq'.pc # "connect" /\ \A c \in ApCports \ {0} : map'[c] = map[c]
        BY <3>3 DEF StartStep
      <4>2. \A c \in ApCports \ {0} : ~Changing(c)' => Known(c)'
        BY <2>1, <4>1 DEF Known, Changing
      <4> QED BY <2>5, <4>1, <4>2 DEF Agreed
    <3>4. CASE WaitStep
      <4>1. ap' = ap /\ map' = map /\ wq'.frame = f
        BY <3>1, <3>4 DEF WaitStep
      <4>2. \A c \in ApCports \ {0} : ~Changing(c)' => Known(c)'
        BY <2>1, <4>1 DEF Known, Changing
      <4>3. Vacant(f)
        BY <2>1, <2>7, <3>1
      <4>4. Vacant(wq.frame)'
        BY <4>1, <4>3 DEF Vacant
      <4> QED BY <2>5, <4>1, <4>2, <4>4 DEF Agreed
    <3>5. CASE FrameStep
      <4>1. map' = map /\ wq'.pc # "connect"
        BY <3>5 DEF FrameStep
      <4>2. ASSUME NEW c \in ApCports \ {0}, ~Changing(c)' PROVE Known(c)'
        <5>1. CASE ap' = ap
          BY <2>1, <4>1, <4>2, <5>1 DEF Known, Changing
        <5>2. CASE f.type \notin Changes /\ Learnt(f, TRUE)
          <6>1. /\ ~Changing(c) => ap'.conn[c] = ap.conn[c]
                /\ Changing(c) => Settles(f, TRUE, c)
            BY <1>1, <4>2, <5>2, LearntConn
          <6>2. ~Changing(c)
            BY <5>2, <6>1 DEF Settles, Changes
          <6> QED BY <2>1, <4>1, <6>1, <6>2 DEF Known
        <5> QED BY <3>1, <3>5, <5>1, <5>2 DEF FrameStep, Changes
      <4> QED BY <2>5, <4>1, <4>2 DEF Agreed
    <3>6. CASE DestroyStep
      <4>1. map' = [map EXCEPT ![f.c] = NoConnection] /\ Learnt(f, TRUE) /\ f.type = "CONN_DESTROY" /\ wq'.pc # "connect"
        BY <3>1, <3>6 DEF DestroyStep
      <4>2. map'[f.c].node_intf = NULL /\ \A c \in ApCports : c # f.c => map'[c] = map[c]
        BY <1>1, <4>1 DEF NoConnection
      <4>3. ASSUME NEW c \in ApCports \ {0}, ~Changing(c)' PROVE Known(c)'
        <5>1. /\ ~Changing(c) => ap'.conn[c] = ap.conn[c]
              /\ Changing(c) => Settles(f, TRUE, c)
          BY <1>1, <4>1, <4>3, LearntConn
        <5>2. f.c # 0 => f \in ap.wait
          BY <2>2, <2>7, <3>1, <4>1 DEF Changes
        <5>3. CASE ~Changing(c)
          <6>1. f.c # c
            BY <5>2, <5>3 DEF Changing
          <6> QED BY <2>1, <4>2, <5>1, <5>3, <6>1 DEF Known
        <5>4. CASE Changing(c)
          <6>1. f.c = c /\ ap'.conn[c] = Unconnected
            BY <4>1, <5>1, <5>4 DEF Settles
          <6> QED BY <4>2, <6>1 DEF Known
        <5> QED BY <5>3, <5>4
      <4>4. \A c \in ApCports \ {0} : map'[c].node_intf # NULL => map'[c] = map[c]
        BY <4>2
      <4> QED BY <2>5, <4>1, <4>3, <4>4 DEF Agreed
    <3>7. CASE StopStep
      BY <1>3, <2>7, <3>1, <3>7 DEF StopStep, StopWaits
    <3> QED BY <2>7, <3>2, <3>3, <3>4, <3>5, <3>6, <3>7 DEF TakeStep
  <2> QED BY <2>6, <2>7 DEF AnswerOf
<1> QED BY <1>2, <1>3

(* A session that begins with a stopped SVC, or with the STOP before it.   *)
LEMMA FreshBegins ==
  ASSUME TypeInv, StopInv, BeginStep("START", "start"), Fresh'
  PROVE  Blank' /\ Awaited' /\ Agreed'
<1>1. /\ Post(Command("START")) /\ Command("START") \in Frames /\ Command("START").type = "START"
      /\ map' = map /\ wq' = wq /\ ap'.wait = {} /\ ap'.conn = [c \in ApCports |-> Unconnected]
  BY CommandFields DEF BeginStep
<1>2. ap.session = "down"
  BY Zenon DEF BeginStep, Fresh
<1>3. /\ Len(inbox) \in Nat /\ Len(inbox') = Len(inbox) + 1
      /\ \A k \in 1..Len(inbox) : inbox'[k] = inbox[k]
      /\ inbox'[Len(inbox) + 1].type = "START"
  BY <1>1, PostElements
<1>4. Blank'
  BY <1>1 DEF Blank
<1>5. CASE inbox # <<>> /\ inbox[Len(inbox)].type = "STOP"
  <2>1. Len(inbox) \in 1..Len(inbox')
    <3>1. Len(inbox) # 0
      BY <1>5, EmptySeq DEF TypeInv, InboxType
    <3> QED BY <1>3, <3>1
  <2>2. inbox'[Len(inbox)].type = "STOP"
    BY <1>3, <1>5, <2>1
  <2>3. StopWaits'
    BY <2>1, <2>2 DEF StopWaits
  <2>4. ASSUME NEW k \in 1..Len(inbox'), inbox'[k].type \in Changes
        PROVE  \E p \in (k + 1)..Len(inbox') : inbox'[p].type = "STOP"
    <3>1. k # Len(inbox) /\ k # Len(inbox) + 1
      BY <1>3, <2>2, <2>4, KindsOfFrames
    <3> QED BY <1>3, <2>1, <2>2, <3>1
  <2> QED BY <1>4, <2>3, <2>4 DEF Awaited, Agreed
<1>6. CASE inbox = <<>> /\ wq.pc = "idle" /\ Clean
  <2>1. Len(inbox) = 0
    BY <1>6, EmptySeq
  <2>2. \A k \in 1..Len(inbox') : inbox'[k].type = "START"
    BY <1>3, <2>1
  <2>3. \A c \in ApCports : map[c] = NoConnection
    BY <1>6, Zenon DEF Clean
  <2>4. \A c \in ApCports \ {0} : Known(c)'
    BY <1>1, <2>3 DEF Known, NoConnection
  <2>5. wq'.pc # "connect"
    BY <1>1, <1>6
  <2>6. Awaited'
    BY <2>2, <2>5, KindsOfFrames DEF Awaited
  <2>7. \A k \in 1..Len(inbox') : Vacant(inbox[k])'
    BY <2>2 DEF Vacant
  <2>8. Agreed'
    BY <2>4, <2>5, <2>7 DEF Agreed
  <2> QED BY <1>4, <2>6, <2>8
<1> QED BY <1>2, <1>5, <1>6, Zenon DEF StopInv

(* A frame of the host within the session.                                 *)
LEMMA FreshPost ==
  ASSUME TypeInv, NEW f \in Frames, Post(f), f.type \in GreybusTypes, map' = map, wq' = wq, ap'.conn = ap.conn,
         ap.wait \subseteq ap'.wait, f.type \in Changes => f \in ap'.wait,
         f.type = "CONN_CREATE" => ap.conn[f.c] = Unconnected /\ ~Changing(f.c),
         Blank, Awaited, Agreed
  PROVE  Blank' /\ Awaited' /\ Agreed'
<1>1. /\ Len(inbox) \in Nat /\ Len(inbox') = Len(inbox) + 1
      /\ \A k \in 1..Len(inbox) : inbox'[k] = inbox[k]
      /\ inbox'[Len(inbox) + 1] = f
  BY PostElements
<1>2. StopWaits' <=> StopWaits
  BY <1>1, KindsOfFrames DEF StopWaits
<1>3. Blank'
  BY <1>2 DEF Blank
<1>4. ASSUME NEW k \in 1..Len(inbox'), inbox'[k].type \in Changes, inbox'[k].c # 0
      PROVE  inbox'[k] \in ap'.wait \/ \E p \in (k + 1)..Len(inbox') : inbox'[p].type = "STOP"
  <2>1. CASE k \in 1..Len(inbox)
    <3>1. inbox[k] \in ap.wait \/ \E p \in (k + 1)..Len(inbox) : inbox[p].type = "STOP"
      BY <1>1, <1>4, <2>1 DEF Awaited
    <3> QED BY <1>1, <2>1, <3>1
  <2>2. CASE k = Len(inbox) + 1
    BY <1>1, <1>4, <2>2
  <2> QED BY <1>1, <2>1, <2>2
<1>5. Awaited'
  BY <1>2, <1>4 DEF Awaited
<1>6. ASSUME ~StopWaits PROVE Agreed'
  <2>1. \A c \in ApCports \ {0} : ~Changing(c)' => Known(c)'
    BY <1>6 DEF Agreed, Changing, Known
  <2>2. Vacant(f)'
    <3>1. SUFFICES ASSUME f.type = "CONN_CREATE", f.c # 0 PROVE map[f.c].node_intf = NULL
      BY DEF Vacant
    <3>2. f.c \in ApCports \ {0}
      BY <3>1, HostTypes
    <3>3. Known(f.c)
      BY <1>6, <3>1, <3>2 DEF Agreed
    <3> QED BY <3>1, <3>3 DEF Known
  <2>3. \A k \in 1..Len(inbox') : Vacant(inbox[k])'
    BY <1>1, <1>6, <2>2 DEF Agreed, Vacant
  <2>4. wq'.pc = "connect" => Vacant(wq.frame)'
    BY <1>6 DEF Agreed, Vacant
  <2> QED BY <2>1, <2>3, <2>4 DEF Agreed
<1>7. Agreed'
  BY <1>2, <1>6 DEF Agreed
<1> QED BY <1>3, <1>5, <1>7

(* The host knows the table, after every step.                             *)
LEMMA FreshNext ==
  ASSUME TypeInv, IdInv, WaitInv, StopInv, FreshInv, HostStep
  PROVE  FreshInv'
<1> SUFFICES ASSUME Fresh' PROVE Blank' /\ Awaited' /\ Agreed'
  BY DEF FreshInv
<1>1. CASE BeginStep("START", "start")
  BY <1>1, FreshBegins
<1>2. CASE BeginStep("STOP", "down")
  BY <1>2, Zenon DEF BeginStep, Fresh
<1>3. CASE TakeStep \/ ReturnStep
  <2>1. PICK f : AnswerOf(f)
    BY <1>3 DEF AnswerOf
  <2>2. ap'.session = ap.session /\ (ap'.fresh => ap.fresh)
    BY <2>1, AnswerFacts, Zenon DEF Learnt
  <2>3. Blank /\ Awaited /\ Agreed
    BY <2>2, Zenon DEF Fresh, FreshInv
  <2> QED BY <2>1, <2>3, BlankAnswer, AwaitedAnswer, AgreedAnswer
<1>4. CASE QuietStep
  <2>1. UNCHANGED <<map, inbox, ap>> /\ (wq'.pc = "connect" => wq.pc = "connect" /\ wq'.frame = wq.frame)
    BY <1>4, Zenon DEF QuietStep
  <2>2. Blank /\ Awaited /\ Agreed
    BY <2>1, Zenon DEF Fresh, FreshInv
  <2>3. Blank'
    BY <2>1, <2>2 DEF Blank, StopWaits
  <2>4. Awaited'
    BY <2>1, <2>2 DEF Awaited, StopWaits
  <2>5. Agreed'
    BY <2>1, <2>2 DEF Agreed, StopWaits, Changing, Known, Vacant
  <2> QED BY <2>3, <2>4, <2>5
<1>5. CASE \E ty \in Responses : AnswerStep(ty)
  <2>1. PICK ty \in Responses : AnswerStep(ty)
    BY <1>5
  <2>2. Command(ty) \in Frames /\ Command(ty).type \in GreybusTypes /\ Command(ty).type \notin Changes
    BY CommandFields, KindsOfFrames
  <2>3. Post(Command(ty)) /\ map' = map /\ wq' = wq /\ ap'.wait = ap.wait /\ ap'.conn = ap.conn
    BY <2>1 DEF AnswerStep
  <2>4. ap.session # "down"
    BY <2>1 DEF AnswerStep
  <2>5. ap'.fresh => ap.fresh
    BY <2>1, Zenon DEF AnswerStep
  <2>6. Blank /\ Awaited /\ Agreed
    BY <2>4, <2>5, Zenon DEF Fresh, FreshInv
  <2> QED BY <2>2, <2>3, <2>6, FreshPost DEF Changes
<1>6. CASE \E f \in Frames, answered \in BOOLEAN : AskStep(f, answered)
  <2>1. PICK f \in Frames, answered \in BOOLEAN : AskStep(f, answered)
    BY <1>6
  <2>2. Post(f) /\ map' = map /\ wq' = wq /\ ap'.conn = ap.conn /\ f.type \in GreybusTypes
        /\ ap.wait \subseteq ap'.wait /\ (answered => f \in ap'.wait) /\ AskKind(f, f.type, answered)
    BY <2>1 DEF AskStep
  <2>3. /\ f.type \in Changes => answered
        /\ f.type = "CONN_CREATE" => ap.conn[f.c] = Unconnected /\ ~Changing(f.c)
    BY <2>2, HostTypes DEF AskKind, Changes, Busy, Changing, ControlReplies, ControlEmptyReplies, ControlPayloadReplies
  <2>4. ap.session # "down"
    BY <2>1 DEF AskStep
  <2>5. ap'.fresh => ap.fresh
    BY <2>1, Zenon DEF AskStep
  <2>6. Blank /\ Awaited /\ Agreed
    BY <2>4, <2>5, Zenon DEF Fresh, FreshInv
  <2> QED BY <2>2, <2>3, <2>6, FreshPost
<1> QED BY <1>1, <1>2, <1>3, <1>4, <1>5, <1>6 DEF HostStep, TakeStep

-----------------------------------------------------------------------------
(* The theorems.                                                           *)

(* The invariant holds at power-up.                                        *)
LEMMA SessionInit == Init => SessionInv
<1> SUFFICES ASSUME Init PROVE SessionInv
  OBVIOUS
<1>1. inbox = <<>> /\ Len(inbox) = 0 /\ wq.pc = "idle"
  BY EmptySeq DEF Init
<1>2. ap.session = "down" /\ ap.wait = {} /\ ap.conn = [c \in ApCports |-> Unconnected]
  BY DEF Init
<1>3. Clean
  <2>1. ready = FALSE /\ suspended = TRUE /\ node = [i \in NodeIds |-> "none"]
        /\ map = [c \in ApCports |-> NoConnection]
    BY DEF Init
  <2>2. (\A i \in NodeIds : node[i] = "none") /\ \A c \in ApCports : map[c] = NoConnection
    BY <2>1
  <2> QED BY <2>1, <2>2, Zenon DEF Clean, Off
<1>4. ZeroInv /\ CportInv /\ IdInv /\ WaitInv
  BY <1>1, <1>2 DEF ZeroInv, CportInv, IdInv, WaitInv
<1>5. StopInv /\ FreshInv
  BY <1>1, <1>2, <1>3, Zenon DEF StopInv, FreshInv, Fresh
<1> QED BY <1>4, <1>5 DEF SessionInv

(* Every step keeps it.                                                    *)
LEMMA SessionNext == TypeInv /\ MessageInv /\ SessionInv /\ [Next]_vars => SessionInv'
<1> SUFFICES ASSUME TypeInv, MessageInv, SessionInv, [Next]_vars PROVE SessionInv'
  OBVIOUS
<1>1. HostStep
  BY NextHostStep
<1>2. ZeroInv /\ CportInv /\ IdInv /\ WaitInv /\ StopInv /\ FreshInv
  BY DEF SessionInv
<1> QED BY <1>1, <1>2, ZeroNext, CportNext, IdNext, WaitNext, StopNext, FreshNext DEF SessionInv

(* What the host sends, what waits and what the SVC has connected fit      *)
(* together in every reachable state.                                      *)
THEOREM SessionsCorrect == Spec => []SessionInv
  BY MessagesCorrect, SessionInit, SessionNext, PTL DEF Spec

(* connection_send never calls through a NULL pointer, however many frames *)
(* wait when the host stops, restarts or destroys a connection.            *)
THEOREM FramesFindConnection == Spec => []NoNullCall
<1>1. TypeInv /\ SessionInv => NoNullCall
  <2> SUFFICES ASSUME TypeInv, SessionInv, inbox # <<>>, Head(inbox).type \in GreybusTypes
               PROVE  map[Head(inbox).cport].node_intf # NULL
    BY DEF NoNullCall
  <2>1. Len(inbox) \in Nat /\ Len(inbox) # 0 /\ Head(inbox) = inbox[1]
    BY EmptySeq, HeadTailProperties DEF TypeInv, InboxType
  <2>2. 1 \in 1..Len(inbox)
    BY <2>1
  <2>3. CASE inbox[1].cport = 0
    BY <2>1, <2>2, <2>3 DEF SessionInv, ZeroInv, Up0, Up
  <2>4. CASE inbox[1].cport # 0
    BY <2>1, <2>2, <2>4 DEF SessionInv, CportInv, Up
  <2> QED BY <2>3, <2>4
<1> QED BY <1>1, MessagesCorrect, SessionsCorrect, PTL

(* After a last STOP that did not fail the assertion of node_destroy_all   *)
(* (as it does over two nodes, or over one that disc is adding) the        *)
(* firmware is as at power-up, whatever disc was suspended in.             *)
THEOREM StopCleans == Spec => []StoppedIsClean
<1>1. TypeInv /\ SessionInv => StoppedIsClean
  BY Zenon DEF SessionInv, StopInv, Clean, Off, StoppedIsClean
<1> QED BY <1>1, MessagesCorrect, SessionsCorrect, PTL

(* In a session that began with a stopped SVC, what its answers told the   *)
(* host about a connection is what node_ap_map says.                       *)
THEOREM HostKnowsTable == Spec => []ApKnowsTable
<1>1. TypeInv /\ SessionInv => ApKnowsTable
  <2> SUFFICES ASSUME TypeInv, SessionInv, ap.session = "up", ap.fresh,
                      \A k \in DOMAIN inbox : inbox[k].type # "STOP",
                      NEW c \in ApCports \ {0}, ~Busy(c)
               PROVE  Known(c)
    BY Zenon DEF ApKnowsTable, Known
  <2>1. ~StopWaits
    BY LenProperties DEF StopWaits, TypeInv, InboxType
  <2>2. ~Changing(c)
    BY DEF Busy, Changing
  <2>3. ap.session # "down"
    OBVIOUS
  <2>4. Agreed
    BY <2>3, Zenon DEF SessionInv, FreshInv, Fresh
  <2> QED BY <2>1, <2>2, <2>4 DEF Agreed
<1> QED BY <1>1, MessagesCorrect, SessionsCorrect, PTL

=============================================================================
