-------------------------------- MODULE Mdns --------------------------------
(***************************************************************************)
(* Discovery over mDNS (CONFIG_BEAGLEPLAY_GREYBUS_MDNS_DISCOVERY): the     *)
(* thread of tcp_discovery.c asks for _greybus._tcp.local, reads what      *)
(* arrives on its socket and gives the addresses of the hosts that offer   *)
(* the instance "zephyr" to node_filter.  The host's START and STOP open   *)
(* and close the socket under the thread, which they suspend and resume    *)
(* wherever it is.                                                         *)
(*                                                                         *)
(* Names have three labels, of one letter each: the instance, the service  *)
(* and the domain.  The socket receives every packet of the multicast      *)
(* group, also those that were not sent for this query.                    *)
(***************************************************************************)
EXTENDS MdnsNames

CONSTANTS
  Hosts,                     \* hosts on the network, by their addresses
  MAX_GREYBUS_NODES,         \* size of node_array
  MDNS_RESPONSE_BUFFER_SIZE,
  MDNS_REQUEST_BUFFER_SIZE,
  MDNS_PTR_NAME_SIZE,        \* size of namebuffer
  MaxFd,                     \* descriptors
  MaxQueue,                  \* packets a socket holds
  MaxPackets,                \* bound: packets sent to the group
  MaxRecords,                \* bound: records in all of them
  MaxStarts                  \* bound: STARTs

(* The letters of the labels: zephyr, another instance, the host's own     *)
(* name, _greybus._tcp, local.                                             *)
Z == 122
X == 120
H == 104
G == 103
L == 108

expected == <<Z, DOT>>
query    == <<G, DOT, L>>
Service  == <<G, L>>

HeaderSize == 12     \* sizeof(struct mdns_header_t)
FixedSize  == 10     \* type, class, ttl and length of a record
QuestionTail == 4    \* type and class of a question

(* The offset that an address fe80: would refer to if it were a name.  No  *)
(* buffer is as large: that of the code has 100 octets.                    *)
AddressRef == 16000

ASSUME MdnsAssumption ==
  /\ MAX_GREYBUS_NODES \in Nat \ {0}
  /\ MDNS_RESPONSE_BUFFER_SIZE \in HeaderSize..AddressRef
  /\ MDNS_REQUEST_BUFFER_SIZE \in Nat
  /\ MDNS_REQUEST_BUFFER_SIZE >= HeaderSize + Len(query) + 2 + QuestionTail
  /\ MDNS_PTR_NAME_SIZE \in Nat
  /\ MDNS_PTR_NAME_SIZE >= Len(expected) + Len(query)
  /\ {MaxFd, MaxQueue, MaxPackets, MaxRecords, MaxStarts} \subseteq Nat

-----------------------------------------------------------------------------
(* The packets of the group, as RFC 6762 describes them.  A query carries  *)
(* a question, and as its answers those that the asker knows already.      *)
(* Responses that only name instances may come without references.         *)
(*   ptr    the service has the instance "zephyr"                          *)
(*   other  the service has another instance                               *)
(*   addr   an IPv6 address, fe80::...                                     *)
(*   text   an empty TXT record, a single zero                             *)
Kinds == {"ptr", "other", "addr", "text"}

Messages ==
  {m \in [response : BOOLEAN, compressed : BOOLEAN,
          answers : UNION {[1..n -> Kinds] : n \in 0..MaxRecords}] :
     /\ m.response => m.answers # <<>>
     /\ ~m.compressed => m.response /\ \A i \in DOMAIN m.answers :
                                         m.answers[i] \in {"ptr", "other"}}

Zeros(n) == [i \in 1..n |-> 0]

(* A packet under construction: its octets, where the names of the service *)
(* and of an instance stand in it, if they do, and its names.              *)
Started(m) ==
  [octets |-> Zeros(4) \o mdns_htons(IF m.response THEN 0 ELSE 1)
                       \o mdns_htons(Len(m.answers)) \o Zeros(4),
   at |-> [n \in {} |-> 0], names |-> {}]

(* A name, or what can be said of it with references.                      *)
Spelled(p, name, compressed) ==
  IF ~compressed THEN Encoded(name)
  ELSE IF name \in DOMAIN p.at THEN Pointer(p.at[name])
  ELSE IF Tail(name) \in DOMAIN p.at THEN <<1, Head(name)>> \o Pointer(p.at[Tail(name)])
  ELSE Encoded(name)

WithName(p, name, compressed) ==
  LET s == Spelled(p, name, compressed)
      o == Len(p.octets)
  IN [octets |-> p.octets \o s,
      at |-> [n \in DOMAIN p.at \cup {name} |-> IF n \in DOMAIN p.at THEN p.at[n] ELSE o],
      names |-> p.names \cup {[at |-> o, end |-> o + Len(s), name |-> name]}]

WithOctets(p, s) == [p EXCEPT !.octets = @ \o s]

Instance(kind) == <<IF kind = "ptr" THEN Z ELSE X>> \o Service

(* A record: the owner's name, the fixed part and the data.                *)
WithRecord(p, kind, compressed) ==
  CASE kind \in {"ptr", "other"} ->
         LET owner == WithName(p, Service, compressed)
             room == WithOctets(owner, Zeros(FixedSize))
             length == Len(Spelled(room, Instance(kind), compressed))
         IN WithName(WithOctets(owner, Zeros(FixedSize - 2) \o mdns_htons(length)),
                     Instance(kind), compressed)
    [] kind = "addr" ->
         WithOctets(WithName(p, <<H, L>>, compressed),
                    Zeros(FixedSize - 2) \o mdns_htons(16) \o <<254, 128>> \o Zeros(14))
    [] kind = "text" ->
         WithOctets(WithName(p, Instance("ptr"), compressed),
                    Zeros(FixedSize - 2) \o mdns_htons(1) \o <<0>>)

(* The header and the question.                                            *)
Opening(m) ==
  IF m.response THEN Started(m)
  ELSE WithOctets(WithName(Started(m), Service, m.compressed), Zeros(QuestionTail))

(* The packet up to a record.                                              *)
Built(m, upto) ==
  LET F[n \in 0..upto] ==
        IF n = 0 THEN Opening(m) ELSE WithRecord(F[n - 1], m.answers[n], m.compressed)
  IN F[upto]

Packet(m) == Built(m, Len(m.answers))

(* What recvfrom stores of it.                                             *)
Received(m) == UpTo(Packet(m).octets, MDNS_RESPONSE_BUFFER_SIZE)

(* The packets that offer the instance, in a record that was stored whole. *)
Offers ==
  {m \in Messages :
     \E n \in DOMAIN m.answers :
       /\ m.answers[n] = "ptr"
       /\ Len(Built(m, n).octets) <= MDNS_RESPONSE_BUFFER_SIZE}

-----------------------------------------------------------------------------
(* Reading a packet.                                                       *)

(* namebuffer is not initialised: it may hold what the call before left on *)
(* the stack.  Otherwise it holds something that is not the name searched. *)
Garbage == Zeros(MDNS_PTR_NAME_SIZE)

(* Faulty: a record that ends with the packet is not read.                 *)
record_parse_ptr_strict(b, offset, length, stale) ==
  LET str == mdns_string_extract(b, Len(b), offset, MDNS_PTR_NAME_SIZE) IN
  IF Len(b) > offset + length /\ length >= 2
  THEN [null |-> FALSE, text |-> str \o SubSeq(stale, Len(str) + 1, Len(stale))]
  ELSE [null |-> TRUE, text |-> stale]

(* The data of a record as a name, copied over the start of namebuffer.    *)
(* Of data too short to be one the result is a null pointer: memcmp then   *)
(* reads address 0, which is flash on this chip and no name.               *)
mdns_record_parse_ptr(b, offset, length, stale) ==
  LET str == mdns_string_extract(b, Len(b), offset, MDNS_PTR_NAME_SIZE) IN
  IF Len(b) >= offset + length /\ length >= 2
  THEN [null |-> FALSE, text |-> str \o SubSeq(stale, Len(str) + 1, Len(stale))]
  ELSE [null |-> TRUE, text |-> stale]

(* Faulty: the instance is not compared.                                   *)
is_any_instance(r) ==
  /\ ~r.null
  /\ SubSeq(r.text, Len(expected) + 1, Len(expected) + Len(query)) = query

(* The two memcmp.  The length of the name is not looked at.               *)
is_expected(r) ==
  /\ ~r.null
  /\ SubSeq(r.text, 1, Len(expected)) = expected
  /\ SubSeq(r.text, Len(expected) + 1, Len(expected) + Len(query)) = query

(* A record: one pass of the loop.  The type of the record is not looked   *)
(* at, and a name that cannot be skipped leaves the offset where it is.    *)
check_record(b, w) ==
  LET skipped == mdns_string_skip(b, Len(b), w.offset)
      data == FixedSize + (IF skipped = MDNS_INVALID_POS THEN w.offset ELSE skipped)
      length == mdns_ntohs(b, data - 2)
      r == IF length <= Len(b) - data
           THEN mdns_record_parse_ptr(b, data, length, w.text)
           ELSE [null |-> TRUE, text |-> w.text]
  IN IF w.match \/ w.ended THEN w
     ELSE IF data > Len(b) THEN [w EXCEPT !.ended = TRUE]
     ELSE [w EXCEPT !.offset = data + length, !.text = r.text, !.match = is_expected(r)]

(* The records from offset on, with what namebuffer holds.                 *)
mdns_answer_check(b, offset, records_left, stale) ==
  LET F[n \in 0..records_left] ==
        IF n = 0 THEN [offset |-> offset, text |-> stale, match |-> FALSE, ended |-> FALSE]
        ELSE check_record(b, F[n - 1])
  IN F[records_left]

(* Behind the questions from offset on.                                    *)
skip_question(b, from) ==
  LET end == mdns_string_skip(b, Len(b), from) IN
  IF from = MDNS_INVALID_POS \/ end = MDNS_INVALID_POS THEN MDNS_INVALID_POS
  ELSE end + QuestionTail

skip_questions(b, offset, questions) ==
  LET F[n \in 0..questions] == IF n = 0 THEN offset ELSE skip_question(b, F[n - 1])
  IN F[questions]

(* A packet that was received, with what namebuffer holds.                 *)
check_packet(b, stale) ==
  LET o == skip_questions(b, HeaderSize, mdns_ntohs(b, 4)) IN
  IF o = MDNS_INVALID_POS THEN [match |-> FALSE, text |-> stale]
  ELSE mdns_answer_check(b, o, mdns_ntohs(b, 6), stale)

(* What namebuffer can hold, and the outcome of each packet.               *)
Buffers == {Garbage} \cup {UpTo(Text(Instance(k)) \o Garbage, MDNS_PTR_NAME_SIZE) :
                             k \in {"ptr", "other"}}
Outcomes ==
  {[msg |-> m, before |-> b, result |-> check_packet(Received(m), b)] :
     m \in Messages, b \in Buffers}

(* The query: a header with one question, the name, its type PTR and class *)
(* IN.  Empty when it does not fit.                                        *)
mdns_multiquery_send(name) ==
  LET data == mdns_string_make(Zeros(4) \o mdns_htons(1) \o Zeros(6),
                               MDNS_REQUEST_BUFFER_SIZE, name)
  IN IF data = <<>> THEN <<>> ELSE data \o mdns_htons(12) \o mdns_htons(1)

Query == mdns_multiquery_send(query)

-----------------------------------------------------------------------------
VARIABLES
  fds,        \* what each descriptor is: "free", "mdns" or "node"
  rxq,        \* the packets waiting at each descriptor
  sock,       \* tcp_discovery_data.sock
  disc,       \* the thread: pc, suspended, its copy of the descriptor, node_array
  namebuffer, \* what the last call left of it
  asked,      \* the last query that was sent
  filtered,   \* addresses given to node_filter
  said,       \* for each host what it has sent: an offer, data that is no name
  packets,    \* packets sent so far
  records,    \* records in them
  starts,     \* STARTs so far
  joined      \* the interface is a member of the multicast group

net     == <<said, packets, records>>
sockets == <<fds, rxq>>
vars    == <<sockets, sock, disc, namebuffer, asked, filtered, net, starts, joined>>

Fds == 0..(MaxFd - 1)

Sleeping(susp) == [pc |-> "sleep", susp |-> susp, fd |-> -1, list |-> <<>>]

(* After main has called tcp_discovery_stop.                               *)
Init ==
  /\ fds = [f \in Fds |-> "free"]
  /\ rxq = [f \in Fds |-> <<>>]
  /\ sock = -1
  /\ disc = Sleeping(TRUE)
  /\ namebuffer = Garbage
  /\ asked = <<>>
  /\ filtered = {}
  /\ said = [h \in Hosts |-> {}]
  /\ packets = 0
  /\ records = 0
  /\ starts = 0
  /\ joined = FALSE

(* zsock_socket takes the lowest descriptor that is free, and fails when   *)
(* there is none.                                                          *)
FreeFds == {f \in Fds : fds[f] = "free"}
Lowest  == CHOOSE f \in FreeFds : \A g \in FreeFds : f <= g

Opened(f, kind) == fds' = [fds EXCEPT ![f] = kind] /\ rxq' = [rxq EXCEPT ![f] = <<>>]
Closed(f)       == Opened(f, "free")

-----------------------------------------------------------------------------
(* START and STOP, on the work queue.                                      *)

(* Faulty: the group is left again when the socket is closed.              *)
socket_open_rejoining ==
  \/ /\ FreeFds # {}
     /\ Opened(Lowest, "mdns")
     /\ sock' = Lowest
     /\ joined' = TRUE
  \/ /\ sock' = -1
     /\ UNCHANGED <<sockets, joined>>

(* The group is joined, then the socket is bound; nothing ever leaves the  *)
(* group, and net_if_ipv6_maddr_add refuses an address that the interface  *)
(* has: of all STARTs at most one gets a socket.  The others, and one that *)
(* finds no descriptor, no room in the interface's table or the port       *)
(* taken, close what they opened.                                          *)
mdns_socket_open_ipv6 ==
  \/ /\ FreeFds # {} /\ ~joined
     /\ Opened(Lowest, "mdns")
     /\ sock' = Lowest
     /\ joined' = TRUE
  \/ /\ sock' = -1
     /\ joined' \in IF FreeFds # {} THEN {joined, TRUE} ELSE {joined}
     /\ UNCHANGED sockets

(* A START without a STOP forgets the socket that is open.                 *)
tcp_discovery_start ==
  /\ starts < MaxStarts
  /\ mdns_socket_open_ipv6
  /\ disc' = [disc EXCEPT !.susp = FALSE]
  /\ starts' = starts + 1
  /\ UNCHANGED <<namebuffer, asked, filtered, net>>

tcp_discovery_stop ==
  /\ disc' = [disc EXCEPT !.susp = TRUE]
  /\ \/ /\ sock >= 0
        /\ Closed(sock)
        /\ sock' = -1
     \/ /\ sock < 0
        /\ UNCHANGED <<sockets, sock>>
  /\ UNCHANGED <<namebuffer, asked, filtered, net, starts, joined>>

(* Connections to nodes use the same descriptors.  They are opened while   *)
(* the SVC runs.                                                           *)
node_socket_open ==
  /\ ~disc.susp
  /\ FreeFds # {}
  /\ Opened(Lowest, "node")
  /\ UNCHANGED <<sock, disc, namebuffer, asked, filtered, net, starts, joined>>

node_socket_close ==
  /\ \E f \in {f \in Fds : fds[f] = "node"} : Closed(f)
  /\ UNCHANGED <<sock, disc, namebuffer, asked, filtered, net, starts, joined>>

-----------------------------------------------------------------------------
(* The group.  A packet that arrives at a full queue is lost.              *)
Says(m) == (IF m \in Offers THEN {"offer"} ELSE {})
             \cup (IF \E i \in DOMAIN m.answers : m.answers[i] = "addr" THEN {"no name"} ELSE {})

group_send(h, m) ==
  /\ packets < MaxPackets
  /\ records + Len(m.answers) <= MaxRecords
  /\ \E f \in Fds : fds[f] = "mdns"
  /\ rxq' = [f \in Fds |->
               IF fds[f] = "mdns" /\ Len(rxq[f]) < MaxQueue
               THEN Append(rxq[f], [from |-> h, msg |-> m]) ELSE rxq[f]]
  /\ said' = [said EXCEPT ![h] = @ \cup Says(m)]
  /\ packets' = packets + 1
  /\ records' = records + Len(m.answers)
  /\ UNCHANGED <<fds, sock, disc, namebuffer, asked, filtered, starts, joined>>

-----------------------------------------------------------------------------
(* The thread.                                                             *)
At(pc) == disc.pc = pc /\ ~disc.susp
Goto(pc) == disc' = [disc EXCEPT !.pc = pc]

(* The first read of sock.                                                 *)
handler ==
  /\ At("sleep")
  /\ sock >= 0
  /\ Goto("send")
  /\ UNCHANGED <<sockets, sock, namebuffer, asked, filtered, net, starts, joined>>

(* The second read: the argument of mdns_query_send.                       *)
mdns_query_send ==
  /\ At("send")
  /\ disc' = [disc EXCEPT !.pc = "sendto", !.fd = sock]
  /\ UNCHANGED <<sockets, sock, namebuffer, asked, filtered, net, starts, joined>>

(* zsock_getsockname and zsock_sendto fail on a descriptor that is closed. *)
mdns_multicast_send ==
  /\ At("sendto")
  /\ disc.fd \in Fds
  /\ fds[disc.fd] # "free"
  /\ Query # <<>>
  /\ asked' = Query
  /\ Goto("recv")
  /\ UNCHANGED <<sockets, sock, namebuffer, filtered, net, starts, joined>>

mdns_send_fails ==
  /\ At("sendto")
  /\ disc' = Sleeping(FALSE)
  /\ UNCHANGED <<sockets, sock, namebuffer, asked, filtered, net, starts, joined>>

(* The third read: the argument of mdns_query_recv.                        *)
mdns_query_recv ==
  /\ At("recv")
  /\ disc' = [disc EXCEPT !.pc = "poll", !.fd = sock, !.list = <<>>]
  /\ UNCHANGED <<sockets, sock, namebuffer, asked, filtered, net, starts, joined>>

(* What zsock_poll may say of the descriptor: a closed one is reported as  *)
(* an event, a negative one is passed over.                                *)
Ready ==
  IF disc.fd = -1 THEN {FALSE}
  ELSE CASE fds[disc.fd] = "free" -> {TRUE}
         [] fds[disc.fd] = "mdns" -> {rxq[disc.fd] # <<>>}
         [] fds[disc.fd] = "node" -> BOOLEAN

(* Faulty: an event is taken though node_array is full.                    *)
poll_event_unbounded ==
  /\ At("poll")
  /\ TRUE \in Ready
  /\ Goto("recvfrom")
  /\ UNCHANGED <<sockets, sock, namebuffer, asked, filtered, net, starts, joined>>

(* Faulty: a poll that timed out is taken for an event.                    *)
poll_event_always ==
  /\ At("poll")
  /\ disc.fd \in Fds
  /\ Len(disc.list) < MAX_GREYBUS_NODES
  /\ Goto("recvfrom")
  /\ UNCHANGED <<sockets, sock, namebuffer, asked, filtered, net, starts, joined>>

poll_event ==
  /\ At("poll")
  /\ TRUE \in Ready
  /\ Len(disc.list) < MAX_GREYBUS_NODES
  /\ Goto("recvfrom")
  /\ UNCHANGED <<sockets, sock, namebuffer, asked, filtered, net, starts, joined>>

(* The timeout of the first poll, or that nothing else has arrived.        *)
poll_ends ==
  /\ At("poll")
  /\ FALSE \in Ready \/ Len(disc.list) = MAX_GREYBUS_NODES
  /\ Goto("filter")
  /\ UNCHANGED <<sockets, sock, namebuffer, asked, filtered, net, starts, joined>>

(* zsock_recvfrom blocks while there is nothing.                           *)
mdns_query_recv_internal ==
  /\ At("recvfrom")
  /\ fds[disc.fd] = "mdns"
  /\ rxq[disc.fd] # <<>>
  /\ \E o \in Outcomes :
       /\ o.msg = Head(rxq[disc.fd]).msg
       /\ o.before \in {namebuffer, Garbage}
       /\ namebuffer' = o.result.text
       /\ disc' = [disc EXCEPT !.pc = "poll",
                     !.list = IF o.result.match THEN Append(@, Head(rxq[disc.fd]).from) ELSE @]
  /\ rxq' = [rxq EXCEPT ![disc.fd] = Tail(@)]
  /\ UNCHANGED <<fds, sock, asked, filtered, net, starts, joined>>

(* A closed descriptor, or the stream of a node, from which this takes a   *)
(* piece: no packet.                                                       *)
recvfrom_fails ==
  /\ At("recvfrom")
  /\ fds[disc.fd] # "mdns"
  /\ Goto("poll")
  /\ UNCHANGED <<sockets, sock, namebuffer, asked, filtered, net, starts, joined>>

(* node_filter itself is an operation of NodeBridge.                       *)
node_filter ==
  /\ At("filter")
  /\ filtered' = filtered \cup {disc.list[i] : i \in DOMAIN disc.list}
  /\ disc' = Sleeping(FALSE)
  /\ UNCHANGED <<sockets, sock, namebuffer, asked, net, starts, joined>>

-----------------------------------------------------------------------------
Control == tcp_discovery_start \/ tcp_discovery_stop \/ node_socket_open \/ node_socket_close

Discovery ==
  \/ handler \/ mdns_query_send \/ mdns_multicast_send \/ mdns_send_fails
  \/ mdns_query_recv \/ poll_event \/ poll_ends \/ mdns_query_recv_internal
  \/ recvfrom_fails \/ node_filter

Next == Control \/ Discovery \/ \E h \in Hosts, m \in Messages : group_send(h, m)

Spec == Init /\ [][Next]_vars

(* The thread runs when it is ready; the network takes a query now and     *)
(* then.                                                                   *)
FairSpec == Spec /\ WF_vars(Discovery) /\ SF_vars(mdns_multicast_send)

-----------------------------------------------------------------------------
(* node_array is never overrun: at most MAX_GREYBUS_NODES addresses, and   *)
(* each variable has its type.                                             *)
TypeOK ==
  /\ fds \in [Fds -> {"free", "mdns", "node"}]
  /\ \A f \in Fds :
       /\ Len(rxq[f]) <= MaxQueue
       /\ \A i \in DOMAIN rxq[f] : rxq[f][i] \in [from : Hosts, msg : Messages]
  /\ sock \in Fds \cup {-1}
  /\ disc.pc \in {"sleep", "send", "sendto", "recv", "poll", "recvfrom", "filter"}
  /\ disc.susp \in BOOLEAN
  /\ disc.fd \in Fds \cup {-1}
  /\ disc.list \in UNION {[1..n -> Hosts] : n \in 0..MAX_GREYBUS_NODES}
  /\ filtered \subseteq Hosts
  /\ said \in [Hosts -> SUBSET {"offer", "no name"}]
  /\ packets \in 0..MaxPackets
  /\ records \in 0..MaxRecords
  /\ starts \in 0..MaxStarts
  /\ joined \in BOOLEAN

(* The packets whose names, spelled out or with references (also to names  *)
(* that end in one), are read as the standard has it.                      *)
WellRead ==
  {m \in Messages :
     \A n \in {n \in Packet(m).names : n.end <= Len(Received(m))} :
       /\ mdns_string_skip(Received(m), Len(Received(m)), n.at) = n.end
       /\ mdns_string_extract(Received(m), Len(Received(m)), n.at, MDNS_PTR_NAME_SIZE)
            = UpTo(Text(n.name), MDNS_PTR_NAME_SIZE)}

(* Each name of a packet that waits is skipped to exactly its end and      *)
(* copied out as its text, by mdns_string_skip and mdns_string_extract.    *)
NamesRead == \A f \in Fds : \A i \in DOMAIN rxq[f] : rxq[f][i].msg \in WellRead

(* mdns_string_make writes a name, with a trailing dot or without, as the  *)
(* standard spells it, or nothing if the buffer has no room for it.        *)
MakesNames ==
  \A labels \in UNION {[1..n -> {G, L}] : n \in 1..3}, used \in 0..2, capacity \in 2..10 :
    LET text == Text(labels)
        data == Zeros(used)
        whole == data \o Encoded(labels)
    IN \A name \in {text, SubSeq(text, 1, Len(text) - 1)} :
         mdns_string_make(data, capacity, name)
           = IF Len(whole) <= capacity THEN whole ELSE <<>>

(* The query on the wire asks for the service, and fits its buffer.        *)
QueryAsks ==
  /\ MakesNames
  /\ asked # <<>> =>
       /\ Len(asked) <= MDNS_REQUEST_BUFFER_SIZE
       /\ skip_questions(asked, HeaderSize, mdns_ntohs(asked, 4)) = Len(asked)
       /\ mdns_string_extract(asked, Len(asked), HeaderSize, MDNS_PTR_NAME_SIZE)
            = UpTo(Text(Service), MDNS_PTR_NAME_SIZE)

(* An address in node_array is that of a host whose packet named the       *)
(* instance, or whose packet held data that is no name when namebuffer had *)
(* been left with the name by the offer of another host: namebuffer holds  *)
(* garbage or the name of an instance, and that of zephyr only after some  *)
(* host offered it (mdns_answer_check, which does not initialise it).      *)
Reported ==
  LET offered == \E g \in Hosts : "offer" \in said[g] IN
  /\ namebuffer \in Buffers
  /\ is_expected([null |-> FALSE, text |-> namebuffer]) => offered
  /\ \A i \in DOMAIN disc.list :
       LET h == disc.list[i] IN
       "offer" \in said[h] \/ ("no name" \in said[h] /\ offered)

(* As long as sock is open the descriptor that the thread took from it is  *)
(* that of its own socket.  A descriptor is kept over STOP and START, and  *)
(* what keeps the thread from waking up with an old one beside a new       *)
(* socket is only that the group is joined once and never left.            *)
SessionDescriptor ==
  (sock # -1 /\ disc.pc \in {"sendto", "poll", "recvfrom"})
    => ~disc.susp /\ disc.fd = sock /\ fds[sock] = "mdns"

(* A host that offers the instance is given to node_filter, unless STOP or *)
(* START takes the socket first: no record in front of it, no reference    *)
(* and no full node_array keeps it from being seen.                        *)
Discovered ==
  \A f \in Fds, h \in Hosts :
    (/\ sock = f
     /\ \E i \in DOMAIN rxq[f] : rxq[f][i].from = h /\ rxq[f][i].msg \in Offers)
      ~> (h \in filtered \/ sock # f)

(* The thread returns from mdns_query_recv, whose later polls have no      *)
(* timeout, or its socket is taken from it by STOP or START.               *)
RoundEnds == (disc.pc = "poll") ~> (disc.pc = "sleep" \/ sock = -1)

-----------------------------------------------------------------------------
(* What the headers say, and what the code does not do after a second      *)
(* START.                                                                  *)

(* Between START and STOP discovery runs, once the network has let a query *)
(* pass: the thread asks again and again (tcp_discovery.h).                *)
KeepsAsking == [](asked # <<>> => []<>(disc.susp \/ disc.pc = "recv"))

(* mdns_query_recv returns, unless STOP suspends it: the first poll has a  *)
(* timeout, the others do not wait (mdns.h).                               *)
RecvReturns == (disc.pc = "poll") ~> (disc.pc = "sleep" \/ disc.susp)

(* What mdns_query_recv takes from its descriptor is a packet of the group *)
(* and not a piece of the stream of a node (mdns.h).                       *)
TakesPackets == (~disc.susp /\ disc.pc = "recvfrom") => fds[disc.fd] # "node"
=============================================================================
