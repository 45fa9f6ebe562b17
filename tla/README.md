# TLA+ models of the CC1352 Greybus firmware

The firmware connects a Linux host (the AP, with the gb-beagleplay driver, over
HDLC on a UART) with Greybus nodes on an IEEE 802.15.4 network (over TCP). It
plays the SVC of the Greybus protocol and routes messages. This directory models
all of its parts, checks the models with TLC and proves some of the results with
TLAPS.

    tlc -config steady.cfg NodeBridge        # one run; the runs are listed below
    tlapm HdlcRx_proofs.tla                  # one proof module

## The system

| component | state | operations | talks to |
|---|---|---|---|
| node cache (`node.c`) | `node_cache[]`, `node_cache_pos` | find by address, socket, id; add; remove (last entry fills the gap) | used by all three threads, no lock |
| node threads (`node.c`) | sockets, control data slab, `flag` and index of the receive loop, the wake-up pipe | poll, receive, connect, write, create and destroy an interface, destroy all | sockets; SVC (insert, remove); AP bridge |
| interfaces (`greybus_interfaces.c`) | interface slab, `interface_id_counter` | alloc, dealloc, find by id | node, SVC |
| AP bridge (`apbridge.c`, `ap.c`) | `node_ap_map[]` | connection create, destroy, send both ways, deinit | interfaces' callbacks; HDLC |
| SVC (`svc.c`) | ready flag | answers the AP's requests; announces modules | AP bridge, node |
| control (`main.c`) | - | START and STOP of the SVC | all of the above, discovery |
| discovery (`tcp_discovery.c`) | thread suspended or not, `sock` | query, receive, `node_filter`; start, stop | mDNS, node |
| mDNS client (`mdns.c`) | its socket and buffers | open, close, send a query, read packets, names and records | sockets |
| HDLC receive ring (`main.c`, `hdlc.c`) | ring buffer, work item | interrupt puts, work item takes | UART, decoder |
| HDLC framing (`hdlc.c`) | CRC, escape flag, block | decode a byte; send a block | UART; control and AP bridge |
| messages (`greybus_messages.c`) | heap, operation id counter | alloc, dealloc | everyone |
| local node (`local_node.c`) | - | answers control requests | AP bridge; never announced |
| log backend | - | sends log text as frames | HDLC |

Execution contexts: the UART interrupt; `wq`, the work queue that decodes frames
and runs everything the AP asks for (priority 5); `rx`, which reads the node
sockets (priority 6); `disc`, discovery (priority 6); the log thread. `wq`
preempts `rx` and `disc` anywhere and gives way only where it blocks (connect and
send on a TCP socket). `rx` and `disc` switch where they block, and anywhere if
the kernel slices equal priorities, which `prj.conf` does not turn off. Apart from
the atomics there is no lock. No thread runs while the interrupt is pending.

What is hard: state looked up before a blocking call and used after it; tables
that move entries when one is removed; freed interfaces that other tables still
point to; a thread suspended in the middle of an update; nodes that close, reset
or stall in the middle of a message; a host that restarts; the interrupt sharing
the ring with the work item; lost bytes on the UART and frames that begin in the
middle of another; messages that nobody frees, messages of any length from nodes and
a heap that runs out; names in
packets that refer to other places of the packet; a socket that is closed while a
suspended thread still has its number. `PROJECT.json` lists the hazards with their
lines.

What makes each component correct: the cache, the slabs and the descriptors
describe the same nodes; every message goes to and comes from the node that the
AP connected; the AP hears of each arrival and departure once and in order; no
freed object is used; the ring delivers each byte once and in order; the decoder
delivers exactly the blocks that were sent and recovers from losses; every message
has one owner until it is freed; every request of the AP is answered, and what the
answers say is what the tables hold; discovery finds the hosts that offer the
service, and its rounds end.

## Modules

| module | models | composes |
|---|---|---|
| `Lookup` | the linear search of all tables | |
| `Lookup_proofs` | lemmas on the search | `Lookup` |
| `NodeCache` | the static functions on `node_cache` | `Lookup` |
| `ApBridge` | the static functions on `node_ap_map` | `Lookup` |
| `NodeBridge` | the three threads, the nodes and the host around the tables | `NodeCache`, `ApBridge` |
| `NodeBridge_proofs` | theorems `SvcReachesAp`, `BridgeTyped`, `SteadyNoFault`, `SteadySockets`, `SteadyRxRouting`, `SteadyTxRouting` | `NodeBridge`, `Lookup_proofs` |
| `ByteStream` | what the receive path promises the decoder | |
| `HdlcRx` | the interrupt, the ring and the work item | refines `ByteStream` |
| `HdlcRx_proofs` | theorems `RingCorrect`, `StreamCorrect` | `HdlcRx` |
| `HdlcFrame` | the threads that send frames, and the decoder, on a line that loses bytes | |
| `HdlcFrame_proofs` | theorems `FrameTyped`, `AcceptedWasSent`, `DamageStaysContained` | `HdlcFrame` |
| `Messages` | the message heap and the operation ids | |
| `Svc` | the SVC, the local node and what every message goes through | `Messages`, `ApBridge` |
| `SvcMessages_proofs` | theorems `SvcTyped`, `MessagesOwned`, `FourBlocksSuffice`, `IdsOwn` | `Svc`, `Lookup_proofs` |
| `SvcSession_proofs` | theorems `FramesFindConnection`, `StopCleans`, `HostKnowsTable` | `SvcMessages_proofs` |
| `MdnsNames` | names in mDNS packets: `mdns_string_*`, `mdns_get_next_substring` | |
| `Mdns` | packets, the mDNS socket and the discovery thread | `MdnsNames` |
| `Mdns_proofs` | theorems `DescriptorCorrect`, `MdnsTyped`, `NamesReadCorrect`, `QueryCorrect`, `ReportedCorrect` | `Mdns` |

### NodeBridge

Each thread is a record with a program counter and the locals that survive a
blocking call: `wq.idx`, `wq.inf` and `wq.fd` during a connect or a send; `rx.fds`,
`rx.rev`, `rx.idx`, `rx.pos` and `rx.flag`; `disc.inf`. An action runs from one point
where the thread can lose the CPU to the next. `wq` is only split where it blocks,
since nothing of equal or higher priority runs against it. `rx` and `disc` are split
where they block and where another thread can slip in with effect: a removal in `rx`
is the announcement, the close, the search, `--node_cache_pos`, the copy of the last
entry and the release of the blocks (`node_rx_remove` to `node_rx_free`); the set to
poll is the copy of the sockets and the second reading of `node_cache_pos`
(`node_rx_populate`, `node_rx_fds_len`); adding a node is the allocation, the entry,
the count and the announcement. Conventions:

* A pointer is a block number. The pair of a block and the id it had when the
  pointer was taken is dangling when the block is free or has another id
  (`LiveIntf`); every use of a dangling pointer, a NULL call and a failed
  assertion goes to a state with `fault` set, where the behaviour ends. The
  invariants speak about the states before a fault, and `NoFault` about faults.
* `k_mem_slab_free` is called with the address of the pointer to the block, as the
  kernel had it when the calls were written. `SlabTakesBlock` is the kernel of
  today, which `west.yml` takes: there the first release is the end (`wild_free`,
  finding 12), so the runs have the older one.
* A slot of `fds` that the loop did not reach, because `disc` advanced the count
  after it, holds what the stack holds: a member of `StaleFds`. A compiler may read
  the count once or twice; both are allowed, here and in `node_rx_shrink`.
* `rx` ends for ever without its socket pair and starts over when `poll` fails.
  Until the pair exists the byte of `pipe_send` goes to descriptor 0 (`stray`).
* `sock[f]` is a TCP socket as the code sees it: open or not, what the peer did,
  complete messages to read (only their cport matters), a started message.
  `owner` is a history value, the interface the connection was opened for, and so
  is `astray`: a socket was stored in the entry of another node (finding 1).
* The AP follows the host driver: it connects only to interfaces it was told of,
  the control cport first, from AP cports other than 0, and destroys the
  connections of a module that was removed. `ap.seen` counts the removals it has
  handled. It is deliberately free to be slow.
* `from_nodes` and `to_nodes` record for each message where it came from and what
  the AP meant by the cport it travelled on.
* Requests that the firmware answers with an error change nothing and are
  stuttering steps. `node_filter` handles its list one address at a time.
  `fail_count` is never read and left out. The message heap is in `Svc`.
  A frame that `hdlc_process_greybus_frame` rejects for its size changes nothing.
* `prj.conf` builds discovery with one static address; builds with mDNS have
  several. The runs use two.

### HdlcRx

The ring is Zephyr's: counts of bytes put and got, and the count at which the
current lap began. A byte is its number, so `Intact` can say that the storage
holds what was put there. `serial_callback` is atomic (an interrupt), the work
item takes a step per byte and runs only while the FIFO is below the level that
raises the interrupt (`Trigger`). `serial_callback` reads whenever it is entered, for
the test at its top never fails, so a read of nothing submits the work as well. With a
full ring it returns at once: that is a stuttering step, and the interrupt stays
pending. A read that fails (`serial_callback_failed`, with `ReadFails`) leaves its
claim open: `head` is where the next claim begins, `put` where `ring_buf_put_finish`
counts from, and `sound` how many bytes were accepted before the first failure.

### HdlcFrame

A line has one sender (the host) or several (the work queue, `rx`, discovery, the
log thread), each with its own `hdlc_block_send_sync` in progress. A sender emits
the delimiter, the escaped bytes and the check bytes one at a time; each arrives
or is lost. A thread runs when no thread of a higher priority is sending, so one
of a higher priority may start a frame in the middle of another's. The CRC is
ideal: two byte sequences have the same CRC only if they are equal. The running
CRC is therefore the sequence it covers, which makes the difference between what
was checked and what was stored visible. Which of the two check bytes of a block are
7E or 7D, and are escaped, is chosen with the block (`special`). A message that is
longer than the buffer of `gb_message_hdlc_send` is `gb_message_hdlc_send_long`, after
which nothing is claimed. `sent` records for each frame whether it
lost a byte, was cut, and the line as its first byte found it: `wire` has the frame
of the last byte and of the last byte that is no delimiter, and whether these were a
delimiter and an escape. The host's decoder is not in this repository; it is taken
to be the firmware's.

### Svc and Messages

`Messages` has the heap and the counter of operation ids. The heap is a row of
blocks, each with room for the longest message that the host or the SVC sends, which
a frame bounds at `HDLC_MAX_BLOCK_SIZE`. Such a message takes one block; one of a node
takes the number of consecutive blocks that its header announces, up to the whole
heap. Four blocks of the 4096 bytes are modelled. That the allocator packs messages
more tightly or elsewhere changes nothing for a message of one block: three of them
never leave less than that in one piece. `Svc` follows each message
from its allocation to its release: `hdlc_process_greybus_frame` allocates a
request, its handler allocates the response, `ap_send` frees what it sent, the
handler frees the request; `rx` and `disc` allocate, send and free theirs with
`wq` slipping in between. `new_operation_id` is two steps (`atomic_inc`, then the
reset) in the threads that can be preempted. A copy into a message that could not
be allocated ends in `fault = "null_copy"`; empty copies touch no memory. After
`ap_send` has freed a request its thread keeps the pointer until
`control_send_request` has read the id from it (`module_request_returns`). Nodes are
reduced to whether they have an interface, an entry in the cache and a socket; the
uses of freed interfaces that `NodeBridge` finds end in `fault = "stale_interface"`,
and a STOP whose `node_destroy_all` leaves a node, because two are listed or one is
half added (`DestroysAll`), in `fault = "assertion"`.

Request types are grouped as `gb_handle_msg` and `control_protocol_handle` group
them: empty answer, answer with a payload, connection create and destroy. The AP
side follows the host driver: START, answers to version, hello and announcements,
requests one cport at a time, STOP, or a restart without STOP. `ap.fresh` marks
the sessions that began with a stopped SVC. `ops` and `unrouted` are histories.

A zeroed entry of `node_ap_map` is taken for the SVC's own, so the SVC's messages
always have a route and only those of nodes and of the local node can lack one.

### MdnsNames and Mdns

Packets are sequences of octets with real headers and fixed parts, and labels of
one letter. The operators on names have the code's limits (64 labels, 16
references, the size of the packet, the capacity of the buffer). `Packet` builds
the packets that hosts send, as RFC 6762 has them, with references and without:
this is the reference that the reading functions are checked against. `Text` and
`Encoded` are the reference for extraction and for `mdns_string_make`.

Each loop of the code is a recursive function of the number of passes, and one
pass is an operator of its own: `follow_ref`, `skip_label`, `extract_label`,
`make_label`, `check_record`, `skip_question`. The code's limits on the passes are
the argument with which the function is called.

`namebuffer` is a local variable that is not initialised: it holds either garbage
or what the last call left. The thread reads `tcp_discovery_data.sock` three times
(the test, the query, the receive loop) and keeps the copy in `disc.fd`; `wq`
suspends it, closes the socket, opens it again and resumes it between any two
steps. Descriptors are the lowest free ones, shared with the connections of nodes.
`joined` is the membership in the group: `mdns_socket_open_ipv6` joins at each START,
`net_if_ipv6_maddr_add` refuses an address that is there, and nothing leaves, so at
most one START gets a socket.
The string table (`mdns.c:213` to `294`) is dead code: its pointer is always NULL.

## Runs

| run | expects | what it shows |
|---|---|---|
| `steady` | pass | nodes keep their connections but may stop in a message, with time slicing: routing both ways, the two copies of a socket, no fault; `NodeHeard` under fairness |
| `churn` | pass | nodes refuse, close, reset, stop in a message and come back: descriptors, announcements |
| `restart` | pass | stop, start and reboot of the host with traffic: descriptors, the SVC's cport |
| `hdlc_rx` | pass | the ring over two and a half laps with overruns and failed reads: `RingInv`, refinement of `ByteStream`, a full ring drains |
| `hdlc_frame` | pass | three blocks from the host or from two threads that preempt, two lost bytes: damage is contained, the block is bounded, nothing else is delivered unless the block overflowed |
| `svc` | pass | two sessions with requests of every group, two frames in the queue, two nodes: who owns each message, when the heap suffices, ids, the AP's view of the table, what STOP leaves, no call through NULL |
| `svc_live` | pass | the same with one node: `Answered` and `Handshake` under fairness |
| `mdns` | pass | packets of two hosts, two STARTs: names, the query, who is reported, whose descriptor; `Discovered` and `RoundEnds` under fairness |
| `stale_index` | violation | the index used after connect names another node |
| `remove_race` | violation | a removal by `wq` inside `node_cache_remove_at` of `rx` |
| `hdlc_stranded` | violation | bytes beyond the end of the ring's storage wait for the next byte |
| `mdns_restart` | violation | the second START gets no socket |

The other `.cfg` files are of findings 5 to 18 below, one property each, which TLC
violates within seconds: `tlc -config stop_all.cfg NodeBridge`.

Bounds. Two addresses are the fewest for which an entry moves when another is
removed; three interfaces created in `churn` let a node come back while the other
stays. `MaxNodes` is 3 where the AP needs two cports beside cport 0, 2 in
`restart`. `UINT8_MAX` stands for 255: 4 in `steady` and `id_wrap`, so the counter wraps.
`steady` has one cport for each node; its safety properties are proved for any number.
`StaleFds` is descriptor 0 in `churn` and `restart`, so that `rx` may poll a node's
socket by accident, and elsewhere a number that no node has. `churn` and
`restart` are without time slicing: with it, finding 8 is what happens first. What
they check does not rest on that alone: a removal in `rx` is preempted by `wq` at each
of its steps. Ring of 4 with a FIFO of 3: claims that end at the storage's end, at the
data's end, and empty ones all occur; `hdlc_stranded` and
`hdlc_read_error` need a ring of 3 only. `HdlcFrame` uses a block of 7 for coded blocks
of 4 to 6 bytes, so that two merged blocks overflow. An escape outlives its frame when
everything between it and the delimiter is lost: one byte, if the last check byte is one
that needs the escape (`Escapes`); the second loss may hit the frame behind. `svc`: four
blocks are what the three threads can hold at once (two in `wq`), `UINT16_MAX` is 3 so
that the counter wraps, two frames in the queue let one wait behind a DESTROY or a
STOP, and the request types are one of each group. `mdns`: one entry in `node_array`
so that it fills up, a response buffer of 60 octets that cuts off the longest packets
of two records, a query buffer that the query just fits, two descriptors so that a
node can take the socket's. Deadlock is checked in `mdns` only: elsewhere the
environment is bounded and a fault stops the behaviour.

Each property of a passing run has a mutant: a faulty version of one operation, defined beside the
original, under which TLC finds the property violated.

Fairness. `NodeHeard`: a thread that can run runs eventually (the scheduler), `poll`
does not fail each time it has something to report (strong fairness of
`node_rx_poll`; it is not obliged to fail either), and a connect or a send
ends (TCP gives up after `NET_TCP_RETRY_COUNT`); nothing is assumed of the AP or the
nodes. A node that stalls in a message blocks `rx` for ever, which `NodeHeard`
excepts. `svc_live`: the work queue handles what waits, a connect or a send ends, and
for `Handshake` the host answers the SVC's requests; discovery and `rx` need not run.
`mdns`: the thread runs when it is not suspended, and the network does not refuse
every query (strong fairness of `mdns_multicast_send`: a query that fails is repeated
in the next round). `HdlcRx`: queued work runs when no interrupt is pending, and the
interrupt is served while it can make progress. It is not assumed that an interrupt
that was not served lets a thread run: a UART keeps it asserted until its FIFO is read,
which is the exception of `FullRingDrains`.

## Findings

In each TLC finds a property violated that a comment, a header or an assertion states.
The first four are runs, and `PROJECT.json` quotes the line; each of the others has a
configuration of its name.

1. `stale_index`: `node_intf_create_connection` (`node.c:402`) stores the socket at an
   index found before the connect; messages of one node reach the AP as another's.
2. `remove_race`: `wq` preempts `rx` between `--node_cache_pos` and the copy
   (`node.c:125`, `127`), and its failed write removes the node that the count hides;
   `rx` then copies the freed entry back (`node.h:22`: "Find greybus node by interface
   ID").
3. `hdlc_stranded`: `hdlc_rx_handler` (`hdlc.c:147`) makes one contiguous claim: a
   command whose last bytes cross the end of the ring waits for more bytes.
4. `mdns_restart`: the group is never left (`mdns.c:98`), so discovery is dead after
   the first STOP.
5. `stop_all` (`StopDestroysAll`; `node.h:39`: "Destroy all current node interfaces"):
   `node_destroy_all` (`node.c:518`) advances its index while removal moves the last
   entry down: with two nodes one survives, and the assertion of `node.c:524` fails.
6. `write_failure` (`WriteReturns`; `greybus_interfaces.h:22`: "Negative in case of
   error"): a failed write (`node.c:334`, `node.c:423`) removes the interface twice.
7. `closed_flag` (`ClosedIsClosed`; `node.c:287`: "Socket closed by peer"): `flag`
   (`node.c:230`) is never reset after a node closed in the middle of a message.
8. `add_race` (`FindsInterfaces`): with time slicing, which `prj.conf` does not turn off,
   a removal by `rx` between the entry and the count of `node_cache_add` (`node.c:112`,
   `118`) loses the new node or keeps a freed one.
9. `id_wrap` (`FindsInterfaces`): `new_interface_id` (`greybus_interfaces.c:27`) wraps
   onto an id in use, after 253 insertions.
10. `stop_adding` (`NothingLeftOver`): STOP suspends discovery (`tcp_discovery.c:86`)
    with a node that `node_destroy_all` does not see; its assertion fails.
11. `stray_byte` (`WholeMessages`): before the socket pair exists `pipe_send`
    (`node.c:58`) writes its byte to descriptor 0, which is the first node's.
12. `slab_free` (`BlocksReturned`): `k_mem_slab_free(slab, (void **)&ptr)`
    (`node.c:481`, `greybus_interfaces.c:57`) frees the address of a local variable on
    the kernel that `west.yml` takes.
13. `hdlc_read_error` (`WrittenIsProcessed`; `hdlc.h:62`): a failed read (`main.c:70`)
    leaves a claim open, and the decoder is given what was never read. The driver of
    this board reports no such failure.
14. `hdlc_long` (`StaysInBuffer`): `gb_message_hdlc_send` (`hdlc.h:90`) copies a message
    of any length into 256 bytes of stack.
15. `svc_use_after_free` (`OwnershipTransferred`; `greybus_interfaces.h:48`):
    `control_send_request` (`svc.c:71`) reads the message that `ap_send` freed. Callers
    look at the sign only, which is never negative.
16. `svc_null_copy` (`NullInCaseOfError`; `greybus_messages.h:126`):
    `gb_message_request_alloc` (`greybus_messages.c:59`) copies before the result is
    tested; a long message of a node that `rx` is reading fills the heap.
17. `mdns_endless` (`RecvReturns`; `mdns.h:51`): a thread that STOP caught in
    `mdns_query_recv` (`mdns.c:620`) polls a closed descriptor without end after START.
18. `mdns_stream` (`TakesPackets`; `mdns.h:42`): or it reads from the socket of a node
    that got the number.

Seen with TLC by weakening an exception that a property makes or by a variant of a
run:

* With a full ring `serial_callback` (`main.c:63`) returns with its interrupt pending,
  and the work queue, which alone can empty the ring, never runs again
  (`FullRingDrains` without its exception).
* With traffic and failing nodes `AnnounceOrder` fails (finding 6). Once a socket went
  to the entry of another node (finding 1), `rx` removes the wrong node and `NoFdLeak`
  fails too; it is stated up to there (`astray`).
* `hdlc_save_byte` (`hdlc.c:102`) restarts the CRC after it was fed the byte that
  starts the new block: after an overflow a block can be delivered with a byte in
  front that was not checked (`SentUnlessOverflow` without its exception).
* A frame that is preempted is lost, though `hdlc_block_send_sync` returns 0.
* Between the increment and the reset of `new_operation_id` another thread draws
  id 0, that of a request without an answer (`IdsDistinct` without `raced`).
* Messages that `connection_send` cannot route, those that `rx` reads while `flag`
  is stale and those for an unknown cport of the SVC are never freed (`unrouted`);
  `greybus_interfaces.h:48` says that ownership is transferred. Once they fill the
  heap, the next request meets finding 16 as well.
* After a START without a STOP whose cport 0 is still connected no version request
  is sent. A START after the SVC's own connection was destroyed works, and finds
  the other connections still in the table (`ApKnowsTable` without `fresh`).
* A host that stops and starts at once may answer a request of the old session and
  be told hello for it before its STOP is handled. The table is still the old one
  then, which `ApKnowsTable` excepts. The proof did not go through without the
  exception, and TLC with a queue of three gives the schedule.
* mDNS: a packet whose record holds no name is compared with what the packet
  before left in `namebuffer` (`Reported`); a query that lists known answers makes
  the asker a node, since the response flag is not read; only a prefix of the name
  is compared. A START without a STOP forgets the first socket.

From reading: `node.h:31` says that `node_filter` checks for "any previous nodes
removed"; it never removes.

## Proofs

`HdlcRx_proofs`, for every `Size`, `UartFifo`, `Trigger` and `MaxBytes`, from the
assumption that they are positive and that the FIFO can reach the trigger level:

* `RingCorrect`: `Spec => []RingInv`, whether reads fail or not. `RingInv` is inductive
  as it stands. Its parts need each other: `Intact` (the storage holds what was put)
  survives the interrupt only because `Window` bounds what was put and what is claimed
  and keeps the two laps equal or adjacent; `Window` survives the end of the work item
  only because the claim was within the data and the lap. `StrandedOnlyAtWrap`, which
  bounds finding 3, needs `ClaimCovers`, the same about work in progress. One lemma per
  action, and one lemma each for what `hdlc_rx_start` and `ring_buf_get_claim` return.
* `StreamCorrect`: `Spec => StreamSpec`, for the bytes accepted before the first failed
  read: `sound` is what the stream has accepted, and what is delivered beyond it is no
  part of the stream. The step to show is that the byte read from the storage is the
  next one (`NextByte`).

`Lookup_proofs`: a search that has a match returns the smallest one (`FirstIndexIn`,
`FirstIndexFound`; the smallest element exists by well-founded induction on finite
sets), and one that matches 0 returns 0.

`NodeBridge_proofs`, for every number of nodes, interfaces, descriptors and messages,
with and without time slicing. The two first theorems have no other hypothesis:

* `SvcReachesAp`: the SVC's messages go to AP cport 0. The invariant `SvcRouteInv`
  adds that a connection in progress is for another cport, which rests on the host
  using cport 0 for the SVC only.
* `BridgeTyped`: `Spec => []TypeOK`, whatever stale index or pointer a thread comes
  back with and wherever a removal is interrupted. `TypeOK` is not inductive. `FillInv` adds that the slots in use were
  written: while `disc` is between the entry it wrote and the count it advances,
  `node_cache_pos` can only drop, so either value it then stores lies behind written
  slots. `RxInv` adds that what `rx` found readable is a descriptor; `TablesInv`,
  that a block in use has its id and its control block.
* `SteadyNoFault`, `SteadySockets`, `SteadyRxRouting`, `SteadyTxRouting`: the
  invariants of the run `steady`, in its setting. `Steady` says that nodes do not
  close or reset connections, that the SVC is started once, and that a slot of `fds`
  that was not written holds no node's descriptor (`StaleFds`): otherwise `rx` may poll
  a socket that is being connected. Nothing is freed in this setting. Nodes may refuse
  connections and stop in a message, the AP connects, disconnects and writes,
  equal priorities may be time-sliced and ids may wrap and be used twice. All four
  follow from `SteadyInv`, which says of each thread why what it looked up before it
  blocked is still right: the node that `wq` connects to has not moved and has no
  socket, what `rx` polls is usable, the node that `disc` adds has a control block of
  its own. Most steps are handled by two facts, that the entries of the cache stay
  where they are (`EntriesKept`) and that usable sockets stay usable and keep their
  owner (`SocketsKept`); findings 1, 2 and 5 to 7 break one of them. A cport leads to the first
  slot that has its id (`First`), which is why a second use of the id does no harm.

There are no such theorems for nodes that come and go: with them `FindsInterfaces` is
false in the code (findings 2, 8 and 9), and what remains true, `NoFdLeak` up to `astray` and
`AnnounceOrder` without failed writes, is left to the runs `churn` and `restart`.

`Mdns_proofs`, for every number of hosts, descriptors, packets, records and restarts:

* `DescriptorCorrect`: `Spec => []SessionDescriptor`, for STARTs and STOPs in any order.
  The property is not inductive, since STOP suspends the thread with a copy of the
  descriptor at hand and START resumes it. `SocketInv` adds that there is a socket only
  after the group was joined, in the one session that could join it, and that until then
  the thread has never left the start of its round. What the thread does in the sessions
  without a socket is findings 4, 17 and 18.
* `MdnsTyped`: `Spec => []TypeOK`, which includes that `node_array` is never overrun.
  `MdnsInv` adds the fields of the thread, and that at `recvfrom` there is room in
  `node_array` and the descriptor is one that `poll` returned (`ThreadTypes`): START
  and STOP may come between the two, and neither touches the list.
* `NamesReadCorrect`: `Spec => []NamesRead`. Every message, whatever the number and
  order of its records and wherever the buffer cuts it off, is read as the standard
  has it (`MessagesWellRead`). `Reads` says what the skipping and extracting loops do
  at an offset, with passes to spare for labels in front; it is shown for the end of
  a name, for a label in front of a name and for a reference (`ReadsEnding`,
  `ReadsLetter`, `ReadsRef`), hence for a name of up to 64 labels spelled out
  (`EncodedReads`). `PacketInv` carries it through the construction of a packet: each
  name can be read once it was stored, and what later names refer to starts with a
  label, so that a reference never leads to a reference.
* `QueryCorrect`: `Spec => []QueryAsks`. `MakesName`, for any number of labels, any
  contents of the buffer before them and any capacity: `mdns_string_make` writes what
  the standard spells, with a trailing dot or without, or nothing. The loop invariant
  is `MakeInv`. The query that is sent is then read back by the reading functions.
* `ReportedCorrect`: `Spec => []Reported`. `CheckInv` is the invariant of the loop of
  `mdns_answer_check`: it stands at the start of a record, or where no record fits any
  more because the packet was cut off; and namebuffer holds the name searched only if
  it did before or a record that was stored whole offered it. `PacketSound` is what
  follows of a packet. `ReportInv`, the inductive invariant, adds that the packets in
  the queues have been said by their hosts (`Told`).

These proofs use induction on the number of passes or of records. The library's
theorems on induction take an operator as a parameter, so `SetInduction` states it
for a set, and follows from the least element of the numbers that are not in it. For
each recursive function it is shown first that a function with its equation exists,
then that the one in the definition, which is chosen, satisfies it for each pass
(`SkipEquations`, `MakeEquations`, `CheckEquations` and so on).

The sizes of the buffers are parameters, with what `MdnsAssumption` says of them: the
query buffer and namebuffer have room for the query and for the name that is
compared, and the response buffer has a header's size at least and at most 16000
octets (`AddressRef`; the code has 100). In a larger one the address `fe80::` of a
record, whose type is not looked at, would be a reference into the packet.

`HdlcFrame_proofs`, for every set of lines, senders and payloads, every size of
`rx_buffer` and every number of frames and losses:

* `FrameTyped`: `Spec => []TypeOK`, which includes that the block stays within
  `rx_buffer`.
* `AcceptedWasSent`: `SentUnlessOverflow`. The inductive invariant `FrameInv` says of
  the decoder that what is stored and what was checked are the same, except after an
  overflow, and of each byte that can be a check byte that it belongs to a frame that
  was sent. So a CRC that fits names the frame.
* `DamageStaysContained`: `DamageContained`. `LineInv`: when the frame of the last byte
  lost none and that byte is a delimiter, the block is empty; when the frame of the
  last byte that is no delimiter lost none, `next_escaped` is what that byte says.
  `ProgressInv`: a frame that was not cut put the last byte on the line, and if nothing
  else happened to it the block holds what it has sent. `TurnInv`: where no two senders
  have the same priority, a frame begins behind a delimiter, since a thread that
  preempts is done before the other goes on. Equal priorities that take turns need
  that as a hypothesis. An earlier form that named only the frames a frame follows
  held just for the two lost bytes of its run, as the attempt to prove it showed; the
  history of the line is what came of it.

`SvcMessages_proofs` and `SvcSession_proofs`, for every heap, every width of the
operation ids, any number of AP cports, requests, STARTs, STOPs and arrivals of nodes,
and a queue of any length:

* `SvcTyped`, `MessagesOwned`, `FourBlocksSuffice`, for messages of any size. `TypeInv`
  has the types by component. `MessageInv` adds what `Ownership` lacks to be inductive:
  which program counters hold a message, and of how many blocks (`PcInv`), that the
  blocks nobody holds are `unrouted` many (`Owned`, changed only by taking, freeing,
  forgetting or losing a message), and that the local node and the SVC have a route
  while a frame for them waits (`RouteInv`). `FourBlocksSuffice` is
  `Spec => HeapSuffices`: when nothing is lost and `rx` holds at most a block, the
  others hold too few to leave none.
* `IdsOwn`. `IdsInv` measures how far each id lies behind the counter on the circle of
  ids: at most as far as draws were made since. Two draws within a cycle therefore
  differ. A draw during a reset takes a position in `ops` but none on the circle.
* `FramesFindConnection`, `StopCleans`, `HostKnowsTable`. `NextHostStep` first reduces
  the steps to what the host and the table see of them (`HostStep`). `SessionInv` is
  about the queue: a frame at position `k` finds its cport connected, since it is now
  and no STOP or CONN_DESTROY before `k` ends that (`Up`), or, for cport 0, a START
  lies before it; a request that would be sent now would find the same (`ZeroInv`,
  `CportInv`). This needs that requests wait in the order of their ids (`IdInv`), so
  that an answer is for the frame just handled, and that whatever ends a connection
  was queued before the CONN_CREATE the host still waits for (`WaitInv`). `StopInv`:
  a host that has stopped is the last to have sent, or finds the SVC clean. It speaks
  of a STOP that did not fail the assertion of `node_destroy_all` (findings 5 and 10).
  `FreshInv`: in a session that began so, nothing is connected while the STOP waits,
  every change of the table that waits after it is one the host waits for, and the
  entries that do not change are known.

Only model-checked: the liveness properties `NodeHeard`, `Answered`, `Handshake`,
`Discovered`, `RoundEnds` and `FullRingDrains` (fairness and ENABLED are out of the prover's reach);
`NoFdLeak` and `AnnounceOrder`, as said above. Every other invariant and action property
of the passing runs has a theorem. A theorem for `HeapSuffices` says nothing of the
loads under which a message is lost, nor one for `NoFault` of nodes that leave.

## Not modelled, and the plan

Left out, because there is no behaviour to model: `greybus_protocols.h` (constants
and structures of the Greybus specification), the string table of `mdns.c` (dead),
the callbacks of the log backend that do nothing, `fail_count` and the sequence
numbers of frames (never read). The sizes of the host's messages are left out too: a
frame whose header claims more than was received is rejected and changes nothing.

Next:

1. Proofs: `NoFdLeak` for every number of nodes, up to `astray`.
2. `HdlcRx` composed with `Svc`, so that the work item that fills the ring is the one
   that is held up in a connect or a send.
3. The corrected code, once findings 2, 8 and 9 are fixed: `FindsInterfaces` as an invariant.
