------------------------------ MODULE Messages ------------------------------
(***************************************************************************)
(* The messages of greybus_messages.c: a heap of messages and the counter  *)
(* that numbers requests.  A heap h is the set of the blocks in use, of    *)
(* those in Blocks, and a message is the set of the blocks that it takes.  *)
(* A block has room for the longest message of the host or of the SVC;     *)
(* one of a node is as long as its header announces.  The payload of a     *)
(* message only matters in that copying an empty one touches no memory.    *)
(***************************************************************************)
EXTENDS Integers

CONSTANTS
  HeapBlocks,   \* messages of one block that the heap has room for
  UINT16_MAX    \* the last operation id

ASSUME MessagesAssumption ==
  /\ HeapBlocks \in Nat \ {0}
  /\ UINT16_MAX \in Nat \ {0}

Blocks == 1..HeapBlocks
OPERATION_ID_START == 1

(* The pointer NULL.                                                       *)
NoMessage == {}

(* n consecutive blocks, from any block of S on.                           *)
Spans(S, n) == {b..(b + n - 1) : b \in S}

(* Two faulty heaps: one that gives out blocks it does not have, and one   *)
(* that keeps its last block.                                              *)
alloc_unbounded(h, n) == CHOOSE m \in Spans(1..(2 * HeapBlocks), n) : m \cap h = {}
alloc_one_short(h, n) ==
  LET fits == {m \in Spans(Blocks, n) : m \subseteq Blocks \ (h \cup {HeapBlocks})} IN
  IF fits = {} THEN NoMessage ELSE CHOOSE m \in fits : TRUE

(* k_heap_alloc with K_NO_WAIT, for a message of n blocks: n consecutive   *)
(* free blocks, or NULL.                                                   *)
Fits(h, n) == {m \in Spans(Blocks, n) : m \subseteq Blocks \ h}
gb_message_alloc(h, n) ==
  IF Fits(h, n) = {} THEN NoMessage ELSE CHOOSE m \in Fits(h, n) : TRUE

gb_message_dealloc(h, m) == h \ m

(* gb_message_request_alloc and gb_message_response_alloc copy the payload *)
(* before their callers test the result: without a message, a payload is   *)
(* copied over address 0.                                                  *)
CopiesToNull(m, payload) == m = NoMessage /\ payload

(* operation_id is the low half of the counter that is drawn.              *)
operation_id(c) == c % (UINT16_MAX + 1)

(* A faulty reset, one draw late.                                          *)
must_reset_late(c) == c = UINT16_MAX + 1

(* new_operation_id: the draw that takes the last id must reset.           *)
must_reset(c) == c = UINT16_MAX

(* new_operation_id by a thread that nothing preempts: the counter after.  *)
counter_after(c) == IF must_reset(c) THEN OPERATION_ID_START ELSE c + 1

=============================================================================
