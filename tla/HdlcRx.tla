------------------------------- MODULE HdlcRx -------------------------------
(***************************************************************************)
(* The receive path of the UART: serial_callback, the interrupt handler of *)
(* main.c, puts bytes into the ring buffer of hdlc.c; hdlc_rx_handler, a   *)
(* work item of hdlc_rx_workqueue, takes them out and feeds the decoder.   *)
(*                                                                         *)
(* The ring buffer is Zephyr's: put and get count bytes since the start,   *)
(* the position of a count is its distance from the base of the current    *)
(* lap, and a claim never reaches past the end of the storage.  A byte is  *)
(* represented by its number in the order of acceptance, so that the       *)
(* storage shows whether a byte was lost, repeated or overwritten.         *)
(*                                                                         *)
(* The interrupt runs to completion, between any two steps of the handler, *)
(* and no thread runs while it is pending: the UART asserts it as long as  *)
(* its FIFO holds Trigger bytes or more.  It may also come with fewer, or  *)
(* with none (a receive timeout, another source of the same line).         *)
(***************************************************************************)
EXTENDS Integers

CONSTANTS
  Size,        \* HDLC_RX_BUF_SIZE
  UartFifo,    \* depth of the UART's own FIFO
  Trigger,     \* bytes in it that assert the interrupt
  ReadFails,   \* uart_fifo_read of the UART's driver may return an error
  MaxBytes     \* bound: bytes that the AP sends

ASSUME ConstantsAssumption ==
  /\ Size \in Nat \ {0}
  /\ UartFifo \in Nat \ {0}
  /\ Trigger \in 1..UartFifo
  /\ ReadFails \in BOOLEAN
  /\ MaxBytes \in Nat

VARIABLES
  buf,             \* the storage of hdlc_rx_ringbuf
  put, put_base,   \* bytes put, and the count at the start of the put lap
  head,            \* the count up to which space has been claimed
  get, get_base,   \* bytes got, and the count at the start of the get lap
  queued,          \* hdlc_rx_work is in the queue
  claim,           \* the claim hdlc_rx_handler processes: its length and progress
  delivered,       \* bytes given to the decoder
  last,            \* number of the last byte given to the decoder
  fifo,            \* bytes in the FIFO of the UART
  arrived,         \* bytes that have arrived at the UART
  failed,          \* history: a read has failed
  sound            \* history: bytes accepted before the first read that failed

counts  == <<put, put_base, head>>
history == <<failed, sound>>
vars    == <<buf, counts, get, get_base, queued, claim, delivered, last, fifo, arrived,
             history>>

Slots   == 0..(Size - 1)
NoClaim == [on |-> FALSE, n |-> 0, i |-> 0]

SmallerOf(a, b) == IF a <= b THEN a ELSE b

Init ==
  /\ buf = [s \in Slots |-> -1]
  /\ put = 0 /\ put_base = 0 /\ head = 0
  /\ get = 0 /\ get_base = 0
  /\ queued = FALSE
  /\ claim = NoClaim
  /\ delivered = 0 /\ last = -1
  /\ fifo = 0
  /\ arrived = 0
  /\ failed = FALSE /\ sound = 0

-----------------------------------------------------------------------------
(* The ring buffer.                                                        *)

(* The base of the lap once the count is c.                                *)
NextBase(c, base) == IF c - base >= Size THEN base + Size ELSE base

(* Where a claim of space begins, and the lengths of the contiguous space  *)
(* there and of the contiguous data after get.                             *)
ClaimedSlot == head - NextBase(head, put_base)
ring_buf_put_claim == SmallerOf(Size - (head - get), Size - ClaimedSlot)
ring_buf_get_claim == SmallerOf(put - get, Size - (get - get_base))

(* What was claimed and is not put is given back.                          *)
ring_buf_put_finish(n) ==
  /\ put' = put + n
  /\ head' = put + n
  /\ put_base' = NextBase(put + n, put_base)

ring_buf_get_finish(n) ==
  /\ get' = get + n
  /\ get_base' = NextBase(get + n, get_base)

-----------------------------------------------------------------------------
(* A byte that finds the FIFO of the UART full is lost.                    *)
ByteArrives ==
  /\ arrived < MaxBytes
  /\ arrived' = arrived + 1
  /\ fifo' = IF fifo < UartFifo THEN fifo + 1 ELSE fifo
  /\ UNCHANGED <<buf, counts, get, get_base, queued, claim, delivered, last, history>>

(* k_work_submit_to_queue: also while the handler runs; once if queued.    *)
submit_work == queued' = TRUE

(* A faulty start that ignores what has not been got yet.                  *)
hdlc_rx_start_no_space == Size - ClaimedSlot

hdlc_rx_start == ring_buf_put_claim

(* A faulty finish that leaves the work to the next interrupt.             *)
hdlc_rx_finish_no_work(n) == ring_buf_put_finish(n) /\ UNCHANGED queued

hdlc_rx_finish(n) == ring_buf_put_finish(n) /\ submit_work

(* The interrupt.  uart_irq_update always says yes, so that the FIFO is    *)
(* read although there may be nothing in it, and the work is submitted all *)
(* the same.  Without space it returns, and the bytes stay in the FIFO.    *)
serial_callback ==
  LET n == SmallerOf(fifo, hdlc_rx_start)
      p == ClaimedSlot
  IN /\ hdlc_rx_start > 0
     /\ buf' = [s \in Slots |-> IF p <= s /\ s < p + n THEN put + (s - p) ELSE buf[s]]
     /\ hdlc_rx_finish(n)
     /\ fifo' = fifo - n
     /\ sound' = IF failed THEN sound ELSE put + n
     /\ UNCHANGED <<get, get_base, claim, delivered, last, arrived, failed>>

(* uart_fifo_read fails: the handler returns without giving back its claim.*)
serial_callback_failed ==
  /\ ReadFails
  /\ hdlc_rx_start > 0
  /\ head' = head + hdlc_rx_start
  /\ failed' = TRUE
  /\ UNCHANGED <<buf, put, put_base, get, get_base, queued, claim, delivered, last, fifo,
                 arrived, sound>>

(* No thread runs while the interrupt is pending.                          *)
ThreadMayRun == fifo < Trigger

(* hdlc_rx_handler: the work queue takes the item and one claim is made.   *)
hdlc_rx_handler ==
  /\ ThreadMayRun
  /\ queued
  /\ ~claim.on
  /\ queued' = FALSE
  /\ claim' = [on |-> TRUE, n |-> ring_buf_get_claim, i |-> 0]
  /\ UNCHANGED <<buf, counts, get, get_base, delivered, last, fifo, arrived, history>>

(* hdlc_process_buffer: one byte of the claim goes to the decoder.         *)
hdlc_process_buffer ==
  /\ ThreadMayRun
  /\ claim.on
  /\ claim.i < claim.n
  /\ last' = buf[(get - get_base) + claim.i]
  /\ delivered' = delivered + 1
  /\ claim' = [claim EXCEPT !.i = @ + 1]
  /\ UNCHANGED <<buf, counts, get, get_base, queued, fifo, arrived, history>>

(* A faulty end: one byte too few is released.                             *)
handler_end_one_short ==
  /\ ThreadMayRun
  /\ claim.on
  /\ claim.i = claim.n
  /\ ring_buf_get_finish(IF claim.n = 0 THEN 0 ELSE claim.n - 1)
  /\ claim' = NoClaim
  /\ UNCHANGED <<buf, counts, queued, delivered, last, fifo, arrived, history>>

(* The end of hdlc_rx_handler: the claim is finished.  It is not repeated. *)
hdlc_rx_handler_end ==
  /\ ThreadMayRun
  /\ claim.on
  /\ claim.i = claim.n
  /\ ring_buf_get_finish(claim.n)
  /\ claim' = NoClaim
  /\ UNCHANGED <<buf, counts, queued, delivered, last, fifo, arrived, history>>

Next ==
  \/ ByteArrives
  \/ serial_callback
  \/ serial_callback_failed
  \/ hdlc_rx_handler
  \/ hdlc_process_buffer
  \/ hdlc_rx_handler_end

Spec == Init /\ [][Next]_vars

(* The work queue runs what is queued when it may, and the UART asserts    *)
(* its interrupt until the FIFO has been read.  Nothing obliges the AP to  *)
(* send, nor the other sources of the interrupt to occur.                  *)
FairSpec ==
  /\ Spec
  /\ WF_vars(fifo >= Trigger /\ (serial_callback \/ serial_callback_failed))
  /\ WF_vars(hdlc_rx_handler \/ hdlc_process_buffer \/ hdlc_rx_handler_end)

-----------------------------------------------------------------------------
(* Type correctness.                                                       *)
TypeOK ==
  /\ buf \in [Slots -> Int]
  /\ put \in Nat /\ put_base \in Nat /\ head \in Nat
  /\ get \in Nat /\ get_base \in Nat
  /\ queued \in BOOLEAN
  /\ claim \in [on : BOOLEAN, n : 0..Size, i : 0..Size]
  /\ delivered \in Nat
  /\ last \in Int
  /\ fifo \in 0..UartFifo
  /\ arrived \in 0..MaxBytes
  /\ failed \in BOOLEAN /\ sound \in Nat

(* The ring never holds more than its storage, what was claimed for        *)
(* writing included, the two laps are the same or adjacent, and a claim    *)
(* lies within the data and within its lap: ring_buf_put_claim and         *)
(* ring_buf_get_claim as hdlc.c uses them.                                 *)
Window ==
  /\ get <= put /\ put <= head /\ head <= get + Size
  /\ get_base <= get /\ get < get_base + Size
  /\ put_base <= put /\ put < put_base + Size
  /\ put_base = get_base \/ put_base = get_base + Size
  /\ claim.i <= claim.n
  /\ get + claim.n <= put
  /\ (get - get_base) + claim.n <= Size
  /\ ~claim.on => claim = NoClaim

(* The slot of byte number k while it waits in the ring.                   *)
SlotOf(k) == IF k < get_base + Size THEN k - get_base ELSE k - get_base - Size

(* Every byte that waits in the ring is the one that was accepted with its *)
(* number: the interrupt never overwrites a byte that has not been got, a  *)
(* claim that the handler is reading included.  After a read that failed   *)
(* this still holds of the bytes accepted before it.                       *)
Intact ==
  /\ ~failed => sound = put /\ head = put
  /\ sound <= put
  /\ \A k \in get..(put - 1) : k < sound => buf[SlotOf(k)] = k

(* The decoder has been given every byte up to the handler's progress.     *)
DeliveredUpTo == delivered = get + claim.i

(* When no work is queued or running, the ring is empty or the bytes left  *)
(* begin a lap: hdlc_rx_handler makes a single claim, so what lies beyond  *)
(* the end of the storage waits for the next interrupt, and nothing else   *)
(* ever does.                                                              *)
StrandedOnlyAtWrap == (~queued /\ ~claim.on) => (put = get \/ get = get_base)

(* The same for the work in progress.                                      *)
ClaimCovers ==
  (~queued /\ claim.on) => (get + claim.n = put \/ (get - get_base) + claim.n = Size)

(* Together: the inductive invariant of the receive path.                  *)
RingInv ==
  TypeOK /\ Window /\ Intact /\ DeliveredUpTo /\ StrandedOnlyAtWrap /\ ClaimCovers

(* The receive path implements the stream of bytes, with the ring as its   *)
(* capacity: each byte that was accepted before a read failed reaches the  *)
(* decoder once and in order, although the interrupt puts bytes into the   *)
(* ring between any two steps of the handler, and goes on to do so after   *)
(* the failure.                                                            *)
Stream == INSTANCE ByteStream WITH
            Capacity  <- Size,
            accepted  <- sound,
            delivered <- SmallerOf(delivered, sound),
            last      <- IF delivered <= sound THEN last ELSE sound - 1
StreamSpec == Stream!Spec

(* A full ring is emptied: whatever filled it has queued the work, and no  *)
(* claim that ends at the wrap leaves a full ring behind (hdlc_rx_finish,  *)
(* hdlc_rx_handler).  The exception is the interrupt that a full ring      *)
(* leaves pending, which keeps the work from running.                      *)
FullRingDrains == (put - get = Size) ~> (put - get < Size \/ fifo >= Trigger)

-----------------------------------------------------------------------------
(* What the comments say, and what the code does not do.                   *)

(* Every byte that was accepted is processed: "Finish writing to rx        *)
(* buffer.  Also queues rx buffer for processing" (hdlc.h).                *)
AcceptedIsProcessed == (delivered < put) ~> (delivered = put)

(* What the handler processes is what was written to the buffer that       *)
(* hdlc_rx_start returned: "Get a buffer to write HDLC message received    *)
(* for processing" (hdlc.h).                                               *)
WrittenIsProcessed == \A k \in get..(put - 1) : buf[SlotOf(k)] = k

=============================================================================
