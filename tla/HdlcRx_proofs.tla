---------------------------- MODULE HdlcRx_proofs ----------------------------
(***************************************************************************)
(* Proofs about the receive path, for every size of the ring, depth of the *)
(* UART FIFO and number of bytes: RingInv is an inductive invariant, also  *)
(* when reads fail, and the ring with its interrupt and its work item      *)
(* implements the stream of bytes of ByteStream, for the bytes that were   *)
(* accepted before the first read that failed.                             *)
(***************************************************************************)
EXTENDS HdlcRx, TLAPS

(* What the interrupt claims: space behind what is claimed already, that   *)
(* the ring has and that stays within a lap (hdlc_rx_start); and what it   *)
(* reads into it.                                                          *)
LEMMA PutClaim ==
  ASSUME TypeOK, Window, hdlc_rx_start > 0
  PROVE  LET c == hdlc_rx_start
             n == SmallerOf(fifo, c)
         IN /\ c \in Nat /\ head + c <= get + Size
            /\ ClaimedSlot \in Slots /\ ClaimedSlot + c <= Size
            /\ n \in Nat /\ n <= fifo /\ n <= c
<1>1. NextBase(head, put_base) \in {put_base, put_base + Size}
  BY ConstantsAssumption DEF TypeOK, NextBase
<1>2. ClaimedSlot \in Int /\ 0 <= ClaimedSlot /\ ClaimedSlot < Size
  BY <1>1, ConstantsAssumption DEF TypeOK, Window, NextBase, ClaimedSlot
<1> QED
  BY <1>2, ConstantsAssumption
  DEF TypeOK, Window, hdlc_rx_start, ring_buf_put_claim, SmallerOf, Slots

(* What hdlc_rx_handler claims: data within the lap, and either all of it  *)
(* or all that is left of the lap.                                         *)
LEMMA GetClaim ==
  ASSUME TypeOK, Window
  PROVE  LET n == ring_buf_get_claim IN
         /\ n \in 0..Size
         /\ get + n <= put
         /\ (get - get_base) + n <= Size
         /\ get + n = put \/ (get - get_base) + n = Size
  BY ConstantsAssumption DEF TypeOK, Window, ring_buf_get_claim, SmallerOf

(* The ring is sound when hdlc.c has defined it and nothing has arrived.   *)
LEMMA InitRing == Init => RingInv
<1> SUFFICES ASSUME Init PROVE RingInv
  OBVIOUS
<1>1. TypeOK
  <2>1. queued \in BOOLEAN /\ failed \in BOOLEAN
    BY Zenon DEF Init
  <2>2. claim \in [on : BOOLEAN, n : 0..Size, i : 0..Size]
    BY ConstantsAssumption DEF Init, NoClaim
  <2>3. buf \in [Slots -> Int]
    BY DEF Init
  <2> QED BY <2>1, <2>2, <2>3, ConstantsAssumption DEF Init, TypeOK
<1>2. Window
  BY ConstantsAssumption DEF Init, Window, NoClaim
<1>3. Intact
  BY ConstantsAssumption DEF Init, Intact
<1>4. DeliveredUpTo /\ StrandedOnlyAtWrap /\ ClaimCovers
  BY DEF Init, DeliveredUpTo, StrandedOnlyAtWrap, ClaimCovers, NoClaim
<1> QED BY <1>1, <1>2, <1>3, <1>4 DEF RingInv

-----------------------------------------------------------------------------
(* The interrupt preserves the invariant wherever it strikes.              *)
LEMMA InterruptKeepsRing ==
  ASSUME RingInv, serial_callback
  PROVE  RingInv'
<1> DEFINE n == SmallerOf(fifo, hdlc_rx_start)
           p == ClaimedSlot
<1>1. TypeOK /\ Window /\ Intact /\ DeliveredUpTo /\ StrandedOnlyAtWrap /\ ClaimCovers
  BY DEF RingInv
<1>2. /\ n \in Nat /\ n <= fifo
      /\ head + n <= get + Size
      /\ p \in Slots /\ p + n <= Size
  <2>1. hdlc_rx_start > 0
    BY DEF serial_callback
  <2> QED BY <1>1, <2>1, PutClaim, ConstantsAssumption DEF TypeOK, Slots
<1>3. /\ buf' = [s \in Slots |-> IF p <= s /\ s < p + n THEN put + (s - p) ELSE buf[s]]
      /\ put' = put + n
      /\ head' = put + n
      /\ put_base' = NextBase(put + n, put_base)
      /\ queued' = TRUE
      /\ fifo' = fifo - n
      /\ sound' = IF failed THEN sound ELSE put + n
      /\ UNCHANGED <<get, get_base, claim, delivered, last, arrived, failed>>
  BY DEF serial_callback, hdlc_rx_finish, ring_buf_put_finish, submit_work
<1>4. /\ p = head - put_base \/ p = head - put_base - Size
      /\ 0 <= p /\ p < Size
  BY <1>1, <1>2, ConstantsAssumption DEF ClaimedSlot, NextBase, TypeOK, Slots
<1> HIDE DEF n, p
<1>5. TypeOK'
  <2>1. buf' \in [Slots -> Int]
    BY <1>1, <1>2, <1>3, ConstantsAssumption DEF TypeOK, Slots
  <2>2. put_base' \in Nat
    BY <1>1, <1>2, <1>3, ConstantsAssumption DEF TypeOK, NextBase
  <2>3. queued' \in BOOLEAN /\ failed' \in BOOLEAN
    BY <1>1, <1>3, Zenon DEF TypeOK
  <2>4. sound' \in Nat
    BY <1>1, <1>2, <1>3 DEF TypeOK
  <2>5. fifo' \in 0..UartFifo /\ put' \in Nat /\ head' \in Nat
    BY <1>1, <1>2, <1>3, ConstantsAssumption DEF TypeOK
  <2> QED BY <1>1, <1>3, <2>1, <2>2, <2>3, <2>4, <2>5 DEF TypeOK
<1>6. Window'
  BY <1>1, <1>2, <1>3, ConstantsAssumption DEF TypeOK, Window, NextBase, NoClaim
<1>7. Intact'
  <2>1. ~failed => sound = put /\ head = put
    BY <1>1 DEF Intact
  <2>2. /\ ~failed' => sound' = put' /\ head' = put'
        /\ sound' <= put'
    BY <1>1, <1>2, <1>3 DEF Intact, TypeOK
  <2>3. ASSUME NEW k \in get..(put' - 1), k < sound'
        PROVE  buf'[SlotOf(k)] = k
    <3>1. CASE k < put
      <4>1. k < sound
        BY <1>3, <2>1, <2>3, <3>1
      <4>2. buf[SlotOf(k)] = k /\ SlotOf(k) \in Slots
        BY <3>1, <4>1, <1>1, ConstantsAssumption DEF Intact, SlotOf, TypeOK, Window, Slots
      <4>3. ~(p <= SlotOf(k) /\ SlotOf(k) < p + n)
        BY <3>1, <1>1, <1>2, <1>4, ConstantsAssumption DEF SlotOf, TypeOK, Window
      <4> QED BY <4>2, <4>3, <1>3
    <3>2. CASE k >= put
      <4>1. ~failed /\ head = put
        BY <1>1, <1>3, <2>1, <2>3, <3>2 DEF Intact, TypeOK
      <4>2. SlotOf(k) = p + (k - put) /\ SlotOf(k) \in Slots
        BY <3>2, <4>1, <1>1, <1>2, <1>3, <1>4, ConstantsAssumption
        DEF SlotOf, TypeOK, Window, Slots
      <4>3. p \in Int /\ put \in Int /\ k \in Int /\ n \in Int /\ k < put + n
        BY <1>1, <1>2, <1>3 DEF TypeOK, Slots
      <4>4. PICK s \in Slots : s = SlotOf(k)
        BY <4>2
      <4>5. s \in Int /\ p <= s /\ s < p + n /\ put + (s - p) = k
        BY <3>2, <4>2, <4>3, <4>4 DEF Slots
      <4>6. buf'[s] = put + (s - p)
        BY <1>3, <4>4, <4>5
      <4> QED BY <4>4, <4>5, <4>6
    <3> QED BY <3>1, <3>2, <1>1, <1>2, <1>3 DEF TypeOK
  <2>4. \A k : SlotOf(k)' = SlotOf(k)
    BY <1>3 DEF SlotOf
  <2>5. \A k \in get'..(put' - 1) : k < sound' => buf'[SlotOf(k)'] = k
    BY <1>3, <2>3, <2>4
  <2> QED BY <2>2, <2>5, Zenon DEF Intact
<1>8. DeliveredUpTo' /\ StrandedOnlyAtWrap' /\ ClaimCovers'
  BY <1>1, <1>3 DEF DeliveredUpTo, StrandedOnlyAtWrap, ClaimCovers
<1> QED BY <1>5, <1>6, <1>7, <1>8 DEF RingInv

(* A read that fails leaves its claim open and touches nothing else.       *)
LEMMA FailureKeepsRing ==
  ASSUME RingInv, serial_callback_failed
  PROVE  RingInv'
<1> DEFINE c == hdlc_rx_start
<1>1. TypeOK /\ Window /\ Intact /\ DeliveredUpTo /\ StrandedOnlyAtWrap /\ ClaimCovers
  BY DEF RingInv
<1>2. c \in Nat /\ head + c <= get + Size
  BY <1>1, PutClaim DEF serial_callback_failed
<1>3. /\ head' = head + c /\ failed' = TRUE
      /\ UNCHANGED <<buf, put, put_base, get, get_base, queued, claim, delivered, last, fifo,
                     arrived, sound>>
  BY DEF serial_callback_failed
<1> HIDE DEF c
<1>4. TypeOK'
  <2>1. failed' \in BOOLEAN
    BY <1>3, Zenon
  <2> QED BY <1>1, <1>2, <1>3, <2>1 DEF TypeOK
<1>5. Window'
  BY <1>1, <1>2, <1>3 DEF Window, TypeOK, NoClaim
<1>6. Intact'
  <2>1. sound <= put /\ \A k \in get..(put - 1) : k < sound => buf[SlotOf(k)] = k
    BY <1>1 DEF Intact
  <2> QED BY <1>3, <2>1, Zenon DEF Intact, SlotOf
<1>7. DeliveredUpTo' /\ StrandedOnlyAtWrap' /\ ClaimCovers'
  BY <1>1, <1>3 DEF DeliveredUpTo, StrandedOnlyAtWrap, ClaimCovers
<1> QED BY <1>4, <1>5, <1>6, <1>7 DEF RingInv

(* Making the claim preserves the invariant.                               *)
LEMMA HandlerKeepsRing ==
  ASSUME RingInv, hdlc_rx_handler
  PROVE  RingInv'
<1> DEFINE n == ring_buf_get_claim
<1>1. TypeOK /\ Window /\ Intact /\ DeliveredUpTo
  BY DEF RingInv
<1>2. /\ n \in 0..Size
      /\ get + n <= put
      /\ (get - get_base) + n <= Size
      /\ get + n = put \/ (get - get_base) + n = Size
  BY <1>1, GetClaim
<1>3. /\ ~claim.on
      /\ queued' = FALSE
      /\ claim' = [on |-> TRUE, n |-> n, i |-> 0]
      /\ UNCHANGED <<buf, put, put_base, head, get, get_base, delivered, last, fifo, arrived,
                     failed, sound>>
  BY DEF hdlc_rx_handler, counts, history
<1> HIDE DEF n
<1>4. TypeOK'
  <2>1. queued' \in BOOLEAN
    BY <1>3, Zenon
  <2>2. claim' \in [on : BOOLEAN, n : 0..Size, i : 0..Size]
    BY <1>2, <1>3, ConstantsAssumption
  <2> QED BY <2>1, <2>2, <1>1, <1>3 DEF TypeOK
<1>5. Window'
  BY <1>1, <1>2, <1>3, ConstantsAssumption DEF TypeOK, Window
<1>6. Intact'
  BY <1>1, <1>3, Zenon DEF Intact, SlotOf
<1>7. DeliveredUpTo' /\ StrandedOnlyAtWrap' /\ ClaimCovers'
  BY <1>1, <1>2, <1>3
  DEF TypeOK, Window, DeliveredUpTo, StrandedOnlyAtWrap, ClaimCovers, NoClaim
<1> QED BY <1>4, <1>5, <1>6, <1>7 DEF RingInv

(* A byte of the claim is the next one of the stream, if it was accepted   *)
(* before a read failed.                                                   *)
LEMMA NextByte ==
  ASSUME RingInv, claim.on, claim.i < claim.n, delivered < sound
  PROVE  buf[(get - get_base) + claim.i] = delivered
<1> DEFINE k == get + claim.i
<1>1. TypeOK /\ Window /\ Intact /\ DeliveredUpTo
  BY DEF RingInv
<1>2. k \in get..(put - 1) /\ k < get_base + Size /\ k < sound
  BY <1>1, ConstantsAssumption DEF TypeOK, Window, DeliveredUpTo
<1>3. buf[k - get_base] = k
  BY <1>1, <1>2 DEF Intact, SlotOf, TypeOK
<1>4. k - get_base = (get - get_base) + claim.i
  BY <1>1 DEF TypeOK
<1> QED BY <1>1, <1>2, <1>3, <1>4 DEF DeliveredUpTo, TypeOK

(* Processing a byte preserves the invariant.                              *)
LEMMA ByteKeepsRing ==
  ASSUME RingInv, hdlc_process_buffer
  PROVE  RingInv'
<1>1. TypeOK /\ Window /\ Intact /\ DeliveredUpTo /\ StrandedOnlyAtWrap /\ ClaimCovers
  BY DEF RingInv
<1>2. last' \in Int
  <2>1. (get - get_base) + claim.i \in Slots
    <3>1. claim.i \in 0..Size /\ claim.n \in 0..Size /\ claim.i < claim.n
      BY <1>1 DEF hdlc_process_buffer, TypeOK
    <3>2. get \in Nat /\ get_base \in Nat /\ get_base <= get
          /\ (get - get_base) + claim.n <= Size
      BY <1>1 DEF TypeOK, Window
    <3> QED BY <3>1, <3>2, ConstantsAssumption DEF Slots
  <2> QED BY <1>1, <2>1 DEF hdlc_process_buffer, TypeOK
<1>3. /\ claim.on /\ claim.i < claim.n
      /\ delivered' = delivered + 1
      /\ claim' = [claim EXCEPT !.i = @ + 1]
      /\ UNCHANGED <<buf, put, put_base, head, get, get_base, queued, fifo, arrived, failed,
                     sound>>
  BY DEF hdlc_process_buffer, counts, history
<1>4. claim' = [on |-> TRUE, n |-> claim.n, i |-> claim.i + 1]
  BY <1>1, <1>3 DEF TypeOK
<1>5. TypeOK'
  BY <1>1, <1>2, <1>3, <1>4, ConstantsAssumption DEF TypeOK
<1>6. Window' /\ Intact'
  BY <1>1, <1>3, <1>4, ConstantsAssumption DEF TypeOK, Window, Intact, SlotOf, NoClaim
<1>7. DeliveredUpTo' /\ StrandedOnlyAtWrap' /\ ClaimCovers'
  BY <1>1, <1>3, <1>4
  DEF TypeOK, DeliveredUpTo, StrandedOnlyAtWrap, ClaimCovers
<1> QED BY <1>5, <1>6, <1>7 DEF RingInv

(* Finishing the claim preserves the invariant.                            *)
LEMMA HandlerEndKeepsRing ==
  ASSUME RingInv, hdlc_rx_handler_end
  PROVE  RingInv'
<1> DEFINE n == claim.n
<1>1. TypeOK /\ Window /\ Intact /\ DeliveredUpTo /\ ClaimCovers
  BY DEF RingInv
<1>2. /\ claim.on /\ claim.i = n
      /\ get' = get + n
      /\ get_base' = NextBase(get + n, get_base)
      /\ claim' = NoClaim
      /\ UNCHANGED <<buf, put, put_base, head, queued, delivered, last, fifo, arrived,
                     failed, sound>>
  BY DEF hdlc_rx_handler_end, ring_buf_get_finish, counts, history
<1>3. n \in 0..Size
  BY <1>1 DEF TypeOK
<1>4. claim'.on = FALSE /\ claim'.n = 0 /\ claim'.i = 0
  BY <1>2 DEF NoClaim
<1>5. TypeOK'
  BY <1>1, <1>2, <1>3, ConstantsAssumption DEF TypeOK, NextBase, NoClaim
<1>6. Window'
  BY <1>1, <1>2, <1>3, <1>4, ConstantsAssumption DEF TypeOK, Window, NextBase
<1>7. Intact'
  <2>0. (~failed => sound = put /\ head = put) /\ sound <= put
    BY <1>1 DEF Intact
  <2> SUFFICES ASSUME NEW k \in (get + n)..(put - 1), k < sound
               PROVE  buf[IF k < get_base' + Size
                          THEN k - get_base' ELSE k - get_base' - Size] = k
    BY <1>2, <2>0 DEF Intact, SlotOf
  <2>1. buf[SlotOf(k)] = k
    BY <1>1, <1>3 DEF Intact, SlotOf, TypeOK
  <2>2. SlotOf(k) = IF k < get_base' + Size
                    THEN k - get_base' ELSE k - get_base' - Size
    BY <1>1, <1>2, <1>3, ConstantsAssumption DEF TypeOK, Window, NextBase, SlotOf
  <2> QED BY <2>1, <2>2
<1>8. DeliveredUpTo' /\ StrandedOnlyAtWrap' /\ ClaimCovers'
  BY <1>1, <1>2, <1>3, <1>4, ConstantsAssumption
  DEF TypeOK, Window, DeliveredUpTo, StrandedOnlyAtWrap, ClaimCovers, NextBase
<1> QED BY <1>5, <1>6, <1>7, <1>8 DEF RingInv

-----------------------------------------------------------------------------
(* Every step of the receive path preserves the invariant.                 *)
LEMMA RingStep == RingInv /\ [Next]_vars => RingInv'
<1> SUFFICES ASSUME RingInv, [Next]_vars PROVE RingInv'
  OBVIOUS
<1>1. CASE ByteArrives
  BY <1>1, ConstantsAssumption
  DEF ByteArrives, counts, history, RingInv, TypeOK, Window, Intact, SlotOf, DeliveredUpTo,
      StrandedOnlyAtWrap, ClaimCovers
<1>2. CASE serial_callback
  BY <1>2, InterruptKeepsRing
<1>3. CASE hdlc_rx_handler
  BY <1>3, HandlerKeepsRing
<1>4. CASE hdlc_process_buffer
  BY <1>4, ByteKeepsRing
<1>5. CASE hdlc_rx_handler_end
  BY <1>5, HandlerEndKeepsRing
<1>6. CASE serial_callback_failed
  BY <1>6, FailureKeepsRing
<1>7. CASE UNCHANGED vars
  BY <1>7
  DEF vars, counts, history, RingInv, TypeOK, Window, Intact, SlotOf, DeliveredUpTo,
      StrandedOnlyAtWrap, ClaimCovers
<1> QED BY <1>1, <1>2, <1>3, <1>4, <1>5, <1>6, <1>7 DEF Next

(* For every size of the ring, no interrupt overwrites a byte that waits   *)
(* or that the handler is reading, no claim leaves the storage, and bytes  *)
(* are left without work queued only at the start of a lap: RingInv holds  *)
(* in every state of hdlc.c's ring, whatever reads fail.                   *)
THEOREM RingCorrect == Spec => []RingInv
<1>1. Init => RingInv
  BY InitRing
<1>2. RingInv /\ [Next]_vars => RingInv'
  BY RingStep
<1> QED BY <1>1, <1>2, PTL DEF Spec

-----------------------------------------------------------------------------
(* As far as the bytes are sound the last one delivered has its number.    *)
StreamInv == RingInv /\ (delivered <= sound => last = delivered - 1)

(* What the stream says of the ring: the bytes that are sound are bounded, *)
(* and until a read fails those are all.                                   *)
LEMMA SoundBytes ==
  ASSUME StreamInv
  PROVE  /\ delivered \in Nat /\ sound \in Nat /\ put \in Nat /\ get \in Nat /\ last \in Int
         /\ get <= delivered /\ delivered <= put
         /\ ~failed => sound = put /\ head = put
         /\ delivered <= sound => last = delivered - 1
  BY DEF StreamInv, RingInv, TypeOK, Window, Intact, DeliveredUpTo

(* A step of the receive path is a step of the stream or leaves it alone.  *)
LEMMA StreamStep ==
  ASSUME StreamInv, [Next]_vars
  PROVE  StreamInv' /\ [Stream!Next]_Stream!vars
<1>r. RingInv'
  BY RingStep DEF StreamInv
<1>t. RingInv /\ TypeOK /\ Window
  BY DEF StreamInv, RingInv
<1>1. ASSUME UNCHANGED <<delivered, last, sound>>
      PROVE  StreamInv' /\ [Stream!Next]_Stream!vars
  BY <1>1, <1>r DEF StreamInv, Stream!vars
<1>2. CASE serial_callback
  <2> DEFINE n == SmallerOf(fifo, hdlc_rx_start)
  <2>1. n \in Nat /\ head + n <= get + Size
    <3>1. hdlc_rx_start > 0
      BY <1>2 DEF serial_callback
    <3> QED BY <1>t, <3>1, PutClaim, ConstantsAssumption DEF TypeOK
  <2>2. sound' = (IF failed THEN sound ELSE put + n) /\ UNCHANGED <<delivered, last>>
    BY <1>2 DEF serial_callback
  <2> HIDE DEF n
  <2>3. CASE failed \/ n = 0
    BY <1>1, <2>2, <2>3, SoundBytes
  <2>4. CASE ~failed /\ n >= 1
    <3>1. sound' \in (sound + 1)..(delivered + Size) /\ delivered <= sound
      BY <2>1, <2>2, <2>4, SoundBytes, ConstantsAssumption
    <3>2. sound' \in Nat /\ delivered <= sound'
      BY <3>1, SoundBytes, ConstantsAssumption
    <3>3. StreamInv'
      BY <1>r, <2>2, <3>1, SoundBytes DEF StreamInv
    <3>4. SmallerOf(delivered, sound) = delivered /\ SmallerOf(delivered', sound') = delivered
      BY <2>2, <3>1, <3>2, SoundBytes DEF SmallerOf
    <3>5. Stream!Accept
      BY <2>2, <3>1, <3>2, <3>4 DEF Stream!Accept
    <3> QED BY <3>3, <3>5 DEF Stream!Next
  <2> QED BY <2>1, <2>3, <2>4
<1>3. CASE hdlc_process_buffer
  <2>1. delivered' = delivered + 1 /\ UNCHANGED sound
    BY <1>3 DEF hdlc_process_buffer, history
  <2>2. CASE delivered < sound
    <3>1. last' = delivered
      BY <1>3, <1>t, <2>2, NextByte DEF hdlc_process_buffer
    <3>2. StreamInv'
      BY <1>r, <2>1, <3>1, SoundBytes DEF StreamInv
    <3>3. Stream!Deliver
      BY <2>1, <2>2, <3>1, SoundBytes DEF Stream!Deliver, SmallerOf
    <3> QED BY <3>2, <3>3 DEF Stream!Next
  <2>3. CASE ~(delivered < sound)
    <3>1. StreamInv'
      BY <1>r, <2>1, <2>3, SoundBytes DEF StreamInv
    <3>2. UNCHANGED Stream!vars
      BY <2>1, <2>3, SoundBytes DEF Stream!vars, SmallerOf
    <3> QED BY <3>1, <3>2
  <2> QED BY <2>2, <2>3
<1> QED
  BY <1>1, <1>2, <1>3
  DEF Next, vars, history, ByteArrives, serial_callback_failed, hdlc_rx_handler,
      hdlc_rx_handler_end

(* For every size of the ring, every byte that serial_callback accepts     *)
(* before a read of the UART fails reaches the decoder once and in order,  *)
(* and no more wait than the ring holds: the receive path implements       *)
(* ByteStream.                                                             *)
THEOREM StreamCorrect == Spec => StreamSpec
<1>1. Init => StreamInv /\ Stream!Init
  BY InitRing DEF Init, StreamInv, Stream!Init, SmallerOf
<1>2. StreamInv /\ [Next]_vars => StreamInv' /\ [Stream!Next]_Stream!vars
  BY StreamStep
<1> QED BY <1>1, <1>2, PTL DEF Spec, StreamSpec, Stream!Spec

=============================================================================
