------------------------------ MODULE HdlcFrame ------------------------------
(***************************************************************************)
(* HDLC framing on a line that loses bytes and that several threads share: *)
(* hdlc_block_send_sync frames, escapes and checks a block byte by byte,   *)
(* hdlc_rx_input_byte undoes it.                                           *)
(*                                                                         *)
(* The firmware sends from its work queue, from rx, from discovery and     *)
(* from the log backend.  Nothing keeps a thread from starting a frame in  *)
(* the middle of that of a thread it preempts.  The host frames its blocks *)
(* the same way and its decoder is taken to be this one, so that a line is *)
(* the set of its senders: {"host"} towards the firmware, the threads      *)
(* towards the host.  The bytes that are lost are those the UART overran.  *)
(*                                                                         *)
(* A byte is its value, in hexadecimal, of those that the properties tell  *)
(* apart.  crc16_ccitt is taken to be free of collisions: the running CRC  *)
(* is the sequence of the bytes it covers, and each of the two check bytes *)
(* names the bytes it was computed from.  Its value is 7E or 7D for some   *)
(* blocks: then it is escaped like any other byte.  rx_send_seq and        *)
(* send_seq are never read for a decision and are left out.                *)
(***************************************************************************)
EXTENDS Integers, Sequences

CONSTANTS
  Lines,       \* the lines that a behaviour may be about: sets of senders
  Payload,     \* bytes that payloads are made of
  MaxPayload,  \* longest payload
  MaxBlock,    \* HDLC_MAX_BLOCK_SIZE
  Escapes,     \* which of the two check bytes, "lo" and "hi", may need an escape
  LongMessages, \* whether nodes send messages that exceed HDLC_MAX_BLOCK_SIZE
  MaxFrames,   \* bound: frames sent
  MaxLost      \* bound: bytes lost on the line

HDLC_FRAME == "7E"
HDLC_ESC   == "7D"

(* The bytes, each with its value XOR 0x20.                                *)
XorPairs == {<<"7E", "5E">>, <<"7D", "5D">>, <<"01", "21">>, <<"02", "22">>,
             <<"03", "23">>, <<"10", "30">>, <<"lo", "lo^20">>, <<"hi", "hi^20">>}
Values == {p[1] : p \in XorPairs} \cup {p[2] : p \in XorPairs}

Xor20(v) == CHOOSE w \in Values : <<v, w>> \in XorPairs \/ <<w, v>> \in XorPairs

ADDRESS_GREYBUS == "01"
ADDRESS_DBG     == "02"

(* The threads that send, with their priorities (a lower number runs first *)
(* and preempts); the log thread has the lowest that applications have.    *)
Priority == [host |-> 0, wq |-> 5, rx |-> 6, disc |-> 6, log |-> 14]

ASSUME ConstantsAssumption ==
  /\ \A l \in Lines : l = {"host"} \/ l \subseteq DOMAIN Priority \ {"host"}
  /\ Payload \subseteq Values \ {"lo", "hi", "lo^20", "hi^20"}
  /\ MaxPayload \in Nat
  /\ MaxBlock \in Nat \ {0}
  /\ Escapes \subseteq SUBSET {"lo", "hi"}
  /\ LongMessages \in BOOLEAN
  /\ MaxFrames \in Nat
  /\ MaxLost \in Nat

(* A byte on the line; of is empty unless it is a check byte.              *)
Byte(v) == [v |-> v, of |-> <<>>]

Payloads == UNION {[1..n -> Payload] : n \in 0..MaxPayload}

(* A block: address, control byte and payload.  The control byte is that   *)
(* of an unnumbered (0x03) or, from the host, an information frame (0x10). *)
Blocks == {<<a, c>> \o p : a \in {ADDRESS_GREYBUS, ADDRESS_DBG}, c \in {"03", "10"},
                           p \in Payloads}

(* Bit 0 of the control byte.                                              *)
IsUnnumbered(v) == v \notin {"10", "30", "7E", "5E", "02", "22"}

VARIABLES
  line,   \* who sends on the line
  sent,   \* the blocks sent, each with what the line and the scheduler did to it
  tx,     \* for each sender its send: which block, index of the byte, escape sent
  wire,   \* history: the last byte on the line and the last that is no delimiter
  drv,    \* hdlc_driver, with a flag that this block overflowed
  got,    \* blocks given to process_callback_frame_cb, with the number of the send
  lost,   \* bytes lost so far
  overrun \* the buffer of gb_message_hdlc_send has been overrun

vars == <<line, sent, tx, wire, drv, got, lost, overrun>>

Idle  == [on |-> FALSE, n |-> 0, i |-> 0, esc |-> FALSE]
Fresh == [crc |-> <<>>, next_escaped |-> FALSE, rx_buffer |-> <<>>, over |-> FALSE]

(* Of the last byte on the line the send that put it there and whether it  *)
(* is a delimiter; of the last one that is not, the send and whether it is *)
(* an escape.                                                              *)
Quiet == [last |-> 0, delim |-> TRUE, data |-> 0, esc |-> FALSE]

Init ==
  /\ line \in Lines
  /\ sent = <<>>
  /\ tx = [t \in line |-> Idle]
  /\ wire = Quiet
  /\ drv = Fresh
  /\ got = {}
  /\ lost = 0
  /\ overrun = FALSE

-----------------------------------------------------------------------------
(* The senders.                                                            *)

(* What goes through uart_poll_out_crc: the block and its two check bytes. *)
Coded(b) ==
  [j \in 1..Len(b) |-> Byte(b[j])] \o <<[v |-> "lo", of |-> b], [v |-> "hi", of |-> b]>>

(* special holds the check bytes of the block that are 7E or 7D.           *)
NeedsEscape(v, special) == v \in {HDLC_FRAME, HDLC_ESC} \cup special

(* t has the CPU: no thread of a higher priority is sending.  Threads of   *)
(* the same priority may take turns (time slicing).                        *)
MayRun(t) == \A u \in line : tx[u].on => Priority[t] <= Priority[u]

(* The call.  kept: no byte was lost; cut: a byte of another frame stands  *)
(* between its first byte and its last; begin: the line as its first byte  *)
(* found it.                                                               *)
hdlc_block_send_sync(t, b) ==
  /\ ~overrun
  /\ t \in line
  /\ ~tx[t].on
  /\ MayRun(t)
  /\ Len(sent) < MaxFrames
  /\ \E special \in Escapes :
       sent' = Append(sent, [block |-> b, special |-> special,
                             kept |-> TRUE, cut |-> FALSE, begin |-> Quiet])
  /\ tx' = [tx EXCEPT ![t] = [Idle EXCEPT !.on = TRUE, !.n = Len(sent) + 1]]
  /\ UNCHANGED <<line, wire, drv, got, lost, overrun>>

(* A Greybus message of a thread.                                          *)
gb_message_hdlc_send(p) ==
  \E t \in {"wq", "rx", "disc"} : hdlc_block_send_sync(t, <<ADDRESS_GREYBUS, "03">> \o p)

(* It is copied into a buffer of HDLC_MAX_BLOCK_SIZE on the stack first.   *)
(* One that rx has from a node may be longer, and the copy does not ask.   *)
(* Nothing is said of what follows.                                        *)
gb_message_hdlc_send_long ==
  /\ ~overrun
  /\ LongMessages
  /\ "rx" \in line
  /\ ~tx["rx"].on
  /\ MayRun("rx")
  /\ overrun' = TRUE
  /\ UNCHANGED <<line, sent, tx, wire, drv, got, lost>>

(* The text of the log backend, and a block of the host.                   *)
hdlc_uart_out(p) == hdlc_block_send_sync("log", <<ADDRESS_DBG, "03">> \o p)

host_send(p) ==
  \E c \in {"03", "10"} : hdlc_block_send_sync("host", <<ADDRESS_GREYBUS, c>> \o p)

Current(t) == Coded(sent[tx[t].n].block)

(* The byte that send_frame_cb is called with next.                        *)
WireByte(t) ==
  IF tx[t].i \notin DOMAIN Current(t) THEN Byte(HDLC_FRAME)
  ELSE LET b == Current(t)[tx[t].i] IN
       IF ~NeedsEscape(b.v, sent[tx[t].n].special) THEN b
       ELSE IF tx[t].esc THEN [b EXCEPT !.v = Xor20(b.v)] ELSE Byte(HDLC_ESC)

Advance(t) ==
  tx' = [tx EXCEPT ![t] =
           IF @.i > Len(Current(t)) THEN Idle
           ELSE IF WireByte(t).v = HDLC_ESC THEN [@ EXCEPT !.esc = TRUE]
           ELSE [on |-> TRUE, n |-> @.n, i |-> @.i + 1, esc |-> FALSE]]

(* The next byte is the first behind the delimiter, or a later one.        *)
Begins(t) == tx[t].i = 1 /\ ~tx[t].esc
Begun(t)  == tx[t].i > 1 \/ tx[t].esc

(* History: t sends a byte, which is kept or not.                          *)
Record(t, kept) ==
  [m \in DOMAIN sent |->
     IF m = tx[t].n
     THEN [sent[m] EXCEPT !.kept = @ /\ kept, !.begin = IF Begins(t) THEN wire ELSE @]
     ELSE [sent[m] EXCEPT !.cut = @ \/ \E u \in line : tx[u].on /\ tx[u].n = m /\ Begun(u)]]

OnWire(t) ==
  LET n == tx[t].n
      v == WireByte(t).v
  IN IF v = HDLC_FRAME THEN [wire EXCEPT !.last = n, !.delim = TRUE]
     ELSE [last |-> n, delim |-> FALSE, data |-> n, esc |-> v = HDLC_ESC]

-----------------------------------------------------------------------------
(* The decoder.  Each operator returns the driver after the call.          *)

(* The residue 0xf0b8: the last two bytes check those before them.         *)
GoodCrc(crc) ==
  LET n     == Len(crc) - 2
      names == [j \in 1..n |-> crc[j].v]
  IN /\ n >= 0
     /\ crc[n + 1] = [v |-> "lo", of |-> names]
     /\ crc[n + 2] = [v |-> "hi", of |-> names]

(* A faulty test that accepts any block of sufficient length.              *)
frame_any_crc(d) == Len(d.rx_buffer) > 3 /\ IsUnnumbered(d.rx_buffer[2].v)

(* Whether hdlc_process_frame calls hdlc_process_complete_frame.           *)
hdlc_process_frame(d) ==
  /\ Len(d.rx_buffer) > 3
  /\ GoodCrc(d.crc)
  /\ IsUnnumbered(d.rx_buffer[2].v)

(* A faulty buffer without a limit.                                        *)
hdlc_save_byte_unbounded(d, b) == [d EXCEPT !.rx_buffer = Append(@, b)]

(* A full buffer is restarted, and so is the CRC, which covers b already.  *)
hdlc_save_byte(d, b) ==
  IF Len(d.rx_buffer) >= MaxBlock
  THEN [d EXCEPT !.crc = <<>>, !.rx_buffer = <<b>>, !.over = TRUE]
  ELSE [d EXCEPT !.rx_buffer = Append(@, b)]

(* A faulty end of a frame that leaves the CRC as it is.                   *)
end_of_frame_keeps_crc(d) == [d EXCEPT !.rx_buffer = <<>>, !.over = FALSE]

(* The end of hdlc_process_frame.  next_escaped is left alone.             *)
end_of_frame(d) == [d EXCEPT !.crc = <<>>, !.rx_buffer = <<>>, !.over = FALSE]

hdlc_rx_input_byte(b) ==
  LET c == IF drv.next_escaped THEN [b EXCEPT !.v = Xor20(b.v)] ELSE b IN
  \/ /\ b.v = HDLC_FRAME
     /\ drv' = IF drv.rx_buffer # <<>> THEN end_of_frame(drv) ELSE drv
     /\ got' = IF drv.rx_buffer # <<>> /\ hdlc_process_frame(drv)
               THEN got \cup {[n |-> wire.last, block |-> drv.rx_buffer, over |-> drv.over]}
               ELSE got
  \/ /\ b.v = HDLC_ESC
     /\ drv' = [drv EXCEPT !.next_escaped = TRUE]
     /\ UNCHANGED got
  \/ /\ b.v \notin {HDLC_FRAME, HDLC_ESC}
     /\ drv' = hdlc_save_byte([drv EXCEPT !.next_escaped = FALSE,
                                          !.crc = Append(@, c)], c)
     /\ UNCHANGED got

-----------------------------------------------------------------------------
(* The line: hdlc_send_callback puts a byte of a thread on it, and the     *)
(* byte arrives or is lost.                                                *)
hdlc_send_callback(t, kept) ==
  /\ ~overrun
  /\ tx[t].on
  /\ MayRun(t)
  /\ sent' = Record(t, kept)
  /\ wire' = OnWire(t)
  /\ Advance(t)
  /\ UNCHANGED <<line, overrun>>

ByteArrives(t) ==
  /\ hdlc_send_callback(t, TRUE)
  /\ hdlc_rx_input_byte(WireByte(t))
  /\ UNCHANGED lost

ByteLost(t) ==
  /\ lost < MaxLost
  /\ lost' = lost + 1
  /\ hdlc_send_callback(t, FALSE)
  /\ UNCHANGED <<drv, got>>

Next ==
  \/ \E p \in Payloads : gb_message_hdlc_send(p) \/ hdlc_uart_out(p) \/ host_send(p)
  \/ gb_message_hdlc_send_long
  \/ \E t \in line : ByteArrives(t) \/ ByteLost(t)

Spec == Init /\ [][Next]_vars

-----------------------------------------------------------------------------
Bytes == [v : Values, of : Blocks \cup {<<>>}]

Marks == [last : Nat, delim : BOOLEAN, data : Nat, esc : BOOLEAN]

(* Type correctness; the block never outgrows rx_buffer.                   *)
TypeOK ==
  /\ line \in Lines
  /\ sent \in Seq([block : Blocks, special : SUBSET {"lo", "hi"},
                   kept : BOOLEAN, cut : BOOLEAN, begin : Marks])
  /\ tx \in [line -> [on : BOOLEAN, n : Nat, i : Nat, esc : BOOLEAN]]
  /\ wire \in Marks
  /\ drv \in [crc : Seq(Bytes), next_escaped : BOOLEAN, rx_buffer : Seq(Bytes),
              over : BOOLEAN]
  /\ Len(drv.rx_buffer) <= MaxBlock
  /\ got \subseteq [n : Nat, block : Seq(Bytes), over : BOOLEAN]
  /\ lost \in 0..MaxLost
  /\ overrun \in BOOLEAN

Finished(n) == n \in DOMAIN sent /\ \A t \in line : tx[t].on => tx[t].n # n

(* No byte of this send was lost, if it is one.                            *)
Unharmed(m) == m = 0 \/ sent[m].kept

(* Preemption nests: no two senders of the line have the same priority.    *)
Nested == \A t, u \in line : Priority[t] = Priority[u] => t = u

(* Damage is contained.  A frame of which every byte arrives and that no   *)
(* other frame cuts is delivered as it was sent, unless it begins between  *)
(* an escape and its byte, or the send of the last byte before it or of    *)
(* the last one that is no delimiter lost a byte (hdlc_rx_input_byte keeps *)
(* next_escaped across HDLC_FRAME).  That it begins behind a delimiter     *)
(* needs no mention unless threads take turns.                             *)
DamageContained ==
  \A n \in DOMAIN sent :
    LET s == sent[n] IN
    /\ Finished(n)
    /\ s.kept /\ ~s.cut
    /\ Nested \/ s.begin.delim
    /\ ~s.begin.esc /\ Unharmed(s.begin.last) /\ Unharmed(s.begin.data)
    /\ IsUnnumbered(s.block[2])
    /\ Len(Coded(s.block)) <= MaxBlock
    => [n |-> n, block |-> Coded(s.block), over |-> FALSE] \in got

(* The blocks that were sent, as rx_buffer would hold them.                *)
SentCoded == {Coded(sent[n].block) : n \in DOMAIN sent}

(* What is given to process_callback_frame_cb is a block that was sent,    *)
(* whatever the line lost and whoever preempted whom, unless rx_buffer     *)
(* overflowed meanwhile.                                                   *)
SentUnlessOverflow == \A g \in got : ~g.over => g.block \in SentCoded

(* A message is sent whatever its size: "Send a greybus message over HDLC" *)
(* (hdlc.h), with what rx accepts from a node, and it stays within its     *)
(* buffer.                                                                 *)
StaysInBuffer == ~overrun

=============================================================================
