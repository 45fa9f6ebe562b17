-------------------------- MODULE HdlcFrame_proofs --------------------------
(***************************************************************************)
(* Proofs about framing, for every set of senders, every set of payloads,  *)
(* every size of rx_buffer and every number of frames and lost bytes: the  *)
(* decoder stays within rx_buffer, what it accepts was sent, and a frame   *)
(* that neither the line nor the scheduler harmed is delivered.            *)
(***************************************************************************)
EXTENDS HdlcFrame, SequenceTheorems, TLAPS

(* The values that only check bytes have, escaped or not.                  *)
CheckValues == {"lo", "hi", "lo^20", "hi^20"}

(* The values of bytes, written out.                                       *)
LEMMA ValuesAre ==
  Values = {"7E", "5E", "7D", "5D", "01", "21", "02", "22", "03", "23", "10", "30"}
           \cup CheckValues
<1>1. \A v : v \in Values <=> \E p \in XorPairs : v = p[1] \/ v = p[2]
  BY DEF Values
<1> QED BY <1>1 DEF XorPairs, CheckValues

(* Escaping a value gives a value, and a check byte a check byte.          *)
LEMMA Xor20Type ==
  ASSUME NEW v \in Values
  PROVE  /\ Xor20(v) \in Values
         /\ v \in CheckValues => Xor20(v) \in CheckValues
<1> DEFINE Pair(w) == <<v, w>> \in XorPairs \/ <<w, v>> \in XorPairs
<1>1. \E w \in Values : Pair(w)
  BY ValuesAre DEF XorPairs, CheckValues
<1>2. Xor20(v) \in Values /\ Pair(Xor20(v))
  BY <1>1 DEF Xor20
<1>3. ASSUME v \in CheckValues, NEW w, Pair(w)
      PROVE  w \in CheckValues
  BY <1>3 DEF XorPairs, CheckValues
<1> HIDE DEF Pair
<1> QED BY <1>2, <1>3

(* A block has an address and a control byte, and no value of its own that *)
(* a check byte could have.                                                *)
LEMMA BlockType ==
  ASSUME NEW b \in Blocks
  PROVE  /\ b \in Seq(Values \ CheckValues)
         /\ Len(b) >= 2
         /\ b # <<>>
<1> DEFINE Join(a, c, p) == <<a, c>> \o p
           Addresses == {ADDRESS_GREYBUS, ADDRESS_DBG}
           Controls  == {"03", "10"}
<1>0. Blocks = {Join(a, c, p) : a \in Addresses, c \in Controls, p \in Payloads}
  BY DEF Blocks
<1> HIDE DEF Join, Addresses, Controls
<1>1. PICK a \in Addresses, c \in Controls, p \in Payloads : b = Join(a, c, p)
  BY <1>0
<1> USE DEF Join, Addresses, Controls
<1>2. PICK n \in 0..MaxPayload : p \in [1..n -> Payload]
  BY DEF Payloads
<1>3. Payload \subseteq Values \ CheckValues
  BY ConstantsAssumption DEF CheckValues
<1>4. p \in Seq(Values \ CheckValues)
  BY <1>2, <1>3, ConstantsAssumption
<1>5. <<a, c>> \in Seq(Values \ CheckValues)
  BY ValuesAre DEF CheckValues, ADDRESS_GREYBUS, ADDRESS_DBG
<1> QED BY <1>1, <1>4, <1>5

(* What goes on the wire for a block: its bytes, then the two check bytes. *)
LEMMA CodedType ==
  ASSUME NEW b \in Blocks
  PROVE  /\ Coded(b) \in Seq(Bytes)
         /\ Len(Coded(b)) = Len(b) + 2
         /\ \A j \in 1..Len(b) : Coded(b)[j] = Byte(b[j])
         /\ Coded(b)[Len(b) + 1] = [v |-> "lo", of |-> b]
         /\ Coded(b)[Len(b) + 2] = [v |-> "hi", of |-> b]
<1>1. b \in Seq(Values) /\ Len(b) \in Nat
  BY BlockType
<1>2. \A j \in 1..Len(b) : Byte(b[j]) \in Bytes
  BY <1>1 DEF Byte, Bytes
<1>3. PICK s \in Seq(Bytes) : s = [j \in 1..Len(b) |-> Byte(b[j])] /\ Len(s) = Len(b)
  <2>1. /\ [j \in 1..Len(b) |-> Byte(b[j])] \in Seq(Bytes)
        /\ Len([j \in 1..Len(b) |-> Byte(b[j])]) = Len(b)
    BY <1>1, <1>2
  <2> QED BY <2>1, Zenon
<1>4. PICK t \in Seq(Bytes) : /\ t = <<[v |-> "lo", of |-> b], [v |-> "hi", of |-> b]>>
                             /\ Len(t) = 2
  <2>1. /\ <<[v |-> "lo", of |-> b], [v |-> "hi", of |-> b]>> \in Seq(Bytes)
        /\ Len(<<[v |-> "lo", of |-> b], [v |-> "hi", of |-> b]>>) = 2
    BY ValuesAre DEF CheckValues, Bytes
  <2> QED BY <2>1, Zenon
<1>5. Coded(b) = s \o t
  BY <1>3, <1>4 DEF Coded
<1>6. /\ s \o t \in Seq(Bytes)
      /\ Len(s \o t) = Len(b) + 2
      /\ \A i \in 1..(Len(b) + 2) : (s \o t)[i] = IF i <= Len(b) THEN s[i] ELSE t[i - Len(b)]
  <2>1. /\ s \o t \in Seq(Bytes)
        /\ Len(s \o t) = Len(s) + Len(t)
        /\ \A i \in 1..(Len(s) + Len(t)) : (s \o t)[i] = IF i <= Len(s) THEN s[i] ELSE t[i - Len(s)]
    BY ConcatProperties, Zenon
  <2>2. Len(s) + Len(t) = Len(b) + 2
    BY <1>3, <1>4
  <2> QED BY <1>3, <2>1, <2>2, Zenon
<1>7. \A j \in 1..Len(b) : s[j] = Byte(b[j])
  BY <1>1, <1>3
<1>8. t[1] = [v |-> "lo", of |-> b] /\ t[2] = [v |-> "hi", of |-> b]
  BY <1>4
<1>9. (s \o t)[Len(b) + 1] = t[1] /\ (s \o t)[Len(b) + 2] = t[2]
  <2>1. /\ Len(b) + 1 \in 1..(Len(b) + 2) /\ ~(Len(b) + 1 <= Len(b))
        /\ (Len(b) + 1) - Len(b) = 1
    BY <1>1
  <2>2. /\ Len(b) + 2 \in 1..(Len(b) + 2) /\ ~(Len(b) + 2 <= Len(b))
        /\ (Len(b) + 2) - Len(b) = 2
    BY <1>1
  <2> QED BY <1>6, <2>1, <2>2
<1> QED BY <1>1, <1>5, <1>6, <1>7, <1>8, <1>9

-----------------------------------------------------------------------------
(* The invariant.                                                          *)

SentBlocks == {sent[n].block : n \in DOMAIN sent}

(* A byte that claims to check something has a value of its own and checks *)
(* a block that was sent.                                                  *)
Genuine(b) == b.of # <<>> => b.v \in CheckValues /\ b.of \in SentBlocks

(* A thread that sends is sending one of the blocks sent.                  *)
Sending == \A t \in line : tx[t].on => tx[t].n \in 1..Len(sent)

(* The decoder has only seen genuine bytes, and it saves what its CRC      *)
(* covers until rx_buffer overflows.                                       *)
DecoderInStep ==
  /\ \A j \in 1..Len(drv.crc) : Genuine(drv.crc[j])
  /\ ~drv.over => drv.rx_buffer = drv.crc

FrameInv ==
  /\ TypeOK
  /\ Sending
  /\ DecoderInStep
  /\ SentUnlessOverflow

(* The invariant holds at power-up.                                        *)
LEMMA FrameInit == Init => FrameInv
<1> SUFFICES ASSUME Init PROVE FrameInv
  OBVIOUS
<1>1. TypeOK
  <2>1. overrun \in BOOLEAN
    BY Zenon DEF Init
  <2>2. /\ line \in Lines /\ sent = <<>> /\ tx = [t \in line |-> Idle] /\ wire = Quiet
        /\ drv = Fresh /\ got = {} /\ lost = 0
    BY DEF Init
  <2> QED BY <2>1, <2>2, ConstantsAssumption DEF TypeOK, Idle, Fresh, Quiet, Marks
<1>2. Sending
  BY DEF Init, Sending, Idle
<1>3. DecoderInStep
  BY DEF Init, DecoderInStep, Fresh
<1>4. SentUnlessOverflow
  BY DEF Init, SentUnlessOverflow
<1> QED BY <1>1, <1>2, <1>3, <1>4 DEF FrameInv

(* The history of a send.                                                  *)
Sends == [block : Blocks, special : SUBSET {"lo", "hi"},
          kept : BOOLEAN, cut : BOOLEAN, begin : Marks]

(* The history of what was sent, element by element.                       *)
LEMMA SentType ==
  ASSUME TypeOK
  PROVE  /\ sent \in Seq(Sends)
         /\ Len(sent) \in Nat
         /\ DOMAIN sent = 1..Len(sent)
         /\ \A n \in 1..Len(sent) : sent[n] \in Sends
<1>1. sent \in Seq(Sends)
  BY DEF TypeOK, Sends
<1> QED BY <1>1, LenProperties, ElementOfSeq, Zenon

(* The check bytes of its block that a sender escapes.                     *)
Special(t) == sent[tx[t].n].special

(* The byte that a thread puts on the line is genuine.                     *)
LEMMA WireByteType ==
  ASSUME TypeOK, Sending, NEW t \in line, tx[t].on
  PROVE  WireByte(t) \in Bytes /\ Genuine(WireByte(t))
<1> DEFINE b == sent[tx[t].n].block
<1>0. tx[t].n \in DOMAIN sent /\ sent[tx[t].n].block \in Blocks
  <2>1. tx[t].n \in 1..Len(sent)
    BY DEF Sending
  <2> QED BY <2>1, SentType DEF Sends
<1>1. b \in Blocks /\ b \in SentBlocks
  BY <1>0 DEF SentBlocks
<1>2. \A v \in Values : Byte(v) \in Bytes /\ Genuine(Byte(v))
  BY DEF Byte, Bytes, Genuine
<1>3. "7E" \in Values /\ "7D" \in Values
  BY ValuesAre
<1>4. Current(t) = Coded(b)
  BY DEF Current
<1> HIDE DEF b
<1>5. \A j \in DOMAIN Coded(b) : Coded(b)[j] \in Bytes /\ Genuine(Coded(b)[j])
  <2>1. /\ Coded(b) \in Seq(Bytes)
        /\ Len(Coded(b)) = Len(b) + 2
        /\ \A j \in 1..Len(b) : Coded(b)[j] = Byte(b[j])
        /\ Coded(b)[Len(b) + 1] = [v |-> "lo", of |-> b]
        /\ Coded(b)[Len(b) + 2] = [v |-> "hi", of |-> b]
    BY <1>1, CodedType
  <2>2. b \in Seq(Values) /\ Len(b) \in Nat
    BY <1>1, BlockType
  <2>3. \A j \in DOMAIN Coded(b) :
          j \in 1..Len(b) \/ j = Len(b) + 1 \/ j = Len(b) + 2
    BY <2>1, <2>2
  <2>4. Genuine([v |-> "lo", of |-> b]) /\ Genuine([v |-> "hi", of |-> b])
    BY <1>1 DEF Genuine, CheckValues
  <2>5. \A j \in 1..Len(b) : b[j] \in Values
    BY <2>2
  <2>6. \A j \in DOMAIN Coded(b) : Coded(b)[j] \in Bytes
    BY <2>1
  <2> QED BY <1>2, <2>1, <2>3, <2>4, <2>5, <2>6
<1>6. CASE tx[t].i \notin DOMAIN Current(t)
  BY <1>2, <1>3, <1>6 DEF WireByte, HDLC_FRAME
<1>7. CASE tx[t].i \in DOMAIN Current(t)
  <2> DEFINE c == Coded(b)[tx[t].i]
  <2>1. c \in Bytes /\ Genuine(c)
    BY <1>4, <1>5, <1>7
  <2>2. WireByte(t) = IF ~NeedsEscape(c.v, Special(t)) THEN c
                      ELSE IF tx[t].esc THEN [c EXCEPT !.v = Xor20(c.v)] ELSE Byte(HDLC_ESC)
    BY <1>4, <1>7 DEF WireByte, Special
  <2> HIDE DEF c
  <2>3. [c EXCEPT !.v = Xor20(c.v)] \in Bytes /\ Genuine([c EXCEPT !.v = Xor20(c.v)])
    <3>1. c.v \in Values
      BY <2>1 DEF Bytes
    <3>2. Xor20(c.v) \in Values /\ (c.v \in CheckValues => Xor20(c.v) \in CheckValues)
      BY <3>1, Xor20Type
    <3> QED BY <2>1, <3>2 DEF Bytes, Genuine
  <2> QED BY <1>2, <1>3, <2>1, <2>2, <2>3 DEF HDLC_ESC
<1> QED BY <1>6, <1>7

(* What is recorded of a send.                                             *)
LEMMA RecordIs ==
  ASSUME TypeOK, NEW t \in line, NEW kept \in BOOLEAN, NEW r, r = Record(t, kept)
  PROVE  /\ r \in Seq(Sends) /\ Len(r) = Len(sent) /\ DOMAIN r = 1..Len(sent)
         /\ \A m \in 1..Len(sent) :
              /\ r[m].block = sent[m].block /\ r[m].special = sent[m].special
              /\ m = tx[t].n => /\ r[m].kept <=> sent[m].kept /\ kept
                                /\ r[m].cut <=> sent[m].cut
                                /\ r[m].begin = IF Begins(t) THEN wire ELSE sent[m].begin
              /\ m # tx[t].n => /\ r[m].kept <=> sent[m].kept
                                /\ r[m].cut <=> \/ sent[m].cut
                                                \/ \E u \in line : tx[u].on /\ tx[u].n = m /\ Begun(u)
                                /\ r[m].begin = sent[m].begin
<1> DEFINE own(m)   == [sent[m] EXCEPT !.kept = @ /\ kept,
                                       !.begin = IF Begins(t) THEN wire ELSE @]
           other(m) == [sent[m] EXCEPT !.cut = @ \/ \E u \in line : tx[u].on /\ tx[u].n = m /\ Begun(u)]
           e(m)     == IF m = tx[t].n THEN own(m) ELSE other(m)
<1>1. r = [m \in DOMAIN sent |-> e(m)]
  BY DEF Record
<1>2. /\ Len(sent) \in Nat
      /\ DOMAIN sent = 1..Len(sent)
      /\ \A m \in 1..Len(sent) : sent[m] \in Sends
  BY SentType
<1>3. wire \in Marks
  BY DEF TypeOK
<1>4. ASSUME NEW m \in 1..Len(sent)
      PROVE  /\ own(m) \in Sends /\ own(m).block = sent[m].block
             /\ own(m).special = sent[m].special
             /\ own(m).kept <=> sent[m].kept /\ kept
             /\ own(m).cut <=> sent[m].cut
             /\ own(m).begin = IF Begins(t) THEN wire ELSE sent[m].begin
  BY <1>2, <1>3, Zenon DEF Sends
<1>5. ASSUME NEW m \in 1..Len(sent)
      PROVE  /\ other(m) \in Sends /\ other(m).block = sent[m].block
             /\ other(m).special = sent[m].special
             /\ other(m).kept <=> sent[m].kept
             /\ other(m).cut <=> \/ sent[m].cut
                                 \/ \E u \in line : tx[u].on /\ tx[u].n = m /\ Begun(u)
             /\ other(m).begin = sent[m].begin
  BY <1>2, Zenon DEF Sends
<1> HIDE DEF own, other
<1>6. \A m \in 1..Len(sent) : e(m) \in Sends
  BY <1>4, <1>5
<1> HIDE DEF e
<1>7. r \in Seq(Sends) /\ Len(r) = Len(sent) /\ DOMAIN r = 1..Len(sent)
  BY <1>1, <1>2, <1>6
<1>8. \A m \in 1..Len(sent) : r[m] = IF m = tx[t].n THEN own(m) ELSE other(m)
  BY <1>1, <1>2, Zenon DEF e
<1>9. ASSUME NEW m \in 1..Len(sent)
      PROVE  /\ r[m].block = sent[m].block /\ r[m].special = sent[m].special
             /\ m = tx[t].n => /\ r[m].kept <=> sent[m].kept /\ kept
                               /\ r[m].cut <=> sent[m].cut
                               /\ r[m].begin = IF Begins(t) THEN wire ELSE sent[m].begin
             /\ m # tx[t].n => /\ r[m].kept <=> sent[m].kept
                               /\ r[m].cut <=> \/ sent[m].cut
                                               \/ \E u \in line : tx[u].on /\ tx[u].n = m /\ Begun(u)
                               /\ r[m].begin = sent[m].begin
  <2>1. CASE m = tx[t].n
    <3>1. r[m] = own(m)
      BY <1>8, <2>1, Zenon
    <3> QED BY <1>4, <2>1, <3>1, Zenon
  <2>2. CASE m # tx[t].n
    <3>1. r[m] = other(m)
      BY <1>8, <2>2, Zenon
    <3> QED BY <1>5, <2>2, <3>1, Zenon
  <2> QED BY <2>1, <2>2
<1> QED BY <1>7, <1>9, Zenon

(* What is recorded of the line.                                           *)
LEMMA OnWireIs ==
  ASSUME TypeOK, Sending, NEW t \in line, tx[t].on, NEW w, w = OnWire(t)
  PROVE  /\ w \in Marks /\ w.last = tx[t].n
         /\ WireByte(t).v = HDLC_FRAME =>
              w.delim /\ w.data = wire.data /\ (w.esc <=> wire.esc)
         /\ WireByte(t).v # HDLC_FRAME =>
              ~w.delim /\ w.data = tx[t].n /\ (w.esc <=> WireByte(t).v = HDLC_ESC)
<1>1. wire \in Marks /\ tx[t].n \in Nat
  BY DEF TypeOK
<1>2. CASE WireByte(t).v = HDLC_FRAME
  <2>1. w = [wire EXCEPT !.last = tx[t].n, !.delim = TRUE]
    BY <1>2, Zenon DEF OnWire
  <2> QED BY <1>1, <1>2, <2>1, Zenon DEF Marks
<1>3. CASE WireByte(t).v # HDLC_FRAME
  <2> DEFINE e == WireByte(t).v = HDLC_ESC
  <2>1. w = [last |-> tx[t].n, delim |-> FALSE, data |-> tx[t].n, esc |-> e]
    BY <1>3, Zenon DEF OnWire
  <2>2. e \in BOOLEAN
    OBVIOUS
  <2> HIDE DEF e
  <2>3. w \in Marks
    BY <1>1, <2>1, <2>2 DEF Marks
  <2>4. w.last = tx[t].n /\ w.delim = FALSE /\ w.data = tx[t].n /\ w.esc = e
    BY <2>1
  <2> QED BY <1>3, <2>3, <2>4, Zenon DEF e
<1> QED BY <1>2, <1>3

(* The state of a send.                                                    *)
Transmits == [on : BOOLEAN, n : Nat, i : Nat, esc : BOOLEAN]

(* A sender that goes on keeps its type and its frame; no other sender     *)
(* changes.                                                                *)
LEMMA AdvanceType ==
  ASSUME TypeOK, Sending, NEW t \in line, tx[t].on, Advance(t)
  PROVE  /\ tx' \in [line -> Transmits]
         /\ \A u \in line : tx'[u].on => tx[u].on /\ tx'[u].n = tx[u].n
<1>1. tx \in [line -> Transmits] /\ tx[t] \in Transmits
  BY DEF TypeOK, Transmits
<1> DEFINE o == tx[t]
           new == IF o.i > Len(Current(t)) THEN Idle
                  ELSE IF WireByte(t).v = HDLC_ESC THEN [o EXCEPT !.esc = TRUE]
                  ELSE [on |-> TRUE, n |-> o.n, i |-> o.i + 1, esc |-> FALSE]
<1>2. tx' = [tx EXCEPT ![t] = new]
  BY DEF Advance
<1>3. new \in Transmits /\ (new.on => new.n = o.n)
  <2>1. Idle \in Transmits /\ ~Idle.on
    BY DEF Idle, Transmits
  <2>2. o.i + 1 \in Nat
    BY <1>1 DEF Transmits
  <2>3. [o EXCEPT !.esc = TRUE] \in Transmits /\ [o EXCEPT !.esc = TRUE].n = o.n
    BY <1>1, Zenon DEF Transmits
  <2>4. /\ [on |-> TRUE, n |-> o.n, i |-> o.i + 1, esc |-> FALSE] \in Transmits
        /\ [on |-> TRUE, n |-> o.n, i |-> o.i + 1, esc |-> FALSE].n = o.n
    BY <1>1, <2>2 DEF Transmits
  <2> QED BY <2>1, <2>3, <2>4, Zenon
<1> HIDE DEF new
<1> QED BY <1>1, <1>2, <1>3, Zenon

(* The state of the decoder.                                               *)
Drivers == [crc : Seq(Bytes), next_escaped : BOOLEAN, rx_buffer : Seq(Bytes), over : BOOLEAN]

(* What the decoder does with a genuine byte.                              *)
LEMMA SaveByte ==
  ASSUME TypeOK, DecoderInStep, NEW c \in Bytes, Genuine(c), NEW x \in Drivers,
         x.crc = Append(drv.crc, c), x.rx_buffer = drv.rx_buffer, x.over = drv.over,
         NEW d, d = hdlc_save_byte(x, c)
  PROVE  /\ d \in Drivers
         /\ Len(d.rx_buffer) <= MaxBlock
         /\ \A j \in 1..Len(d.crc) : Genuine(d.crc[j])
         /\ ~d.over => d.rx_buffer = d.crc
<1>1. drv.crc \in Seq(Bytes) /\ drv.rx_buffer \in Seq(Bytes) /\ Len(drv.rx_buffer) \in Nat
  BY DEF TypeOK
<1>2. CASE Len(drv.rx_buffer) >= MaxBlock
  <2>1. d = [x EXCEPT !.crc = <<>>, !.rx_buffer = <<c>>, !.over = TRUE]
    BY <1>2, Zenon DEF hdlc_save_byte
  <2>2. <<>> \in Seq(Bytes) /\ <<c>> \in Seq(Bytes) /\ Len(<<c>>) = 1 /\ 1..Len(<<>>) = {}
    OBVIOUS
  <2>3. d \in Drivers /\ d.crc = <<>> /\ d.rx_buffer = <<c>> /\ d.over = TRUE
    BY <2>1, <2>2, Zenon DEF Drivers
  <2>4. Len(d.rx_buffer) <= MaxBlock
    BY <2>2, <2>3, ConstantsAssumption
  <2> QED BY <2>2, <2>3, <2>4, Zenon
<1>3. CASE ~(Len(drv.rx_buffer) >= MaxBlock)
  <2>1. d = [x EXCEPT !.rx_buffer = Append(@, c)]
    BY <1>3, Zenon DEF hdlc_save_byte
  <2>2. /\ Append(drv.crc, c) \in Seq(Bytes) /\ Append(drv.rx_buffer, c) \in Seq(Bytes)
        /\ Len(Append(drv.rx_buffer, c)) = Len(drv.rx_buffer) + 1
    BY <1>1
  <2>3. /\ d \in Drivers
        /\ d.crc = Append(drv.crc, c) /\ d.rx_buffer = Append(drv.rx_buffer, c)
        /\ d.over = drv.over
    BY <2>1, <2>2, Zenon DEF Drivers
  <2>4. \A j \in 1..Len(Append(drv.crc, c)) : Genuine(Append(drv.crc, c)[j])
    <3>1. \A j \in 1..Len(Append(drv.crc, c)) :
            /\ j = Len(drv.crc) + 1 \/ j \in 1..Len(drv.crc)
            /\ Append(drv.crc, c)[j] = IF j = Len(drv.crc) + 1 THEN c ELSE drv.crc[j]
      BY <1>1
    <3>2. \A j \in 1..Len(drv.crc) : Genuine(drv.crc[j])
      BY DEF DecoderInStep
    <3> QED BY <3>1, <3>2, Zenon
  <2>5. Len(d.rx_buffer) <= MaxBlock
    BY <1>1, <1>3, <2>2, <2>3, ConstantsAssumption
  <2>6. ~d.over => d.rx_buffer = d.crc
    BY <2>3, Zenon DEF DecoderInStep
  <2> QED BY <2>3, <2>4, <2>5, <2>6, Zenon
<1> QED BY <1>2, <1>3

(* The argument for SentUnlessOverflow: the first check byte names the     *)
(* bytes before it, and it is genuine, so that they are a block that was   *)
(* sent; none of them has the value of a check byte, so that none is one.  *)
LEMMA Accepted ==
  ASSUME TypeOK, DecoderInStep, hdlc_process_frame(drv), ~drv.over
  PROVE  drv.rx_buffer \in SentCoded
<1> DEFINE crc   == drv.crc
           n     == Len(crc) - 2
           names == [j \in 1..n |-> crc[j].v]
<1>1. crc \in Seq(Bytes) /\ drv.rx_buffer = crc /\ Len(crc) \in Nat
  BY DEF TypeOK, DecoderInStep
<1>2. Len(crc) > 3
  BY <1>1 DEF hdlc_process_frame
<1>3. /\ crc[n + 1] = [v |-> "lo", of |-> names]
      /\ crc[n + 2] = [v |-> "hi", of |-> names]
  BY DEF hdlc_process_frame, GoodCrc
<1>4. \A j \in 1..Len(crc) : Genuine(crc[j]) /\ crc[j] \in Bytes
  BY <1>1 DEF DecoderInStep
<1>5. n \in Nat /\ n >= 2 /\ n + 1 \in 1..Len(crc) /\ Len(crc) = n + 2
  BY <1>1, <1>2
<1> HIDE DEF crc, n
<1>6. names # <<>> /\ Len(names) = n
  BY <1>5
<1>7. names \in SentBlocks
  <2>1. Genuine(crc[n + 1]) /\ crc[n + 1].of = names
    BY <1>3, <1>4, <1>5
  <2> QED BY <1>6, <2>1 DEF Genuine
<1>8. PICK m \in DOMAIN sent : names = sent[m].block
  BY <1>7 DEF SentBlocks
<1>9. PICK b \in Blocks : b = names /\ Coded(b) \in SentCoded
  <2>1. sent[m].block \in Blocks
    BY SentType DEF Sends
  <2>2. Coded(sent[m].block) \in SentCoded
    BY DEF SentCoded
  <2> QED BY <1>8, <2>1, <2>2
<1>10. Len(b) = n /\ \A j \in 1..n : b[j] = crc[j].v
  BY <1>6, <1>9
<1> HIDE DEF names
<1>11. b \in Seq(Values \ CheckValues)
  BY BlockType
<1>12. /\ Coded(b) \in Seq(Bytes)
       /\ Len(Coded(b)) = n + 2
       /\ \A j \in 1..n : Coded(b)[j] = Byte(b[j])
       /\ Coded(b)[n + 1] = [v |-> "lo", of |-> b]
       /\ Coded(b)[n + 2] = [v |-> "hi", of |-> b]
  BY CodedType, <1>10, Zenon
<1>13. ASSUME NEW j \in 1..n PROVE crc[j] = Coded(b)[j]
  <2>1. b[j] \notin CheckValues
    BY <1>10, <1>11
  <2>2. Genuine(crc[j]) /\ crc[j] \in Bytes
    BY <1>4, <1>5
  <2>3. crc[j].of = <<>>
    BY <1>10, <2>1, <2>2 DEF Genuine
  <2>4. crc[j] = [v |-> b[j], of |-> <<>>]
    BY <1>10, <2>2, <2>3 DEF Bytes
  <2> QED BY <1>12, <2>4 DEF Byte
<1>14. \A j \in 1..Len(crc) : crc[j] = Coded(b)[j]
  <2>1. \A j \in 1..Len(crc) : j \in 1..n \/ j = n + 1 \/ j = n + 2
    BY <1>5
  <2> QED BY <1>3, <1>9, <1>12, <1>13, <2>1, Zenon
<1>15. crc = Coded(b)
  BY <1>1, <1>5, <1>12, <1>14, SeqEqual, Zenon
<1> QED BY <1>1, <1>9, <1>15, Zenon

(* hdlc_rx_input_byte keeps the decoder in step, whatever byte arrives.    *)
LEMMA InputKeeps ==
  ASSUME TypeOK, DecoderInStep, SentUnlessOverflow, NEW b \in Bytes, Genuine(b),
         hdlc_rx_input_byte(b)
  PROVE  /\ drv' \in Drivers
         /\ Len(drv'.rx_buffer) <= MaxBlock
         /\ \A j \in 1..Len(drv'.crc) : Genuine(drv'.crc[j])
         /\ ~drv'.over => drv'.rx_buffer = drv'.crc
         /\ got' \subseteq [n : Nat, block : Seq(Bytes), over : BOOLEAN]
         /\ \A g \in got' : ~g.over => g.block \in SentCoded
<1> DEFINE Got == [n : Nat, block : Seq(Bytes), over : BOOLEAN]
<1>1. /\ drv \in Drivers /\ Len(drv.rx_buffer) <= MaxBlock /\ got \subseteq Got
      /\ wire.last \in Nat
  BY DEF TypeOK, Drivers, Marks
<1>2. /\ \A j \in 1..Len(drv.crc) : Genuine(drv.crc[j])
      /\ ~drv.over => drv.rx_buffer = drv.crc
  BY DEF DecoderInStep
<1>3. \A g \in got : ~g.over => g.block \in SentCoded
  BY DEF SentUnlessOverflow
<1> DEFINE Kept(d) == /\ d \in Drivers
                      /\ Len(d.rx_buffer) <= MaxBlock
                      /\ \A j \in 1..Len(d.crc) : Genuine(d.crc[j])
                      /\ ~d.over => d.rx_buffer = d.crc
           Fine(G) == G \subseteq Got /\ \A g \in G : ~g.over => g.block \in SentCoded
<1>4. Kept(drv) /\ Fine(got)
  BY <1>1, <1>2, <1>3
<1> SUFFICES Kept(drv') /\ Fine(got')
  OBVIOUS
<1>5. CASE b.v = HDLC_FRAME
  <2>1. b.v # HDLC_ESC
    BY <1>5 DEF HDLC_FRAME, HDLC_ESC
  <2>2. CASE drv.rx_buffer = <<>>
    BY <1>4, <1>5, <2>1, <2>2, Zenon DEF hdlc_rx_input_byte
  <2>3. CASE drv.rx_buffer # <<>>
    <3>1. drv' = end_of_frame(drv)
      BY <1>5, <2>1, <2>3, Zenon DEF hdlc_rx_input_byte
    <3>2. <<>> \in Seq(Bytes) /\ Len(<<>>) = 0 /\ 1..Len(<<>>) = {}
      OBVIOUS
    <3>3. drv' \in Drivers /\ drv'.crc = <<>> /\ drv'.rx_buffer = <<>>
      BY <1>1, <3>1, <3>2, Zenon DEF end_of_frame, Drivers
    <3>4. Len(drv'.rx_buffer) <= MaxBlock
      BY <3>2, <3>3, ConstantsAssumption
    <3>5. Kept(drv')
      BY <3>2, <3>3, <3>4, Zenon
    <3>6. CASE got' = got
      BY <1>4, <3>5, <3>6, Zenon
    <3>7. CASE /\ hdlc_process_frame(drv)
               /\ got' = got \cup {[n |-> wire.last, block |-> drv.rx_buffer, over |-> drv.over]}
      <4> DEFINE g == [n |-> wire.last, block |-> drv.rx_buffer, over |-> drv.over]
      <4>1. g \in Got /\ g.block = drv.rx_buffer /\ g.over = drv.over
        BY <1>1, Zenon DEF Drivers
      <4>2. ~g.over => g.block \in SentCoded
        BY <3>7, <4>1, Accepted
      <4> HIDE DEF g
      <4>3. Fine(got')
        BY <1>4, <3>7, <4>1, <4>2, Zenon DEF g
      <4> QED BY <3>5, <4>3
    <3> QED BY <1>5, <2>1, <2>3, <3>6, <3>7, Zenon DEF hdlc_rx_input_byte
  <2> QED BY <2>2, <2>3
<1>6. CASE b.v = HDLC_ESC
  <2>1. b.v # HDLC_FRAME
    BY <1>6 DEF HDLC_FRAME, HDLC_ESC
  <2>2. drv' = [drv EXCEPT !.next_escaped = TRUE] /\ got' = got
    BY <1>6, <2>1, Zenon DEF hdlc_rx_input_byte
  <2>3. /\ drv' \in Drivers
        /\ drv'.crc = drv.crc /\ drv'.rx_buffer = drv.rx_buffer /\ drv'.over = drv.over
    BY <1>1, <2>2, Zenon DEF Drivers
  <2> QED BY <1>4, <2>2, <2>3, Zenon
<1>7. CASE b.v \notin {HDLC_FRAME, HDLC_ESC}
  <2> DEFINE c == IF drv.next_escaped THEN [b EXCEPT !.v = Xor20(b.v)] ELSE b
             x == [drv EXCEPT !.next_escaped = FALSE, !.crc = Append(@, c)]
  <2>1. drv' = hdlc_save_byte(x, c) /\ got' = got
    BY <1>7, Zenon DEF hdlc_rx_input_byte
  <2>2. c \in Bytes /\ Genuine(c)
    <3>1. b.v \in Values
      BY DEF Bytes
    <3>2. Xor20(b.v) \in Values /\ (b.v \in CheckValues => Xor20(b.v) \in CheckValues)
      BY <3>1, Xor20Type
    <3>3. [b EXCEPT !.v = Xor20(b.v)] \in Bytes /\ Genuine([b EXCEPT !.v = Xor20(b.v)])
      BY <3>2 DEF Bytes, Genuine
    <3> QED BY <3>3
  <2> HIDE DEF c
  <2>3. Append(drv.crc, c) \in Seq(Bytes)
    BY <1>1, <2>2 DEF Drivers
  <2>4. /\ x \in Drivers /\ x.crc = Append(drv.crc, c) /\ x.rx_buffer = drv.rx_buffer
        /\ x.over = drv.over
    BY <1>1, <2>3, Zenon DEF Drivers
  <2> HIDE DEF x
  <2>5. Kept(drv')
    BY <2>1, <2>2, <2>4, SaveByte, Zenon
  <2> QED BY <1>4, <2>1, <2>5, Zenon
<1> QED BY <1>5, <1>6, <1>7

(* A call of hdlc_block_send_sync adds a block and leaves the decoder be.  *)
LEMMA SendKeeps ==
  ASSUME FrameInv, NEW t, NEW b \in Blocks, hdlc_block_send_sync(t, b)
  PROVE  FrameInv'
<1>1. TypeOK /\ Sending /\ DecoderInStep /\ SentUnlessOverflow
  BY DEF FrameInv
<1>2. PICK s : /\ s \in Sends /\ t \in line /\ sent' = Append(sent, s)
              /\ UNCHANGED <<line, wire, drv, got, lost, overrun>>
  <2>1. PICK special \in Escapes :
          sent' = Append(sent, [block |-> b, special |-> special,
                                kept |-> TRUE, cut |-> FALSE, begin |-> Quiet])
    BY Zenon DEF hdlc_block_send_sync
  <2>2. special \in SUBSET {"lo", "hi"}
    BY ConstantsAssumption
  <2>3. [block |-> b, special |-> special, kept |-> TRUE, cut |-> FALSE, begin |-> Quiet]
          \in Sends
    BY <2>2 DEF Sends, Quiet, Marks
  <2>4. t \in line /\ UNCHANGED <<line, wire, drv, got, lost, overrun>>
    BY Zenon DEF hdlc_block_send_sync
  <2> QED BY <2>1, <2>3, <2>4, Zenon
<1>3. s \in Sends
  BY <1>2
<1>4. sent \in Seq(Sends) /\ Len(sent) \in Nat /\ DOMAIN sent = 1..Len(sent)
  BY <1>1, SentType
<1>5. /\ sent' \in Seq(Sends) /\ Len(sent') = Len(sent) + 1 /\ DOMAIN sent' = 1..(Len(sent) + 1)
      /\ \A n \in 1..Len(sent) : sent'[n] = sent[n]
  BY <1>2, <1>3, <1>4
<1> DEFINE new == [Idle EXCEPT !.on = TRUE, !.n = Len(sent) + 1]
<1>6. tx' = [tx EXCEPT ![t] = new]
  BY Zenon DEF hdlc_block_send_sync
<1>7. tx \in [line -> Transmits] /\ Idle \in Transmits /\ Len(sent) + 1 \in Nat
  BY <1>1, <1>4 DEF TypeOK, Transmits, Idle
<1>8. new \in Transmits /\ new.n = Len(sent) + 1
  BY <1>7, Zenon DEF Transmits
<1> HIDE DEF new
<1>9. /\ tx' \in [line -> Transmits]
      /\ \A u \in line : tx'[u] = IF u = t THEN new ELSE tx[u]
  BY <1>6, <1>7, <1>8, Zenon
<1>10. TypeOK'
  <2>1. sent' \in Seq([block : Blocks, special : SUBSET {"lo", "hi"},
                      kept : BOOLEAN, cut : BOOLEAN, begin : Marks])
    BY <1>5, Zenon DEF Sends
  <2>2. tx' \in [line' -> [on : BOOLEAN, n : Nat, i : Nat, esc : BOOLEAN]]
    BY <1>2, <1>9, Zenon DEF Transmits
  <2> QED BY <1>1, <1>2, <2>1, <2>2, Zenon DEF TypeOK
<1>11. Sending'
  <2> SUFFICES ASSUME NEW u \in line, tx'[u].on PROVE tx'[u].n \in 1..Len(sent')
    BY <1>2, Zenon DEF Sending
  <2>1. CASE u = t
    BY <1>4, <1>5, <1>8, <1>9, <2>1
  <2>2. CASE u # t
    <3>1. tx[u].n \in 1..Len(sent) /\ tx'[u].n = tx[u].n
      BY <1>1, <1>9, <2>2, Zenon DEF Sending
    <3> QED BY <1>4, <1>5, <3>1
  <2> QED BY <2>1, <2>2
<1>12. SentBlocks \subseteq SentBlocks' /\ SentCoded \subseteq SentCoded'
  BY <1>4, <1>5 DEF SentBlocks, SentCoded
<1>13. DecoderInStep' /\ SentUnlessOverflow'
  BY <1>1, <1>2, <1>12, Zenon DEF DecoderInStep, SentUnlessOverflow, Genuine
<1> QED BY <1>10, <1>11, <1>13 DEF FrameInv

(* A byte on the line, which arrives or is lost.                           *)
LEMMA ByteKeeps ==
  ASSUME FrameInv, NEW t \in line, ByteArrives(t) \/ ByteLost(t)
  PROVE  FrameInv'
<1>1. TypeOK /\ Sending /\ DecoderInStep /\ SentUnlessOverflow
  BY DEF FrameInv
<1>2. PICK kept \in BOOLEAN : hdlc_send_callback(t, kept)
  BY Zenon DEF ByteArrives, ByteLost
<1>3. /\ tx[t].on /\ Advance(t) /\ wire' = OnWire(t) /\ line' = line
      /\ sent' = Record(t, kept) /\ overrun' = overrun
  BY <1>2 DEF hdlc_send_callback
<1>4. /\ sent' \in Seq(Sends) /\ Len(sent') = Len(sent)
      /\ \A m \in 1..Len(sent) : sent'[m].block = sent[m].block
  BY <1>1, <1>3, RecordIs
<1>5. Len(sent) \in Nat /\ DOMAIN sent = 1..Len(sent) /\ DOMAIN sent' = 1..Len(sent)
  BY <1>1, <1>4, SentType
<1>6. SentBlocks' = SentBlocks /\ SentCoded' = SentCoded
  BY <1>4, <1>5 DEF SentBlocks, SentCoded
<1>7. /\ tx' \in [line -> Transmits]
      /\ \A u \in line : tx'[u].on => tx[u].on /\ tx'[u].n = tx[u].n
  BY <1>1, <1>3, AdvanceType
<1>8. Sending'
  BY <1>1, <1>3, <1>4, <1>7, Zenon DEF Sending
<1>9. /\ drv' \in Drivers
      /\ Len(drv'.rx_buffer) <= MaxBlock
      /\ \A j \in 1..Len(drv'.crc) : Genuine(drv'.crc[j])
      /\ ~drv'.over => drv'.rx_buffer = drv'.crc
      /\ got' \subseteq [n : Nat, block : Seq(Bytes), over : BOOLEAN]
      /\ \A g \in got' : ~g.over => g.block \in SentCoded
      /\ lost' \in 0..MaxLost
  <2>1. CASE ByteArrives(t)
    <3>1. WireByte(t) \in Bytes /\ Genuine(WireByte(t))
      BY <1>1, <1>3, WireByteType
    <3>2. hdlc_rx_input_byte(WireByte(t)) /\ lost' = lost
      BY <2>1 DEF ByteArrives
    <3>3. lost' \in 0..MaxLost
      BY <1>1, <3>2 DEF TypeOK
    <3> QED BY <1>1, <3>1, <3>2, <3>3, InputKeeps, Zenon
  <2>2. CASE ByteLost(t)
    <3>1. drv' = drv /\ got' = got
      BY <2>2 DEF ByteLost
    <3>2. lost' \in 0..MaxLost
      BY <1>1, <2>2, ConstantsAssumption DEF ByteLost, TypeOK
    <3> QED BY <1>1, <3>1, <3>2, Zenon
         DEF TypeOK, Drivers, DecoderInStep, SentUnlessOverflow
  <2> QED BY <2>1, <2>2
<1>10. TypeOK'
  <2>1. wire' \in Marks
    BY <1>1, <1>3, OnWireIs, Zenon
  <2>2. line' \in Lines /\ overrun' \in BOOLEAN
    BY <1>1, <1>3, Zenon DEF TypeOK
  <2> QED BY <1>3, <1>4, <1>7, <1>9, <2>1, <2>2, Zenon DEF TypeOK, Sends, Transmits, Drivers
<1>11. DecoderInStep' /\ SentUnlessOverflow'
  BY <1>6, <1>9, Zenon DEF DecoderInStep, SentUnlessOverflow, Genuine
<1> QED BY <1>8, <1>10, <1>11 DEF FrameInv

(* Who sends, sends a block.                                               *)
LEMMA SendIs ==
  ASSUME NEW p \in Payloads, gb_message_hdlc_send(p) \/ hdlc_uart_out(p) \/ host_send(p)
  PROVE  \E t : \E b \in Blocks : hdlc_block_send_sync(t, b)
<1> DEFINE Join(a, c, q) == <<a, c>> \o q
           Addresses == {ADDRESS_GREYBUS, ADDRESS_DBG}
           Controls  == {"03", "10"}
<1>1. Blocks = {Join(a, c, q) : a \in Addresses, c \in Controls, q \in Payloads}
  BY DEF Blocks
<1>2. \E t : \E a \in Addresses, c \in Controls : hdlc_block_send_sync(t, Join(a, c, p))
  <2>1. CASE gb_message_hdlc_send(p)
    BY <2>1, Zenon DEF gb_message_hdlc_send
  <2>2. CASE hdlc_uart_out(p)
    BY <2>2, Zenon DEF hdlc_uart_out
  <2>3. CASE host_send(p)
    BY <2>3, Zenon DEF host_send
  <2> QED BY <2>1, <2>2, <2>3
<1> HIDE DEF Join, Addresses, Controls
<1>3. \A a \in Addresses, c \in Controls : Join(a, c, p) \in Blocks
  BY <1>1
<1> QED BY <1>2, <1>3

(* Every step keeps the invariant.                                         *)
LEMMA FrameNext == FrameInv /\ [Next]_vars => FrameInv'
<1> SUFFICES ASSUME FrameInv, [Next]_vars PROVE FrameInv'
  OBVIOUS
<1>1. ASSUME NEW p \in Payloads, gb_message_hdlc_send(p) \/ hdlc_uart_out(p) \/ host_send(p)
      PROVE  FrameInv'
  BY <1>1, SendIs, SendKeeps
<1>2. ASSUME NEW t \in line, ByteArrives(t) \/ ByteLost(t)
      PROVE  FrameInv'
  BY <1>2, ByteKeeps
<1>3. CASE gb_message_hdlc_send_long \/ UNCHANGED vars
  <2>1. /\ line' = line /\ sent' = sent /\ tx' = tx /\ wire' = wire /\ drv' = drv
        /\ got' = got /\ lost' = lost
    BY <1>3 DEF vars, gb_message_hdlc_send_long
  <2>2. overrun' \in BOOLEAN
    BY <1>3, Zenon DEF vars, gb_message_hdlc_send_long, FrameInv, TypeOK
  <2> QED BY <2>1, <2>2, Zenon
          DEF FrameInv, TypeOK, Sending, DecoderInStep, Genuine, SentBlocks,
              SentUnlessOverflow, SentCoded
<1> QED BY <1>1, <1>2, <1>3 DEF Next

(* Type correctness.  The part that is not obvious: whatever arrives,      *)
(* hdlc_save_byte never writes past the end of rx_buffer.                  *)
THEOREM FrameTyped == Spec => []TypeOK
<1>1. FrameInv => TypeOK
  BY DEF FrameInv
<1> QED BY <1>1, FrameInit, FrameNext, PTL DEF Spec

(* Whatever the line loses, and however the threads cut into each other's  *)
(* frames, hdlc_process_complete_frame is only called with a block that    *)
(* was sent, unless rx_buffer overflowed since the last delimiter: for any *)
(* CRC without collisions, frames of any length and any number of them.    *)
THEOREM AcceptedWasSent == Spec => []SentUnlessOverflow
<1>1. FrameInv => SentUnlessOverflow
  BY DEF FrameInv
<1> QED BY <1>1, FrameInit, FrameNext, PTL DEF Spec

-----------------------------------------------------------------------------
(* The decoder as long as the line does it no harm.                        *)

(* Nothing has happened to the send, as far as it went.                    *)
Good(n) ==
  LET s == sent[n] IN
  /\ s.kept /\ ~s.cut
  /\ s.begin.delim /\ ~s.begin.esc
  /\ Unharmed(s.begin.last) /\ Unharmed(s.begin.data)

(* Where a sender can be in its frame; no two send the same one.           *)
Places ==
  /\ \A t \in line : tx[t].on =>
       /\ tx[t].i <= Len(Current(t)) + 1
       /\ tx[t].esc => /\ tx[t].i \in 1..Len(Current(t))
                       /\ NeedsEscape(Current(t)[tx[t].i].v, Special(t))
  /\ \A t, u \in line : tx[t].on /\ tx[u].on /\ t # u => tx[t].n # tx[u].n

(* The history of the line is about sends that were made.                  *)
KnownMark(w) == w.last \in 0..Len(sent) /\ w.data \in 0..Len(sent)
Marked == KnownMark(wire) /\ \A n \in 1..Len(sent) : KnownMark(sent[n].begin)

(* What arrived last decides the decoder: a delimiter empties the block,   *)
(* and only an escape leaves next_escaped.                                 *)
LineInv ==
  /\ drv.rx_buffer = <<>> => drv.crc = <<>> /\ ~drv.over
  /\ wire.delim /\ Unharmed(wire.last) => drv.rx_buffer = <<>>
  /\ Unharmed(wire.data) => (drv.next_escaped <=> wire.esc)

(* Where preemption nests, a frame begins behind a delimiter: while the    *)
(* last byte is none, a thread that preempts is still sending.             *)
TurnInv == Nested =>
  /\ \A t \in line : tx[t].on /\ Begins(t) /\ ~wire.delim =>
       \E u \in line : tx[u].on /\ Priority[u] < Priority[t]
  /\ \A n \in 1..Len(sent) : sent[n].begin.delim

(* The block holds the first k bytes of s.                                 *)
Holds(s, k) ==
  /\ Len(drv.rx_buffer) = k
  /\ \A j \in 1..k : drv.rx_buffer[j] = s[j]
  /\ ~drv.over

(* A frame that is not cut has the line to itself, and if nothing happened *)
(* to it the block holds what it has sent.                                 *)
InFrame(t) ==
  LET n == tx[t].n IN
  /\ ~sent[n].cut => /\ wire.last = n /\ wire.data = n
                     /\ wire.esc <=> tx[t].esc
  /\ Good(n) /\ Len(Current(t)) <= MaxBlock => Holds(Current(t), tx[t].i - 1)

ProgressInv == \A t \in line : tx[t].on /\ Begun(t) => InFrame(t)

DamageInv == Places /\ Marked /\ LineInv /\ TurnInv /\ ProgressInv /\ DamageContained

(* Before anything is sent.                                                *)
LEMMA DamageInit == Init => DamageInv
<1> SUFFICES ASSUME Init PROVE DamageInv
  OBVIOUS
<1>1. /\ \A t \in line : ~tx[t].on
      /\ sent = <<>> /\ Len(sent) = 0 /\ 1..Len(sent) = {} /\ DOMAIN sent = {}
      /\ wire.last = 0 /\ wire.data = 0 /\ wire.esc = FALSE
      /\ drv.rx_buffer = <<>> /\ drv.crc = <<>> /\ drv.over = FALSE /\ drv.next_escaped = FALSE
  BY DEF Init, Idle, Quiet, Fresh
<1>2. Places /\ ProgressInv /\ TurnInv
  BY <1>1, Zenon DEF Places, ProgressInv, TurnInv
<1>3. Marked
  BY <1>1 DEF Marked, KnownMark
<1>4. LineInv
  BY <1>1, Zenon DEF LineInv
<1>5. DamageContained
  BY <1>1, Zenon DEF DamageContained
<1> QED BY <1>2, <1>3, <1>4, <1>5 DEF DamageInv

(* Escaping a value that needs it is undone by escaping again.             *)
LEMMA Xor20Twice ==
  ASSUME NEW v, NEW special \in SUBSET {"lo", "hi"}, NeedsEscape(v, special)
  PROVE  /\ Xor20(v) \in Values /\ Xor20(v) \notin {HDLC_FRAME, HDLC_ESC}
         /\ Xor20(Xor20(v)) = v
<1>1. v \in {"7E", "7D", "lo", "hi"}
  BY DEF NeedsEscape, HDLC_FRAME, HDLC_ESC
<1>2. Values = {"7E", "5E", "7D", "5D", "01", "21", "02", "22", "03", "23", "10", "30",
                "lo", "hi", "lo^20", "hi^20"}
  BY ValuesAre DEF CheckValues
<1>3. ASSUME NEW x \in Values, NEW y \in Values, <<x, y>> \in XorPairs \/ <<y, x>> \in XorPairs,
             x \in {"7E", "7D", "5E", "5D", "lo", "hi", "lo^20", "hi^20"}
      PROVE  Xor20(x) = y
  <2>1. \A w \in Values : <<x, w>> \in XorPairs \/ <<w, x>> \in XorPairs => w = y
    BY <1>3 DEF XorPairs
  <2> QED BY <1>3, <2>1, Zenon DEF Xor20
<1>4. CASE v = "7E"
  <2>1. Xor20(v) = "5E"
    BY <1>2, <1>3, <1>4 DEF XorPairs
  <2>2. Xor20("5E") = v
    BY <1>2, <1>3, <1>4 DEF XorPairs
  <2> QED BY <1>2, <2>1, <2>2 DEF HDLC_FRAME, HDLC_ESC
<1>5. CASE v = "7D"
  <2>1. Xor20(v) = "5D"
    BY <1>2, <1>3, <1>5 DEF XorPairs
  <2>2. Xor20("5D") = v
    BY <1>2, <1>3, <1>5 DEF XorPairs
  <2> QED BY <1>2, <2>1, <2>2 DEF HDLC_FRAME, HDLC_ESC
<1>6. CASE v = "lo"
  <2>1. Xor20(v) = "lo^20"
    BY <1>2, <1>3, <1>6 DEF XorPairs
  <2>2. Xor20("lo^20") = v
    BY <1>2, <1>3, <1>6 DEF XorPairs
  <2> QED BY <1>2, <2>1, <2>2 DEF HDLC_FRAME, HDLC_ESC
<1>7. CASE v = "hi"
  <2>1. Xor20(v) = "hi^20"
    BY <1>2, <1>3, <1>7 DEF XorPairs
  <2>2. Xor20("hi^20") = v
    BY <1>2, <1>3, <1>7 DEF XorPairs
  <2> QED BY <1>2, <2>1, <2>2 DEF HDLC_FRAME, HDLC_ESC
<1> QED BY <1>1, <1>4, <1>5, <1>6, <1>7

(* What a sender sends.                                                    *)
LEMMA CurrentIs ==
  ASSUME TypeOK, Sending, NEW t \in line, tx[t].on
  PROVE  /\ tx[t].n \in 1..Len(sent) /\ tx[t].i \in Nat
         /\ sent[tx[t].n].block \in Blocks /\ Special(t) \in SUBSET {"lo", "hi"}
         /\ Current(t) = Coded(sent[tx[t].n].block)
         /\ Current(t) \in Seq(Bytes) /\ Len(Current(t)) \in Nat /\ Len(Current(t)) > 3
         /\ DOMAIN Current(t) = 1..Len(Current(t))
<1>1. tx[t].n \in 1..Len(sent) /\ tx[t].i \in Nat
  BY DEF Sending, TypeOK
<1>2. sent[tx[t].n].block \in Blocks /\ Special(t) \in SUBSET {"lo", "hi"}
  BY <1>1, SentType DEF Sends, Special
<1>3. PICK b \in Blocks : b = sent[tx[t].n].block
  BY <1>2
<1>4. Current(t) = Coded(b)
  BY <1>3 DEF Current
<1>5. Coded(b) \in Seq(Bytes) /\ Len(Coded(b)) = Len(b) + 2 /\ Len(b) \in Nat /\ Len(b) >= 2
  <2>1. b \in Seq(Values \ CheckValues) /\ Len(b) >= 2
    BY BlockType, Zenon
  <2>2. Coded(b) \in Seq(Bytes) /\ Len(Coded(b)) = Len(b) + 2
    BY CodedType, Zenon
  <2> QED BY <2>1, <2>2
<1> QED BY <1>1, <1>2, <1>3, <1>4, <1>5

(* The byte that is next, by the place in the frame, and what becomes of   *)
(* it in a decoder that has seen the escape, if there was one.             *)
LEMMA WireByteIs ==
  ASSUME TypeOK, Sending, Places, NEW t \in line, tx[t].on
  PROVE  /\ tx[t].i \notin 1..Len(Current(t)) => WireByte(t).v = HDLC_FRAME
         /\ tx[t].i \in 1..Len(Current(t)) =>
              \/ /\ ~tx[t].esc /\ WireByte(t).v = HDLC_ESC
                 /\ NeedsEscape(Current(t)[tx[t].i].v, Special(t))
              \/ /\ WireByte(t).v \notin {HDLC_FRAME, HDLC_ESC}
                 /\ tx[t].esc => [WireByte(t) EXCEPT !.v = Xor20(WireByte(t).v)]
                                   = Current(t)[tx[t].i]
                 /\ ~tx[t].esc => WireByte(t) = Current(t)[tx[t].i]
<1>1. /\ Current(t) \in Seq(Bytes) /\ DOMAIN Current(t) = 1..Len(Current(t))
      /\ Special(t) \in SUBSET {"lo", "hi"}
  BY CurrentIs
<1>2. CASE tx[t].i \notin 1..Len(Current(t))
  BY <1>1, <1>2 DEF WireByte, Byte
<1>3. CASE tx[t].i \in 1..Len(Current(t))
  <2>1. PICK c \in Bytes : c = Current(t)[tx[t].i]
    BY <1>1, <1>3
  <2>2. WireByte(t) = IF ~NeedsEscape(c.v, Special(t)) THEN c
                      ELSE IF tx[t].esc THEN [c EXCEPT !.v = Xor20(c.v)] ELSE Byte(HDLC_ESC)
    BY <1>1, <1>3, <2>1, Zenon DEF WireByte, Special
  <2>3. tx[t].esc => NeedsEscape(c.v, Special(t))
    BY <2>1 DEF Places
  <2>4. CASE ~NeedsEscape(c.v, Special(t))
    BY <1>3, <2>1, <2>2, <2>3, <2>4 DEF NeedsEscape
  <2>5. CASE NeedsEscape(c.v, Special(t)) /\ ~tx[t].esc
    <3>1. WireByte(t).v = HDLC_ESC
      BY <2>2, <2>5 DEF Byte
    <3> QED BY <1>3, <2>1, <2>5, <3>1
  <2>6. CASE NeedsEscape(c.v, Special(t)) /\ tx[t].esc
    <3>1. PICK x : x = Xor20(c.v)
      OBVIOUS
    <3>2. x \notin {HDLC_FRAME, HDLC_ESC} /\ Xor20(x) = c.v
      BY <1>1, <2>6, <3>1, Xor20Twice
    <3>3. WireByte(t) = [c EXCEPT !.v = x]
      BY <2>2, <2>6, <3>1
    <3>4. WireByte(t).v = x /\ [WireByte(t) EXCEPT !.v = c.v] = c
      BY <2>1, <3>3 DEF Bytes
    <3> QED BY <1>3, <2>1, <2>6, <3>2, <3>4
  <2> QED BY <2>4, <2>5, <2>6
<1> QED BY <1>2, <1>3

(* Where the sender is after the byte.                                     *)
LEMMA AdvanceIs ==
  ASSUME TypeOK, Sending, Places, NEW t \in line, tx[t].on, Advance(t)
  PROVE  /\ \A u \in line : u # t => tx'[u] = tx[u]
         /\ tx[t].i = Len(Current(t)) + 1 => ~tx'[t].on
         /\ tx[t].i # Len(Current(t)) + 1 =>
              /\ tx'[t].on /\ tx'[t].n = tx[t].n
              /\ WireByte(t).v = HDLC_ESC => tx'[t].i = tx[t].i /\ tx'[t].esc
              /\ WireByte(t).v # HDLC_ESC => tx'[t].i = tx[t].i + 1 /\ ~tx'[t].esc
<1>1. tx \in [line -> Transmits] /\ tx[t] \in Transmits
  BY DEF TypeOK, Transmits
<1>2. tx[t].i \in Nat /\ Len(Current(t)) \in Nat /\ tx[t].i <= Len(Current(t)) + 1
  BY CurrentIs DEF Places
<1> DEFINE o == tx[t]
           new == IF o.i > Len(Current(t)) THEN Idle
                  ELSE IF WireByte(t).v = HDLC_ESC THEN [o EXCEPT !.esc = TRUE]
                  ELSE [on |-> TRUE, n |-> o.n, i |-> o.i + 1, esc |-> FALSE]
<1>3. tx' = [tx EXCEPT ![t] = new]
  BY DEF Advance
<1>4. tx'[t] = new /\ \A u \in line : u # t => tx'[u] = tx[u]
  <2> HIDE DEF new
  <2> QED BY <1>1, <1>3
<1>5. CASE o.i = Len(Current(t)) + 1
  <2>1. tx'[t] = Idle
    BY <1>2, <1>4, <1>5
  <2>2. ~tx'[t].on
    BY <2>1 DEF Idle
  <2> QED BY <1>4, <1>5, <2>2
<1>6. CASE o.i # Len(Current(t)) + 1
  <2>1. ~(o.i > Len(Current(t)))
    BY <1>2, <1>6
  <2>2. CASE WireByte(t).v = HDLC_ESC
    <3>1. tx'[t] = [o EXCEPT !.esc = TRUE]
      BY <1>4, <2>1, <2>2, Zenon
    <3>2. tx'[t].on = o.on /\ tx'[t].n = o.n /\ tx'[t].i = o.i /\ tx'[t].esc = TRUE
      BY <1>1, <3>1, Zenon DEF Transmits
    <3> QED BY <1>4, <1>6, <2>2, <3>2, Zenon
  <2>3. CASE WireByte(t).v # HDLC_ESC
    <3>1. tx'[t] = [on |-> TRUE, n |-> o.n, i |-> o.i + 1, esc |-> FALSE]
      BY <1>4, <2>1, <2>3, Zenon
    <3>2. tx'[t].on = TRUE /\ tx'[t].n = o.n /\ tx'[t].i = o.i + 1 /\ tx'[t].esc = FALSE
      BY <3>1
    <3> QED BY <1>4, <1>6, <2>3, <3>2, Zenon
  <2> QED BY <2>2, <2>3
<1> QED BY <1>5, <1>6

(* What a byte does to the decoder.                                        *)
LEMMA DecodeIs ==
  ASSUME TypeOK, LineInv, NEW b \in Bytes, hdlc_rx_input_byte(b)
  PROVE  /\ got \subseteq got'
         /\ b.v = HDLC_FRAME =>
              /\ drv'.rx_buffer = <<>> /\ drv'.crc = <<>> /\ ~drv'.over
              /\ drv'.next_escaped <=> drv.next_escaped
              /\ drv.rx_buffer # <<>> /\ hdlc_process_frame(drv) =>
                   [n |-> wire.last, block |-> drv.rx_buffer, over |-> drv.over] \in got'
         /\ b.v = HDLC_ESC =>
              /\ drv'.rx_buffer = drv.rx_buffer /\ drv'.crc = drv.crc
              /\ drv'.over <=> drv.over
              /\ drv'.next_escaped
         /\ b.v \notin {HDLC_FRAME, HDLC_ESC} =>
              /\ ~drv'.next_escaped /\ drv'.rx_buffer # <<>>
              /\ Len(drv.rx_buffer) < MaxBlock =>
                   /\ drv'.over <=> drv.over
                   /\ drv'.rx_buffer = Append(drv.rx_buffer,
                        IF drv.next_escaped THEN [b EXCEPT !.v = Xor20(b.v)] ELSE b)
<1>1. drv \in Drivers /\ drv.rx_buffer \in Seq(Bytes) /\ Len(drv.rx_buffer) \in Nat
  BY DEF TypeOK, Drivers
<1>2. HDLC_FRAME # HDLC_ESC
  BY DEF HDLC_FRAME, HDLC_ESC
<1>3. CASE b.v = HDLC_FRAME
  <2>1. /\ drv' = IF drv.rx_buffer # <<>> THEN end_of_frame(drv) ELSE drv
        /\ got' = IF drv.rx_buffer # <<>> /\ hdlc_process_frame(drv)
                  THEN got \cup {[n |-> wire.last, block |-> drv.rx_buffer, over |-> drv.over]}
                  ELSE got
    BY <1>2, <1>3, Zenon DEF hdlc_rx_input_byte
  <2>2. /\ drv'.rx_buffer = <<>> /\ drv'.crc = <<>> /\ ~drv'.over
        /\ drv'.next_escaped = drv.next_escaped
    <3>1. CASE drv.rx_buffer = <<>>
      BY <2>1, <3>1, Zenon DEF LineInv
    <3>2. CASE drv.rx_buffer # <<>>
      <4>1. drv' = [drv EXCEPT !.crc = <<>>, !.rx_buffer = <<>>, !.over = FALSE]
        BY <2>1, <3>2, Zenon DEF end_of_frame
      <4> QED BY <1>1, <4>1, Zenon DEF Drivers
    <3> QED BY <3>1, <3>2
  <2>3. /\ got \subseteq got'
        /\ drv.rx_buffer # <<>> /\ hdlc_process_frame(drv) =>
             [n |-> wire.last, block |-> drv.rx_buffer, over |-> drv.over] \in got'
    BY <2>1, Zenon
  <2> QED BY <1>2, <1>3, <2>2, <2>3, Zenon
<1>4. CASE b.v = HDLC_ESC
  <2>1. drv' = [drv EXCEPT !.next_escaped = TRUE] /\ got' = got
    BY <1>2, <1>4, Zenon DEF hdlc_rx_input_byte
  <2>2. /\ drv'.rx_buffer = drv.rx_buffer /\ drv'.crc = drv.crc /\ drv'.over = drv.over
        /\ drv'.next_escaped = TRUE
    BY <1>1, <2>1, Zenon DEF Drivers
  <2> QED BY <1>2, <1>4, <2>1, <2>2, Zenon
<1>5. CASE b.v \notin {HDLC_FRAME, HDLC_ESC}
  <2>1. PICK c : c = IF drv.next_escaped THEN [b EXCEPT !.v = Xor20(b.v)] ELSE b
    OBVIOUS
  <2>2. PICK x : x = [drv EXCEPT !.next_escaped = FALSE, !.crc = Append(@, c)]
    OBVIOUS
  <2>3. drv' = hdlc_save_byte(x, c) /\ got' = got
    BY <1>5, <2>1, <2>2, Zenon DEF hdlc_rx_input_byte
  <2>4. /\ x.next_escaped = FALSE /\ x.rx_buffer = drv.rx_buffer /\ x.over = drv.over
        /\ DOMAIN x = {"crc", "next_escaped", "rx_buffer", "over"}
    BY <1>1, <2>2, Zenon DEF Drivers
  <2>5. CASE Len(drv.rx_buffer) < MaxBlock
    <3>1. ~(Len(x.rx_buffer) >= MaxBlock)
      BY <1>1, <2>4, <2>5, ConstantsAssumption
    <3>2. drv' = [x EXCEPT !.rx_buffer = Append(@, c)]
      BY <2>3, <3>1, Zenon DEF hdlc_save_byte
    <3>3. /\ drv'.next_escaped = FALSE /\ drv'.over = drv.over
          /\ drv'.rx_buffer = Append(drv.rx_buffer, c)
      BY <2>4, <3>2, Zenon
    <3>4. Append(drv.rx_buffer, c) # <<>>
      BY <1>1
    <3> QED BY <1>5, <2>1, <2>3, <3>3, <3>4, Zenon
  <2>6. CASE ~(Len(drv.rx_buffer) < MaxBlock)
    <3>1. Len(x.rx_buffer) >= MaxBlock
      BY <1>1, <2>4, <2>6, ConstantsAssumption
    <3>2. drv' = [x EXCEPT !.crc = <<>>, !.rx_buffer = <<c>>, !.over = TRUE]
      BY <2>3, <3>1, Zenon DEF hdlc_save_byte
    <3>3. drv'.next_escaped = FALSE /\ drv'.rx_buffer = <<c>>
      BY <2>4, <3>2, Zenon
    <3>4. <<c>> # <<>>
      OBVIOUS
    <3> QED BY <1>5, <2>3, <2>6, <3>3, <3>4, Zenon
  <2> QED BY <2>5, <2>6
<1> QED BY <1>3, <1>4, <1>5

(* The priorities of the senders are numbers.                              *)
LEMMA PriorityIs ==
  ASSUME TypeOK, NEW t \in line
  PROVE  Priority[t] \in Nat
<1>1. DOMAIN Priority = {"host", "wq", "rx", "disc", "log"}
  BY DEF Priority
<1>2. t \in DOMAIN Priority
  <2>1. line = {"host"} \/ line \subseteq DOMAIN Priority \ {"host"}
    BY ConstantsAssumption DEF TypeOK
  <2> QED BY <1>1, <2>1
<1> QED BY <1>1, <1>2 DEF Priority

(* The history of a send only gets worse.                                  *)
LEMMA RecordKeeps ==
  ASSUME TypeOK, NEW t \in line, NEW kept \in BOOLEAN, NEW r, r = Record(t, kept),
         NEW m \in 1..Len(sent)
  PROVE  /\ r[m].block = sent[m].block /\ r[m].special = sent[m].special
         /\ r[m].kept => sent[m].kept
         /\ sent[m].cut => r[m].cut
         /\ m # tx[t].n \/ ~Begins(t) => r[m].begin = sent[m].begin
<1>1. /\ r[m].block = sent[m].block /\ r[m].special = sent[m].special
      /\ m = tx[t].n => /\ r[m].kept <=> sent[m].kept /\ kept
                        /\ r[m].cut <=> sent[m].cut
                        /\ r[m].begin = IF Begins(t) THEN wire ELSE sent[m].begin
      /\ m # tx[t].n => /\ r[m].kept <=> sent[m].kept
                        /\ r[m].cut <=> \/ sent[m].cut
                                        \/ \E u \in line : tx[u].on /\ tx[u].n = m /\ Begun(u)
                        /\ r[m].begin = sent[m].begin
  BY RecordIs
<1>2. CASE m = tx[t].n
  BY <1>1, <1>2, Zenon
<1>3. CASE m # tx[t].n
  BY <1>1, <1>3, Zenon
<1> QED BY <1>2, <1>3

(* A byte that t sends, which arrives or is lost.                          *)
ByteStep(t, kept) ==
  /\ hdlc_send_callback(t, kept)
  /\ kept => hdlc_rx_input_byte(WireByte(t))
  /\ ~kept => UNCHANGED <<drv, got>>

(* What a byte leaves as it is.                                            *)
LEMMA StepIs ==
  ASSUME FrameInv, DamageInv, NEW t \in line, NEW kept \in BOOLEAN, ByteStep(t, kept)
  PROVE  /\ tx[t].on /\ MayRun(t) /\ line' = line
         /\ Len(sent') = Len(sent) /\ DOMAIN sent = 1..Len(sent) /\ DOMAIN sent' = 1..Len(sent)
         /\ Len(sent) \in Nat
         /\ \A m \in 1..Len(sent) : sent'[m].block = sent[m].block
         /\ \A m \in 0..Len(sent) : Unharmed(m)' => Unharmed(m)
         /\ \A u \in line : tx'[u].on => /\ tx[u].on /\ tx'[u].n = tx[u].n
                                         /\ Current(u)' = Current(u)
                                         /\ Special(u)' = Special(u)
<1>1. TypeOK /\ Sending
  BY DEF FrameInv
<1>2. /\ tx[t].on /\ MayRun(t) /\ line' = line /\ sent' = Record(t, kept) /\ Advance(t)
  BY DEF ByteStep, hdlc_send_callback
<1>3. /\ Len(sent) \in Nat /\ DOMAIN sent = 1..Len(sent)
  BY <1>1, SentType
<1>4. /\ Len(sent') = Len(sent) /\ DOMAIN sent' = 1..Len(sent)
      /\ \A m \in 1..Len(sent) : /\ sent'[m].block = sent[m].block
                                 /\ sent'[m].special = sent[m].special
                                 /\ sent'[m].kept => sent[m].kept
  <2>1. PICK r : r = sent' /\ r = Record(t, kept)
    BY <1>2
  <2>2. Len(r) = Len(sent) /\ DOMAIN r = 1..Len(sent)
    BY <1>1, <2>1, RecordIs
  <2>3. \A m \in 1..Len(sent) : /\ r[m].block = sent[m].block
                                /\ r[m].special = sent[m].special
                                /\ r[m].kept => sent[m].kept
    BY <1>1, <2>1, RecordKeeps, Zenon
  <2> QED BY <2>1, <2>2, <2>3
<1>5. \A m \in 0..Len(sent) : Unharmed(m)' => Unharmed(m)
  <2>1. \A m \in 0..Len(sent) : m = 0 \/ m \in 1..Len(sent)
    BY <1>3
  <2> QED BY <1>4, <2>1, Zenon DEF Unharmed
<1>6. \A u \in line : tx'[u].on => tx[u].on /\ tx'[u].n = tx[u].n
  BY <1>1, <1>2, AdvanceType, Zenon
<1>7. ASSUME NEW u \in line, tx'[u].on
      PROVE  Current(u)' = Current(u) /\ Special(u)' = Special(u)
  <2>1. tx[u].on /\ tx'[u].n = tx[u].n
    BY <1>6, <1>7
  <2>2. tx[u].n \in 1..Len(sent)
    BY <1>1, <2>1 DEF Sending
  <2>3. /\ sent'[tx'[u].n].block = sent[tx[u].n].block
        /\ sent'[tx'[u].n].special = sent[tx[u].n].special
    BY <1>4, <2>1, <2>2
  <2> QED BY <2>3, Zenon DEF Current, Coded, Special
<1> QED BY <1>2, <1>3, <1>4, <1>5, <1>6, <1>7

(* Nothing repairs a send: what is good now was good before.               *)
LEMMA GoodBefore ==
  ASSUME FrameInv, DamageInv, NEW t \in line, NEW kept \in BOOLEAN, ByteStep(t, kept),
         NEW m \in 1..Len(sent), Good(m)', m # tx[t].n \/ ~Begins(t)
  PROVE  Good(m)
<1>1. TypeOK /\ Marked
  BY DEF FrameInv, DamageInv
<1>2. PICK r : r = sent' /\ r = Record(t, kept)
  BY DEF ByteStep, hdlc_send_callback
<1>3. /\ r[m].kept => sent[m].kept
      /\ sent[m].cut => r[m].cut
      /\ r[m].begin = sent[m].begin
  BY <1>1, <1>2, RecordKeeps, Zenon
<1>4. /\ sent'[m].kept /\ ~sent'[m].cut
      /\ sent'[m].begin.delim /\ ~sent'[m].begin.esc
      /\ sent'[m].begin.last = 0 \/ sent'[sent'[m].begin.last].kept
      /\ sent'[m].begin.data = 0 \/ sent'[sent'[m].begin.data].kept
  BY Zenon DEF Good, Unharmed
<1>5. PICK l, d : l = sent[m].begin.last /\ d = sent[m].begin.data
  OBVIOUS
<1>6. Unharmed(l)' /\ Unharmed(d)'
  BY <1>2, <1>3, <1>4, <1>5 DEF Unharmed
<1>7. l \in 0..Len(sent) /\ d \in 0..Len(sent)
  BY <1>1, <1>5 DEF Marked, KnownMark
<1>8. Unharmed(l) /\ Unharmed(d)
  BY <1>6, <1>7, StepIs
<1> QED BY <1>2, <1>3, <1>4, <1>5, <1>8, Zenon DEF Good

(* What a byte does to the history of its own send and of the others.      *)
LEMMA StepRecords ==
  ASSUME FrameInv, DamageInv, NEW t \in line, NEW kept \in BOOLEAN, ByteStep(t, kept),
         NEW n, n = tx[t].n
  PROVE  /\ n \in 1..Len(sent)
         /\ sent'[n].kept <=> sent[n].kept /\ kept
         /\ sent'[n].begin = IF Begins(t) THEN wire ELSE sent[n].begin
         /\ \A u \in line : u # t /\ tx[u].on /\ Begun(u) => sent'[tx[u].n].cut
<1>1. TypeOK /\ Sending /\ Places
  BY DEF FrameInv, DamageInv
<1>2. tx[t].on /\ sent' = Record(t, kept)
  BY DEF ByteStep, hdlc_send_callback
<1>3. PICK r : r = sent' /\ r = Record(t, kept)
  BY <1>2
<1>4. n \in 1..Len(sent)
  BY <1>1, <1>2 DEF Sending
<1>5. /\ r[n].kept <=> sent[n].kept /\ kept
      /\ r[n].begin = IF Begins(t) THEN wire ELSE sent[n].begin
  BY <1>1, <1>3, <1>4, RecordIs
<1>6. ASSUME NEW u \in line, u # t, tx[u].on, Begun(u)
      PROVE  r[tx[u].n].cut
  <2>1. PICK m : m = tx[u].n
    OBVIOUS
  <2>2. m \in 1..Len(sent) /\ m # tx[t].n
    BY <1>1, <1>2, <1>6, <2>1 DEF Sending, Places
  <2>3. r[m].cut <=> \/ sent[m].cut
                     \/ \E w \in line : tx[w].on /\ tx[w].n = m /\ Begun(w)
    BY <1>1, <1>3, <2>2, RecordIs
  <2> QED BY <1>6, <2>1, <2>3, Zenon
<1> QED BY <1>3, <1>4, <1>5, <1>6, Zenon

(* What a byte does to the history of the line.                            *)
LEMMA StepWire ==
  ASSUME FrameInv, DamageInv, NEW t \in line, NEW kept \in BOOLEAN, ByteStep(t, kept)
  PROVE  /\ wire' \in Marks /\ wire'.last = tx[t].n
         /\ WireByte(t).v = HDLC_FRAME =>
              wire'.delim /\ wire'.data = wire.data /\ (wire'.esc <=> wire.esc)
         /\ WireByte(t).v # HDLC_FRAME =>
              ~wire'.delim /\ wire'.data = tx[t].n /\ (wire'.esc <=> WireByte(t).v = HDLC_ESC)
<1>1. TypeOK /\ Sending
  BY DEF FrameInv
<1>2. tx[t].on /\ wire' = OnWire(t)
  BY DEF ByteStep, hdlc_send_callback
<1>3. PICK w : w = wire' /\ w = OnWire(t)
  BY <1>2
<1>4. /\ w \in Marks /\ w.last = tx[t].n
      /\ WireByte(t).v = HDLC_FRAME =>
           w.delim /\ w.data = wire.data /\ (w.esc <=> wire.esc)
      /\ WireByte(t).v # HDLC_FRAME =>
           ~w.delim /\ w.data = tx[t].n /\ (w.esc <=> WireByte(t).v = HDLC_ESC)
  BY <1>1, <1>2, <1>3, OnWireIs, Zenon
<1> QED BY <1>3, <1>4, Zenon

(* The places of the senders.                                              *)
LEMMA StepPlaces ==
  ASSUME FrameInv, DamageInv, NEW t \in line, NEW kept \in BOOLEAN, ByteStep(t, kept)
  PROVE  Places'
<1>1. TypeOK /\ Sending /\ Places /\ tx[t].on /\ Advance(t) /\ line' = line
  BY DEF FrameInv, DamageInv, ByteStep, hdlc_send_callback
<1>2. \A u \in line : tx'[u].on => /\ tx[u].on /\ tx'[u].n = tx[u].n
                                   /\ Current(u)' = Current(u)
                                   /\ Special(u)' = Special(u)
  BY StepIs
<1>3. ASSUME NEW u \in line, tx'[u].on
      PROVE  /\ tx'[u].i <= Len(Current(u)) + 1
             /\ tx'[u].esc => /\ tx'[u].i \in 1..Len(Current(u))
                              /\ NeedsEscape(Current(u)[tx'[u].i].v, Special(u))
  <2>1. CASE u # t
    <3>1. tx'[u] = tx[u]
      BY <1>1, <2>1, AdvanceIs
    <3> QED BY <1>1, <1>2, <1>3, <3>1 DEF Places
  <2>2. CASE u = t
    <3>1. /\ tx[t].i \in Nat /\ Len(Current(t)) \in Nat /\ tx[t].i <= Len(Current(t)) + 1
      BY <1>1, CurrentIs DEF Places
    <3>2. tx[t].i # Len(Current(t)) + 1
      BY <1>1, <1>3, <2>2, AdvanceIs
    <3>3. CASE WireByte(t).v = HDLC_ESC
      <4>1. tx'[t].i = tx[t].i
        BY <1>1, <3>2, <3>3, AdvanceIs
      <4>2. HDLC_ESC # HDLC_FRAME
        BY DEF HDLC_FRAME, HDLC_ESC
      <4>3. /\ tx[t].i \in 1..Len(Current(t))
            /\ NeedsEscape(Current(t)[tx[t].i].v, Special(t))
        BY <1>1, <3>3, <4>2, WireByteIs
      <4> QED BY <2>2, <3>1, <4>1, <4>3
    <3>4. CASE WireByte(t).v # HDLC_ESC
      <4>1. tx'[t].i = tx[t].i + 1 /\ ~tx'[t].esc
        BY <1>1, <3>2, <3>4, AdvanceIs
      <4> QED BY <2>2, <3>1, <3>2, <4>1
    <3> QED BY <3>3, <3>4
  <2> QED BY <2>1, <2>2
<1>4. \A u, w \in line : tx'[u].on /\ tx'[w].on /\ u # w => tx'[u].n # tx'[w].n
  BY <1>1, <1>2 DEF Places
<1> QED BY <1>1, <1>2, <1>3, <1>4 DEF Places

(* The history is about sends that were made.                              *)
LEMMA StepMarked ==
  ASSUME FrameInv, DamageInv, NEW t \in line, NEW kept \in BOOLEAN, ByteStep(t, kept)
  PROVE  Marked'
<1>1. TypeOK /\ Marked /\ Len(sent') = Len(sent) /\ Len(sent) \in Nat
  BY StepIs DEF FrameInv, DamageInv
<1>2. PICK n : n = tx[t].n
  OBVIOUS
<1>3. /\ n \in 1..Len(sent)
      /\ sent'[n].begin = IF Begins(t) THEN wire ELSE sent[n].begin
  BY <1>2, StepRecords, Zenon
<1>4. KnownMark(wire)'
  <2>1. wire'.last = n /\ (wire'.data = wire.data \/ wire'.data = n)
    BY <1>2, StepWire, Zenon
  <2>2. wire.data \in 0..Len(sent) /\ n \in 0..Len(sent)
    BY <1>1, <1>3 DEF Marked, KnownMark
  <2> QED BY <1>1, <2>1, <2>2 DEF KnownMark
<1>5. ASSUME NEW m \in 1..Len(sent) PROVE KnownMark(sent[m].begin)'
  <2>1. sent'[m].begin = wire \/ sent'[m].begin = sent[m].begin
    <3>1. CASE m = n
      BY <1>3, <3>1
    <3>2. CASE m # n
      <4>1. PICK r : r = sent' /\ r = Record(t, kept)
        BY DEF ByteStep, hdlc_send_callback
      <4>2. r[m].begin = sent[m].begin
        BY <1>1, <1>2, <3>2, <4>1, RecordKeeps
      <4> QED BY <4>1, <4>2
    <3> QED BY <3>1, <3>2
  <2>2. KnownMark(wire) /\ KnownMark(sent[m].begin)
    BY <1>1 DEF Marked
  <2> QED BY <1>1, <2>1, <2>2 DEF KnownMark
<1> QED BY <1>1, <1>4, <1>5 DEF Marked

(* The decoder and the last bytes.                                         *)
LEMMA StepLine ==
  ASSUME FrameInv, DamageInv, NEW t \in line, NEW kept \in BOOLEAN, ByteStep(t, kept)
  PROVE  LineInv'
<1>1. TypeOK /\ Sending /\ LineInv /\ Marked /\ tx[t].on
  BY DEF FrameInv, DamageInv, ByteStep, hdlc_send_callback
<1>2. PICK n : n = tx[t].n
  OBVIOUS
<1>3. n \in 1..Len(sent) /\ (sent'[n].kept <=> sent[n].kept /\ kept)
  BY <1>2, StepRecords, Zenon
<1>4. n # 0
  BY <1>3
<1>5. PICK b \in Bytes : b = WireByte(t)
  BY <1>1, WireByteType
<1>6. HDLC_ESC # HDLC_FRAME
  BY DEF HDLC_FRAME, HDLC_ESC
<1>7. /\ b.v = HDLC_FRAME => wire'.delim /\ wire'.data = wire.data /\ (wire'.esc <=> wire.esc)
      /\ b.v # HDLC_FRAME =>
           ~wire'.delim /\ wire'.data = n /\ (wire'.esc <=> b.v = HDLC_ESC)
      /\ wire'.last = n
  BY <1>2, <1>5, StepWire, Zenon
<1>8. Unharmed(wire.data)' /\ wire'.data = wire.data => Unharmed(wire.data)
  <2>1. PICK d : d = wire.data
    OBVIOUS
  <2>2. d \in 0..Len(sent)
    BY <1>1, <2>1 DEF Marked, KnownMark
  <2>3. Unharmed(d)' => Unharmed(d)
    BY <2>2, StepIs
  <2> QED BY <2>1, <2>3 DEF Unharmed
<1>9. CASE kept
  <2>1. hdlc_rx_input_byte(b)
    BY <1>5, <1>9 DEF ByteStep
  <2>2. /\ b.v = HDLC_FRAME =>
             /\ drv'.rx_buffer = <<>> /\ drv'.crc = <<>> /\ ~drv'.over
             /\ drv'.next_escaped <=> drv.next_escaped
        /\ b.v = HDLC_ESC =>
             /\ drv'.rx_buffer = drv.rx_buffer /\ drv'.crc = drv.crc
             /\ drv'.over <=> drv.over
             /\ drv'.next_escaped
        /\ b.v \notin {HDLC_FRAME, HDLC_ESC} => ~drv'.next_escaped /\ drv'.rx_buffer # <<>>
    BY <1>1, <2>1, DecodeIs, Zenon
  <2>3. drv'.rx_buffer = <<>> => drv'.crc = <<>> /\ ~drv'.over
    BY <1>1, <2>2, Zenon DEF LineInv
  <2>4. wire'.delim => drv'.rx_buffer = <<>>
    BY <1>7, <2>2, Zenon
  <2>5. Unharmed(wire.data)' => (drv'.next_escaped <=> wire'.esc)
    BY <1>1, <1>6, <1>7, <1>8, <2>2, Zenon DEF LineInv
  <2> QED BY <2>3, <2>4, <2>5, Zenon DEF LineInv
<1>10. CASE ~kept
  <2>1. drv' = drv
    BY <1>10 DEF ByteStep
  <2>2. ~sent'[n].kept
    BY <1>3, <1>10, Zenon
  <2>3. ~Unharmed(wire.last)'
    BY <1>4, <1>7, <2>2, Zenon DEF Unharmed
  <2>4. b.v # HDLC_FRAME => ~Unharmed(wire.data)'
    BY <1>4, <1>7, <2>2, Zenon DEF Unharmed
  <2>5. Unharmed(wire.data)' => (drv'.next_escaped <=> wire'.esc)
    BY <1>1, <1>7, <1>8, <2>1, <2>4, Zenon DEF LineInv
  <2> QED BY <1>1, <2>1, <2>3, <2>5, Zenon DEF LineInv
<1> QED BY <1>9, <1>10

(* Frames begin behind delimiters where preemption nests.                  *)
LEMMA StepTurn ==
  ASSUME FrameInv, DamageInv, NEW t \in line, NEW kept \in BOOLEAN, ByteStep(t, kept)
  PROVE  TurnInv'
<1>1. /\ TypeOK /\ Sending /\ Places /\ TurnInv /\ tx[t].on /\ Advance(t) /\ MayRun(t)
      /\ line' = line
  BY DEF FrameInv, DamageInv, ByteStep, hdlc_send_callback
<1> SUFFICES ASSUME Nested
             PROVE  /\ \A u \in line : tx'[u].on /\ Begins(u)' /\ ~wire'.delim =>
                         \E w \in line : tx'[w].on /\ Priority[w] < Priority[u]
                    /\ \A m \in 1..Len(sent) : sent'[m].begin.delim
  <2>1. Len(sent') = Len(sent) /\ (Nested' <=> Nested)
    BY <1>1, StepIs DEF Nested
  <2> QED BY <1>1, <2>1 DEF TurnInv
<1>2. ASSUME NEW u \in line, tx'[u].on, Begins(u)', ~wire'.delim
      PROVE  tx'[t].on /\ Priority[t] < Priority[u]
  <2>1. WireByte(t).v # HDLC_FRAME
    BY <1>2, StepWire, Zenon
  <2>2. tx[t].i \in 1..Len(Current(t)) /\ Len(Current(t)) \in Nat
    BY <1>1, <2>1, WireByteIs, CurrentIs
  <2>3. tx[t].i # Len(Current(t)) + 1 /\ tx[t].i + 1 # 1
    BY <2>2
  <2>4. /\ tx'[t].on
        /\ tx'[t].esc \/ tx'[t].i = tx[t].i + 1
    BY <1>1, <2>3, AdvanceIs, Zenon
  <2>5. u # t
    BY <1>2, <2>3, <2>4 DEF Begins
  <2>6. tx[u].on /\ Priority[t] <= Priority[u]
    BY <1>1, <1>2, StepIs DEF MayRun
  <2>7. Priority[t] # Priority[u]
    BY <2>5 DEF Nested
  <2>8. Priority[t] \in Nat /\ Priority[u] \in Nat
    BY <1>1, PriorityIs
  <2> QED BY <2>4, <2>6, <2>7, <2>8
<1>3. ASSUME NEW m \in 1..Len(sent) PROVE sent'[m].begin.delim
  <2>1. sent[m].begin.delim
    BY <1>1 DEF TurnInv
  <2>2. CASE m = tx[t].n /\ Begins(t)
    <3>1. sent'[m].begin = wire
      BY <2>2, StepRecords
    <3>2. wire.delim
      <4>1. SUFFICES ASSUME ~wire.delim PROVE FALSE
        OBVIOUS
      <4>2. PICK u \in line : tx[u].on /\ Priority[u] < Priority[t]
        BY <1>1, <2>2, <4>1 DEF TurnInv
      <4>3. Priority[t] <= Priority[u]
        BY <1>1, <4>2 DEF MayRun
      <4>4. Priority[t] \in Nat /\ Priority[u] \in Nat
        BY <1>1, PriorityIs
      <4> QED BY <4>2, <4>3, <4>4
    <3> QED BY <3>1, <3>2
  <2>3. CASE ~(m = tx[t].n /\ Begins(t))
    <3>1. PICK r : r = sent' /\ r = Record(t, kept)
      BY DEF ByteStep, hdlc_send_callback
    <3>2. r[m].begin = sent[m].begin
      BY <1>1, <2>3, <3>1, RecordKeeps
    <3> QED BY <2>1, <3>1, <3>2
  <2> QED BY <2>2, <2>3
<1> QED BY <1>1, <1>2, <1>3

(* Before a byte of a send to which nothing happened, this one included:   *)
(* the block holds what was sent of it, and the decoder expects what the   *)
(* sender sends.                                                           *)
LEMMA BeforeByte ==
  ASSUME FrameInv, DamageInv, NEW t \in line, NEW kept \in BOOLEAN, ByteStep(t, kept),
         NEW n, n = tx[t].n, tx[t].i > 0, Good(n)', Len(Current(t)) <= MaxBlock
  PROVE  /\ kept
         /\ Holds(Current(t), tx[t].i - 1)
         /\ drv.next_escaped <=> tx[t].esc
         /\ Begun(t) => wire.last = n
<1>1. TypeOK /\ Sending /\ LineInv /\ Marked /\ ProgressInv /\ tx[t].on
  BY DEF FrameInv, DamageInv, ByteStep, hdlc_send_callback
<1>2. tx[t].i \in Nat
  BY <1>1, CurrentIs
<1>3. /\ n \in 1..Len(sent)
      /\ sent'[n].kept <=> sent[n].kept /\ kept
      /\ sent'[n].begin = IF Begins(t) THEN wire ELSE sent[n].begin
  BY StepRecords, Zenon
<1>4. /\ sent'[n].kept /\ ~sent'[n].cut
      /\ sent'[n].begin.delim /\ ~sent'[n].begin.esc
      /\ sent'[n].begin.last = 0 \/ sent'[sent'[n].begin.last].kept
      /\ sent'[n].begin.data = 0 \/ sent'[sent'[n].begin.data].kept
  BY Zenon DEF Good, Unharmed
<1>5. kept /\ sent[n].kept
  BY <1>3, <1>4, Zenon
<1>6. CASE Begins(t)
  <2>1. PICK l, d : l = wire.last /\ d = wire.data
    OBVIOUS
  <2>2. /\ wire.delim /\ ~wire.esc
        /\ l = 0 \/ sent'[l].kept
        /\ d = 0 \/ sent'[d].kept
    BY <1>3, <1>4, <1>6, <2>1
  <2>3. l \in 0..Len(sent) /\ d \in 0..Len(sent)
    BY <1>1, <2>1 DEF Marked, KnownMark
  <2>4. Unharmed(l) /\ Unharmed(d)
    <3>1. Unharmed(l)' /\ Unharmed(d)'
      BY <2>2 DEF Unharmed
    <3> QED BY <2>3, <3>1, StepIs
  <2>5. drv.rx_buffer = <<>> /\ ~drv.over /\ ~drv.next_escaped
    BY <1>1, <2>1, <2>2, <2>4, Zenon DEF LineInv
  <2>6. tx[t].i = 1 /\ ~tx[t].esc
    BY <1>6 DEF Begins
  <2>7. Holds(Current(t), tx[t].i - 1)
    BY <2>5, <2>6 DEF Holds
  <2>8. ~Begun(t)
    BY <2>6 DEF Begun
  <2> QED BY <1>5, <2>5, <2>6, <2>7, <2>8, Zenon
<1>7. CASE ~Begins(t)
  <2>1. Begun(t)
    BY <1>2, <1>7 DEF Begins, Begun
  <2>2. Good(n)
    BY <1>3, <1>7, GoodBefore
  <2>3. InFrame(t)
    BY <1>1, <2>1 DEF ProgressInv
  <2>4. Holds(Current(t), tx[t].i - 1)
    BY <2>2, <2>3, Zenon DEF InFrame
  <2>5. wire.last = n /\ wire.data = n /\ (wire.esc <=> tx[t].esc)
    BY <2>2, <2>3, Zenon DEF InFrame, Good
  <2>6. drv.next_escaped <=> wire.esc
    BY <1>1, <1>5, <2>5, Zenon DEF LineInv, Unharmed
  <2> QED BY <1>5, <2>4, <2>5, <2>6, Zenon
<1> QED BY <1>6, <1>7

(* The frames that are being sent.                                         *)
LEMMA StepProgress ==
  ASSUME FrameInv, DamageInv, NEW t \in line, NEW kept \in BOOLEAN, ByteStep(t, kept)
  PROVE  ProgressInv'
<1>1. /\ TypeOK /\ Sending /\ Places /\ LineInv /\ tx[t].on /\ Advance(t) /\ line' = line
  BY DEF FrameInv, DamageInv, ByteStep, hdlc_send_callback
<1> SUFFICES ASSUME NEW u \in line, tx'[u].on, Begun(u)' PROVE InFrame(u)'
  BY <1>1 DEF ProgressInv
<1>2. tx'[u].n = tx[u].n /\ tx[u].on /\ Current(u)' = Current(u)
  BY StepIs
<1>3. PICK n : n = tx[u].n
  OBVIOUS
<1>4. CASE u # t
  <2>1. tx'[u] = tx[u]
    BY <1>1, <1>4, AdvanceIs
  <2>2. Begun(u)
    BY <2>1 DEF Begun
  <2>3. sent'[n].cut
    BY <1>2, <1>3, <1>4, <2>2, StepRecords
  <2> QED BY <1>2, <1>3, <2>3, Zenon DEF InFrame, Good
<1>5. CASE u = t
  <2> DEFINE i == tx[t].i
             c == Current(t)
  <2>1. i \in Nat /\ c \in Seq(Bytes) /\ Len(c) \in Nat /\ i <= Len(c) + 1
    BY <1>1, CurrentIs DEF Places
  <2>2. i # Len(c) + 1
    BY <1>1, <1>5, AdvanceIs
  <2>3. /\ WireByte(t).v = HDLC_ESC => tx'[t].i = i /\ tx'[t].esc
        /\ WireByte(t).v # HDLC_ESC => tx'[t].i = i + 1 /\ ~tx'[t].esc
    BY <1>1, <2>2, AdvanceIs
  <2>4. i \in 1..Len(c)
    <3>1. SUFFICES ASSUME i \notin 1..Len(c) PROVE FALSE
      OBVIOUS
    <3>2. i = 0
      BY <2>1, <2>2, <3>1
    <3>3. WireByte(t).v = HDLC_FRAME
      BY <1>1, <3>1, WireByteIs
    <3>4. tx'[t].i = 1 /\ ~tx'[t].esc
      BY <2>3, <3>2, <3>3 DEF HDLC_FRAME, HDLC_ESC
    <3> QED BY <1>5, <3>4 DEF Begun
  <2>5. WireByte(t).v # HDLC_FRAME
    BY <1>1, <2>4, WireByteIs DEF HDLC_FRAME, HDLC_ESC
  <2>6. wire'.last = n /\ wire'.data = n /\ (wire'.esc <=> tx'[t].esc)
    BY <1>3, <1>5, <2>3, <2>5, StepWire, Zenon
  <2>7. ASSUME Good(n)', Len(c) <= MaxBlock PROVE Holds(Current(t), tx[t].i - 1)'
    <3>1. /\ kept
          /\ Holds(c, i - 1)
          /\ drv.next_escaped <=> tx[t].esc
      <4>1. i > 0 /\ n = tx[t].n
        BY <1>3, <1>5, <2>4
      <4> QED BY <2>7, <4>1, BeforeByte
    <3>2. PICK b \in Bytes : b = WireByte(t)
      BY <1>1, WireByteType
    <3>3. hdlc_rx_input_byte(b)
      BY <3>1, <3>2 DEF ByteStep
    <3>4. /\ Len(drv.rx_buffer) = i - 1 /\ drv.rx_buffer \in Seq(Bytes)
          /\ \A j \in 1..(i - 1) : drv.rx_buffer[j] = c[j]
          /\ ~drv.over
      BY <1>1, <3>1 DEF Holds, TypeOK
    <3>5. CASE b.v = HDLC_ESC
      <4>1. drv'.rx_buffer = drv.rx_buffer /\ ~drv'.over
        BY <1>1, <3>3, <3>4, <3>5, DecodeIs, Zenon
      <4>2. tx'[t].i = i
        BY <2>3, <3>2, <3>5
      <4> QED BY <1>2, <1>5, <3>4, <4>1, <4>2 DEF Holds
    <3>6. CASE b.v # HDLC_ESC
      <4>1. b.v \notin {HDLC_FRAME, HDLC_ESC}
        BY <2>5, <3>2, <3>6
      <4>2. (IF drv.next_escaped THEN [b EXCEPT !.v = Xor20(b.v)] ELSE b) = c[i]
        <5>1. /\ tx[t].esc => [b EXCEPT !.v = Xor20(b.v)] = c[i]
              /\ ~tx[t].esc => b = c[i]
          BY <1>1, <2>4, <3>2, <4>1, WireByteIs
        <5> QED BY <3>1, <5>1, Zenon
      <4>3. Len(drv.rx_buffer) < MaxBlock
        BY <2>4, <2>7, <3>4, <2>1, ConstantsAssumption
      <4>4. drv'.rx_buffer = Append(drv.rx_buffer, c[i]) /\ ~drv'.over
        BY <1>1, <3>3, <3>4, <4>1, <4>2, <4>3, DecodeIs, Zenon
      <4>5. tx'[t].i = i + 1
        BY <2>3, <3>2, <3>6
      <4>6. PICK s : s = drv'.rx_buffer
        OBVIOUS
      <4>7. Len(s) = i /\ \A j \in 1..i : s[j] = c[j]
        BY <2>1, <2>4, <3>4, <4>4, <4>6
      <4>8. tx'[t].i - 1 = i
        BY <2>1, <4>5
      <4> QED BY <1>2, <1>5, <4>4, <4>6, <4>7, <4>8, Zenon DEF Holds
    <3> QED BY <3>5, <3>6
  <2> QED BY <1>2, <1>3, <1>5, <2>6, <2>7, Zenon DEF InFrame
<1> QED BY <1>4, <1>5

(* A block as it was sent passes the tests of hdlc_process_frame.          *)
LEMMA CodedAccepted ==
  ASSUME TypeOK, DecoderInStep, ~drv.over, NEW b \in Blocks, IsUnnumbered(b[2]),
         drv.rx_buffer = Coded(b)
  PROVE  drv.rx_buffer # <<>> /\ hdlc_process_frame(drv)
<1>0. \A v : Byte(v).v = v
  BY DEF Byte
<1>1. b \in Seq(Values \ CheckValues) /\ Len(b) \in Nat /\ Len(b) >= 2
  BY BlockType
<1>2. PICK c : c = Coded(b)
  OBVIOUS
<1>3. /\ c \in Seq(Bytes)
      /\ Len(c) = Len(b) + 2
      /\ \A j \in 1..Len(b) : c[j] = Byte(b[j])
      /\ c[Len(b) + 1] = [v |-> "lo", of |-> b]
      /\ c[Len(b) + 2] = [v |-> "hi", of |-> b]
  BY <1>2, CodedType, Zenon
<1>4. drv.rx_buffer = c /\ drv.crc = c
  BY <1>2 DEF DecoderInStep
<1>5. Len(c) > 3 /\ Len(c) - 2 = Len(b) /\ c # <<>>
  BY <1>1, <1>3
<1>6. [j \in 1..Len(b) |-> c[j].v] = b
  <2>1. \A j \in 1..Len(b) : c[j].v = b[j]
    BY <1>3, <1>0, Zenon
  <2>2. b = [j \in 1..Len(b) |-> b[j]]
    BY <1>1
  <2> QED BY <2>1, <2>2
<1>7. GoodCrc(c)
  <2>1. Len(c) - 2 >= 0
    BY <1>1, <1>5
  <2> QED BY <1>3, <1>5, <1>6, <2>1, Zenon DEF GoodCrc
<1>8. c[2].v = b[2]
  <2>1. 2 \in 1..Len(b)
    BY <1>1
  <2> QED BY <1>0, <1>3, <2>1, Zenon
<1> QED BY <1>4, <1>5, <1>7, <1>8 DEF hdlc_process_frame

(* A frame that ends now is delivered, and one that ended before stays so. *)
LEMMA StepDamage ==
  ASSUME FrameInv, DamageInv, NEW t \in line, NEW kept \in BOOLEAN, ByteStep(t, kept)
  PROVE  DamageContained'
<1>1. /\ TypeOK /\ Sending /\ DecoderInStep /\ Places /\ LineInv /\ DamageContained
      /\ tx[t].on /\ Advance(t) /\ line' = line
  BY DEF FrameInv, DamageInv, ByteStep, hdlc_send_callback
<1>2. /\ Len(sent') = Len(sent) /\ Len(sent) \in Nat
      /\ DOMAIN sent = 1..Len(sent) /\ DOMAIN sent' = 1..Len(sent)
      /\ Nested' <=> Nested
  BY <1>1, StepIs DEF Nested
<1> SUFFICES ASSUME NEW m \in 1..Len(sent), Finished(m)',
                    sent'[m].kept, ~sent'[m].cut,
                    Nested \/ sent'[m].begin.delim, ~sent'[m].begin.esc,
                    sent'[m].begin.last = 0 \/ sent'[sent'[m].begin.last].kept,
                    sent'[m].begin.data = 0 \/ sent'[sent'[m].begin.data].kept,
                    IsUnnumbered(sent'[m].block[2]),
                    Len(Coded(sent'[m].block)) <= MaxBlock
             PROVE  [n |-> m, block |-> Coded(sent'[m].block), over |-> FALSE] \in got'
  BY <1>2, Zenon DEF DamageContained, Unharmed, Coded
<1>3. PICK b \in Blocks : b = sent[m].block /\ sent'[m].block = b
  BY <1>1, StepIs, SentType DEF Sends
<1>4. IsUnnumbered(b[2]) /\ Len(Coded(b)) <= MaxBlock
  BY <1>3
<1>5. sent'[m].begin.delim
  <2>1. TurnInv'
    BY StepTurn
  <2> QED BY <1>2, <2>1 DEF TurnInv
<1>6. Good(m)'
  BY <1>5, Zenon DEF Good, Unharmed
<1>7. PICK g : g = [n |-> m, block |-> Coded(b), over |-> FALSE]
  OBVIOUS
<1> SUFFICES g \in got'
  BY <1>3, <1>7
<1>8. \A u \in line : tx'[u].on => tx'[u].n # m
  BY <1>1 DEF Finished
<1>9. WireByte(t) \in Bytes
  BY <1>1, WireByteType
<1>10. CASE m = tx[t].n
  <2>1. ~tx'[t].on
    BY <1>1, <1>8, <1>10, AdvanceIs
  <2>2. tx[t].i = Len(Current(t)) + 1
    BY <1>1, <2>1, AdvanceIs
  <2>3. PICK c : c = Current(t) /\ c = Coded(b)
    BY <1>3, <1>10 DEF Current
  <2>4. c \in Seq(Bytes) /\ Len(c) \in Nat /\ Len(c) > 3
    BY <1>1, <2>3, CurrentIs
  <2>5. tx[t].i - 1 = Len(c) /\ tx[t].i > 0 /\ Begun(t) /\ tx[t].i \notin 1..Len(c)
    BY <2>2, <2>3, <2>4 DEF Begun
  <2>6. kept /\ Holds(c, Len(c)) /\ wire.last = m
    BY <1>4, <1>6, <1>10, <2>3, <2>5, BeforeByte
  <2>7. drv.rx_buffer = c /\ ~drv.over
    <3>1. drv.rx_buffer \in Seq(Bytes)
      BY <1>1 DEF TypeOK
    <3> QED BY <2>4, <2>6, <3>1, SeqEqual DEF Holds
  <2>8. drv.over = FALSE
    <3>1. drv.over \in BOOLEAN
      BY <1>1 DEF TypeOK
    <3> QED BY <2>7, <3>1, Zenon
  <2>9. drv.rx_buffer # <<>> /\ hdlc_process_frame(drv)
    BY <1>1, <1>4, <2>3, <2>7, CodedAccepted
  <2>10. WireByte(t).v = HDLC_FRAME /\ hdlc_rx_input_byte(WireByte(t))
    BY <1>1, <2>3, <2>5, <2>6, WireByteIs DEF ByteStep
  <2>11. [n |-> wire.last, block |-> drv.rx_buffer, over |-> drv.over] \in got'
    BY <1>1, <1>9, <2>9, <2>10, DecodeIs, Zenon
  <2> QED BY <1>7, <2>3, <2>6, <2>7, <2>8, <2>11
<1>11. CASE m # tx[t].n
  <2>1. Finished(m)
    BY <1>1, <1>2, <1>8, <1>11, AdvanceIs DEF Finished
  <2>2. Good(m)
    BY <1>6, <1>11, GoodBefore
  <2>3. g \in got
    BY <1>1, <1>2, <1>3, <1>4, <1>7, <2>1, <2>2, Zenon DEF DamageContained, Good
  <2>4. got \subseteq got'
    <3>1. CASE kept
      BY <1>1, <1>9, <3>1, DecodeIs, Zenon DEF ByteStep
    <3>2. CASE ~kept
      BY <3>2 DEF ByteStep
    <3> QED BY <3>1, <3>2
  <2> QED BY <2>3, <2>4
<1> QED BY <1>10, <1>11

(* A byte keeps the invariant.                                             *)
LEMMA DamageByte ==
  ASSUME FrameInv, DamageInv, NEW t \in line, ByteArrives(t) \/ ByteLost(t)
  PROVE  DamageInv'
<1>1. PICK kept \in BOOLEAN : ByteStep(t, kept)
  <2>1. CASE ByteArrives(t)
    <3>1. ByteStep(t, TRUE)
      BY <2>1, Zenon DEF ByteArrives, ByteStep
    <3> QED BY <3>1
  <2>2. CASE ByteLost(t)
    <3>1. ByteStep(t, FALSE)
      BY <2>2, Zenon DEF ByteLost, ByteStep
    <3> QED BY <3>1
  <2> QED BY <2>1, <2>2
<1> QED BY <1>1, StepPlaces, StepMarked, StepLine, StepTurn, StepProgress, StepDamage, Zenon
        DEF DamageInv

(* A send that starts has put nothing on the line yet.                     *)
LEMMA DamageSend ==
  ASSUME FrameInv, DamageInv, NEW t, NEW b \in Blocks, hdlc_block_send_sync(t, b)
  PROVE  DamageInv'
<1>1. /\ TypeOK /\ Sending /\ Places /\ Marked /\ LineInv /\ TurnInv /\ ProgressInv
      /\ DamageContained
  BY DEF FrameInv, DamageInv
<1>0. PICK special \in Escapes :
        sent' = Append(sent, [block |-> b, special |-> special,
                              kept |-> TRUE, cut |-> FALSE, begin |-> Quiet])
  BY Zenon DEF hdlc_block_send_sync
<1>2. PICK s : s = [block |-> b, special |-> special,
                    kept |-> TRUE, cut |-> FALSE, begin |-> Quiet]
  OBVIOUS
<1>3. t \in line /\ sent' = Append(sent, s) /\ UNCHANGED <<line, wire, drv, got, lost>>
  BY <1>0, <1>2, Zenon DEF hdlc_block_send_sync
<1>4. PICK N \in Nat : N = Len(sent)
  BY <1>1, SentType
<1>5. /\ DOMAIN sent = 1..N /\ Len(sent') = N + 1 /\ DOMAIN sent' = 1..(N + 1)
      /\ \A m \in 1..N : sent'[m] = sent[m]
      /\ sent'[N + 1] = s
  <2>1. sent \in Seq(Sends)
    BY <1>1, SentType
  <2> QED BY <1>3, <1>4, <2>1
<1>6. s.begin = Quiet
  BY <1>2
<1>7. /\ ~tx[t].on
      /\ tx'[t].on /\ tx'[t].n = N + 1 /\ tx'[t].i = 0 /\ ~tx'[t].esc
      /\ \A u \in line : u # t => tx'[u] = tx[u]
  <2>1. tx' = [tx EXCEPT ![t] = [Idle EXCEPT !.on = TRUE, !.n = N + 1]] /\ ~tx[t].on
    BY <1>4, Zenon DEF hdlc_block_send_sync
  <2>2. PICK w : w = [Idle EXCEPT !.on = TRUE, !.n = N + 1]
    OBVIOUS
  <2>3. w.on = TRUE /\ w.n = N + 1 /\ w.i = 0 /\ w.esc = FALSE
    BY <2>2 DEF Idle
  <2>4. tx'[t] = w /\ \A u \in line : u # t => tx'[u] = tx[u]
    BY <1>1, <1>3, <2>1, <2>2 DEF TypeOK
  <2> QED BY <2>1, <2>3, <2>4, Zenon
<1>8. \A m \in 1..N : m # N + 1 /\ m \in 1..(N + 1)
  OBVIOUS
<1>9. ASSUME NEW u \in line, u # t, tx[u].on
      PROVE  /\ tx'[u] = tx[u] /\ tx[u].n \in 1..N
             /\ Current(u)' = Current(u) /\ Special(u)' = Special(u)
  <2>1. tx'[u] = tx[u] /\ tx[u].n \in 1..N
    BY <1>1, <1>4, <1>7, <1>9 DEF Sending
  <2>2. sent'[tx'[u].n] = sent[tx[u].n]
    BY <1>5, <2>1
  <2> QED BY <2>1, <2>2, Zenon DEF Current, Coded, Special
<1>10. Places'
  <2>1. ASSUME NEW u \in line, tx'[u].on
        PROVE  /\ tx'[u].i <= Len(Current(u)') + 1
               /\ tx'[u].esc => /\ tx'[u].i \in 1..Len(Current(u)')
                                /\ NeedsEscape(Current(u)'[tx'[u].i].v, Special(u)')
    <3>1. CASE u # t
      BY <1>1, <1>7, <1>9, <2>1, <3>1 DEF Places
    <3>2. CASE u = t
      <4>1. sent'[tx'[t].n].block = b
        BY <1>2, <1>5, <1>7
      <4>2. Current(t)' = Coded(b)
        BY <4>1, Zenon DEF Current, Coded
      <4>3. Len(Coded(b)) \in Nat
        BY CodedType
      <4> QED BY <1>7, <3>2, <4>2, <4>3
    <3> QED BY <3>1, <3>2
  <2>2. ASSUME NEW u \in line, NEW w \in line, tx'[u].on, tx'[w].on, u # w
        PROVE  tx'[u].n # tx'[w].n
    <3>1. CASE u # t /\ w # t
      BY <1>1, <1>7, <2>2, <3>1 DEF Places
    <3>2. CASE u = t
      BY <1>7, <1>8, <1>9, <2>2, <3>2
    <3>3. CASE w = t
      BY <1>7, <1>8, <1>9, <2>2, <3>3
    <3> QED BY <3>1, <3>2, <3>3
  <2> QED BY <1>3, <2>1, <2>2 DEF Places
<1>11. \A w : KnownMark(w) => KnownMark(w)'
  BY <1>4, <1>5 DEF KnownMark
<1>12. Marked'
  <2>1. KnownMark(wire)'
    BY <1>1, <1>3, <1>4, <1>5 DEF Marked, KnownMark
  <2>2. ASSUME NEW m \in 1..(N + 1) PROVE KnownMark(sent[m].begin)'
    <3>1. CASE m \in 1..N
      BY <1>1, <1>4, <1>5, <3>1 DEF Marked, KnownMark
    <3>2. CASE m = N + 1
      BY <1>5, <1>6, <3>2 DEF KnownMark, Quiet
    <3> QED BY <3>1, <3>2
  <2> QED BY <1>5, <2>1, <2>2 DEF Marked
<1>13. \A m \in 0..N : Unharmed(m)' <=> Unharmed(m)
  <2>1. \A m \in 0..N : m = 0 \/ m \in 1..N
    OBVIOUS
  <2> QED BY <1>5, <2>1, Zenon DEF Unharmed
<1>14. ASSUME NEW m \in 1..N PROVE Good(m)' => Good(m)
  <2>1. PICK l, d : l = sent[m].begin.last /\ d = sent[m].begin.data
    OBVIOUS
  <2>2. l \in 0..N /\ d \in 0..N
    BY <1>1, <1>4, <2>1 DEF Marked, KnownMark
  <2>3. sent'[m] = sent[m]
    BY <1>5
  <2>4. (Unharmed(l)' => Unharmed(l)) /\ (Unharmed(d)' => Unharmed(d))
    BY <1>13, <2>2
  <2> QED BY <2>1, <2>3, <2>4, Zenon DEF Good, Unharmed
<1>15. LineInv'
  <2>1. PICK l, d : l = wire.last /\ d = wire.data
    OBVIOUS
  <2>2. l \in 0..N /\ d \in 0..N
    BY <1>1, <1>4, <2>1 DEF Marked, KnownMark
  <2>3. (Unharmed(l)' => Unharmed(l)) /\ (Unharmed(d)' => Unharmed(d))
    BY <1>13, <2>2
  <2> QED BY <1>1, <1>3, <2>1, <2>3, Zenon DEF LineInv, Unharmed
<1>16. TurnInv'
  <2> SUFFICES ASSUME Nested
               PROVE  /\ \A u \in line : tx'[u].on /\ Begins(u)' /\ ~wire.delim =>
                           \E w \in line : tx'[w].on /\ Priority[w] < Priority[u]
                      /\ \A m \in 1..(N + 1) : sent'[m].begin.delim
    <3>1. Nested' <=> Nested
      BY <1>3 DEF Nested
    <3> QED BY <1>3, <1>5, <3>1 DEF TurnInv
  <2>1. ASSUME NEW u \in line, tx'[u].on, Begins(u)', ~wire.delim
        PROVE  \E w \in line : tx'[w].on /\ Priority[w] < Priority[u]
    <3>1. u # t
      BY <1>7, <2>1 DEF Begins
    <3>2. tx'[u] = tx[u]
      BY <1>7, <3>1
    <3>3. tx[u].on /\ Begins(u)
      BY <2>1, <3>2 DEF Begins
    <3>4. PICK w \in line : tx[w].on /\ Priority[w] < Priority[u]
      BY <1>1, <2>1, <3>3 DEF TurnInv
    <3>5. tx'[w].on
      BY <1>7, <3>4
    <3> QED BY <3>4, <3>5
  <2>2. ASSUME NEW m \in 1..(N + 1) PROVE sent'[m].begin.delim
    <3>1. CASE m \in 1..N
      BY <1>1, <1>4, <1>5, <3>1 DEF TurnInv
    <3>2. CASE m = N + 1
      BY <1>5, <1>6, <3>2 DEF Quiet
    <3> QED BY <3>1, <3>2
  <2> QED BY <2>1, <2>2
<1>17. ProgressInv'
  <2> SUFFICES ASSUME NEW u \in line, tx'[u].on, Begun(u)' PROVE InFrame(u)'
    BY <1>3 DEF ProgressInv
  <2>1. u # t
    <3>1. ~(tx'[t].i > 1)
      BY <1>7
    <3> QED BY <1>7, <3>1, Zenon DEF Begun
  <2>2. tx'[u] = tx[u] /\ tx[u].n \in 1..N /\ Current(u)' = Current(u)
    <3>1. tx[u].on
      BY <1>7, <2>1
    <3> QED BY <1>9, <2>1, <3>1
  <2>3. PICK n \in 1..N : n = tx[u].n
    BY <2>2
  <2>4. InFrame(u)
    BY <1>1, <1>7, <2>1, <2>2 DEF ProgressInv, Begun
  <2>5. sent'[n] = sent[n] /\ (Good(n)' => Good(n))
    BY <1>5, <1>14
  <2>6. \A c : \A k : Holds(c, k) => Holds(c, k)'
    BY <1>3, Zenon DEF Holds
  <2> QED BY <1>3, <2>2, <2>3, <2>4, <2>5, <2>6, Zenon DEF InFrame
<1>18. DamageContained'
  <2> SUFFICES ASSUME NEW m \in 1..(N + 1), Finished(m)'
               PROVE  m \in 1..N /\ Finished(m)
    <3>1. ASSUME NEW m \in 1..(N + 1), Finished(m)',
                 sent'[m].kept, ~sent'[m].cut,
                 Nested \/ sent'[m].begin.delim, ~sent'[m].begin.esc,
                 sent'[m].begin.last = 0 \/ sent'[sent'[m].begin.last].kept,
                 sent'[m].begin.data = 0 \/ sent'[sent'[m].begin.data].kept,
                 IsUnnumbered(sent'[m].block[2]),
                 Len(Coded(sent'[m].block)) <= MaxBlock
          PROVE  [n |-> m, block |-> Coded(sent'[m].block), over |-> FALSE] \in got
      <4>1. m \in 1..N /\ Finished(m) /\ sent'[m] = sent[m]
        BY <1>5, <3>1
      <4>2. PICK l, d : l = sent[m].begin.last /\ d = sent[m].begin.data
        OBVIOUS
      <4>3. l \in 0..N /\ d \in 0..N
        BY <1>1, <1>4, <4>1, <4>2 DEF Marked, KnownMark
      <4>4. Unharmed(l)' /\ Unharmed(d)'
        BY <3>1, <4>1, <4>2 DEF Unharmed
      <4>5. Unharmed(l) /\ Unharmed(d)
        BY <1>13, <4>3, <4>4
      <4> QED BY <1>1, <1>5, <3>1, <4>1, <4>2, <4>5, Zenon DEF DamageContained
    <3>2. Nested' <=> Nested
      BY <1>3 DEF Nested
    <3> QED BY <1>3, <1>5, <3>1, <3>2, Zenon DEF DamageContained, Unharmed, Coded
  <2>1. \A u \in line : tx'[u].on => tx'[u].n # m
    BY <1>3 DEF Finished
  <2>2. m # N + 1
    BY <1>3, <1>7, <2>1
  <2>3. m \in 1..N
    BY <2>2
  <2>4. ASSUME NEW u \in line, tx[u].on PROVE tx[u].n # m
    BY <1>7, <2>1, <2>4
  <2> QED BY <1>5, <2>3, <2>4 DEF Finished
<1> QED BY <1>10, <1>12, <1>15, <1>16, <1>17, <1>18, Zenon DEF DamageInv

(* Every step keeps the invariant.                                         *)
LEMMA DamageNext == FrameInv /\ DamageInv /\ [Next]_vars => DamageInv'
<1> SUFFICES ASSUME FrameInv, DamageInv, [Next]_vars PROVE DamageInv'
  OBVIOUS
<1>1. ASSUME NEW p \in Payloads, gb_message_hdlc_send(p) \/ hdlc_uart_out(p) \/ host_send(p)
      PROVE  DamageInv'
  BY <1>1, SendIs, DamageSend
<1>2. ASSUME NEW t \in line, ByteArrives(t) \/ ByteLost(t)
      PROVE  DamageInv'
  BY <1>2, DamageByte
<1>3. CASE gb_message_hdlc_send_long \/ UNCHANGED vars
  <2>1. line' = line /\ sent' = sent /\ tx' = tx /\ wire' = wire /\ drv' = drv /\ got' = got
    BY <1>3 DEF vars, gb_message_hdlc_send_long
  <2>2. \A t : Current(t)' = Current(t) /\ Special(t)' = Special(t)
    BY <2>1, Zenon DEF Current, Coded, Special
  <2>3. Places'
    BY <2>1, <2>2, Zenon DEF DamageInv, Places
  <2>4. Marked' /\ LineInv'
    BY <2>1, Zenon DEF DamageInv, Marked, KnownMark, LineInv, Unharmed
  <2>5. TurnInv'
    BY <2>1, Zenon DEF DamageInv, TurnInv, Nested, Begins
  <2>6. ProgressInv'
    <3>1. \A t : InFrame(t) => InFrame(t)'
      BY <2>1, <2>2, Zenon DEF InFrame, Good, Unharmed, Holds
    <3> QED BY <2>1, <3>1, Zenon DEF DamageInv, ProgressInv, Begun
  <2>7. DamageContained'
    BY <2>1, Zenon DEF DamageInv, DamageContained, Finished, Unharmed, Nested, Coded
  <2> QED BY <2>3, <2>4, <2>5, <2>6, <2>7 DEF DamageInv
<1> QED BY <1>1, <1>2, <1>3 DEF Next

(* Damage is contained: for any number of frames and of lost bytes, for    *)
(* any senders and whatever the scheduler does with them, an unnumbered    *)
(* block that fits rx_buffer and whose frame arrives whole, uncut and      *)
(* behind unharmed frames is given to process_callback_frame_cb.           *)
THEOREM DamageStaysContained == Spec => []DamageContained
<1>1. Init => FrameInv /\ DamageInv
  BY FrameInit, DamageInit
<1>2. FrameInv /\ DamageInv /\ [Next]_vars => (FrameInv /\ DamageInv)'
  BY FrameNext, DamageNext
<1>3. FrameInv /\ DamageInv => DamageContained
  BY DEF DamageInv
<1> QED BY <1>1, <1>2, <1>3, PTL DEF Spec
=============================================================================
