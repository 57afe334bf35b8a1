------------------------------ MODULE KitlSerial ------------------------------
(***************************************************************************)
(* The frames of KITL over the serial line, kitl/init.c: SerialEncode and  *)
(* SerialSend at one end, SerialRecv at the other, which keeps what it has *)
(* of a frame in kitlState between calls.  The line (external) is a queue  *)
(* of bytes; a fault changes or loses one.                                 *)
(*                                                                         *)
(* A byte is a number below ByteMod, a header has one byte each for        *)
(* packetType, payloadSize, crcData and crcHeader; signature and reserved, *)
(* which the receiver only sums up, are left out.                          *)
(***************************************************************************)
EXTENDS Integers, Sequences, SequencesExt

CONSTANTS
  ByteMod,        (* 256                                                   *)
  SerialPacket,   (* OAL_KITL_SERIAL_PACKET, 0xAA                          *)
  MTU,            (* KITL_MTU                                              *)
  Payloads,       (* the payloads sent: sequences of bytes                 *)
  RoomFor,        (* what *pLength may be on entry                         *)
  MaxFrames,      (* bound: frames sent                                    *)
  MaxFaults       (* bound: bytes changed or lost                          *)

HeaderSize == 4
Bytes == 0 .. ByteMod - 1

VARIABLES
  buf,            \* kitlState: the bytes so far, count of them
  line,           \* bytes on their way, each with the frame it belongs to
  sent, received, \* frames, by number, and their payloads
  faults, hit,    \* faults so far; which frames they hit, and whether
  shifted,        \* framing may be lost: a header was hit, a byte was lost
  small           \* frames dropped for want of room

vars == << buf, line, sent, received, faults, hit, shifted, small >>

Init ==
  /\ buf = << >> /\ line = << >> /\ sent = << >> /\ received = << >>
  /\ faults = 0 /\ hit = {} /\ shifted = FALSE /\ small = {}

ChkSum(s) == FoldLeft(LAMBDA sum, b : (sum + b) % ByteMod, 0, s)
-----------------------------------------------------------------------------
SerialEncode(payload) ==
  LET header == << SerialPacket, Len(payload), ChkSum(payload) >>
  IN header \o << ChkSum(header) >> \o payload

(* SerialSend.                                                             *)
Send(payload) ==
  /\ Len(sent) < MaxFrames
  /\ sent' = Append(sent, payload)
  /\ LET frame == SerialEncode(payload)
     IN line' = line \o [i \in 1 .. Len(frame) |-> [val |-> frame[i], of |-> Len(sent) + 1, at |-> i]]
  /\ UNCHANGED << buf, received, faults, hit, shifted, small >>

Change(i, b) ==
  /\ faults < MaxFaults /\ b # line[i].val
  /\ line' = [line EXCEPT ![i].val = b]
  /\ faults' = faults + 1 /\ hit' = hit \cup {line[i].of}
  /\ shifted' = (shifted \/ line[i].at <= HeaderSize)
  /\ UNCHANGED << buf, sent, received, small >>

Lose(i) ==
  /\ faults < MaxFaults
  /\ line' = RemoveAt(line, i)
  /\ faults' = faults + 1 /\ hit' = hit \cup {line[i].of} /\ shifted' = TRUE
  /\ UNCHANGED << buf, sent, received, small >>
-----------------------------------------------------------------------------
Field(f) == buf[f].val
Values(s) == [i \in 1 .. Len(s) |-> s[i].val]
PayloadSize == Field(2)

HeaderOk ==
  /\ Field(1) = SerialPacket
  /\ Field(4) = ChkSum(Values(SubSeq(buf, 1, HeaderSize - 1)))
  /\ PayloadSize <= MTU - HeaderSize

DataOk == Field(3) = ChkSum(Values(SubSeq(buf, HeaderSize + 1, Len(buf))))

Complete == Len(buf) >= HeaderSize /\ (HeaderOk => Len(buf) >= HeaderSize + PayloadSize)

(* SerialRecv takes a byte; it returns FALSE when there is none, which is  *)
(* no step, and goes on with the same frame when it is called again.       *)
TakeByte ==
  /\ ~Complete /\ line # << >>
  /\ buf' = Append(buf, Head(line)) /\ line' = Tail(line)
  /\ UNCHANGED << sent, received, faults, hit, shifted, small >>

(* A bad header or a bad checksum: what there is of the frame is dropped.  *)
Drop ==
  /\ Complete /\ ~(HeaderOk /\ DataOk)
  /\ buf' = << >>
  /\ UNCHANGED << line, sent, received, faults, hit, shifted, small >>

DropSmall(length) ==
  /\ Complete /\ HeaderOk /\ DataOk /\ Len(buf) > length
  /\ buf' = << >>
  /\ small' = small \cup {buf[1].of}
  /\ UNCHANGED << line, sent, received, faults, hit, shifted >>

(* SerialDecode strips the header.                                         *)
Deliver(length) ==
  /\ Complete /\ HeaderOk /\ DataOk /\ Len(buf) <= length
  /\ received' = Append(received, [n |-> buf[1].of,
                                   payload |-> Values(SubSeq(buf, HeaderSize + 1, Len(buf)))])
  /\ buf' = << >>
  /\ UNCHANGED << line, sent, faults, hit, shifted, small >>

SerialRecv == TakeByte \/ Drop \/ (\E n \in RoomFor : DropSmall(n) \/ Deliver(n))

Next ==
  \/ \E p \in Payloads : Send(p)
  \/ \E i \in DOMAIN line : Lose(i) \/ (\E b \in Bytes : Change(i, b))
  \/ SerialRecv

Spec == Init /\ [][Next]_vars

(* The receiver is called while there are bytes.                           *)
Fairness == WF_vars(SerialRecv)

FairSpec == Spec /\ Fairness
-----------------------------------------------------------------------------
(* kitlState.buf is not written past its end, whatever the line carries    *)
(* and wherever framing has been lost (init.c:93-117).                     *)
BufferHolds == Len(buf) <= MTU

(* A frame of which one byte was changed is never taken for a good one     *)
(* (init.c:102, 119).                                                      *)
DamagedDropped ==
  faults <= 1 /\ ~shifted => \A k \in DOMAIN received : received[k].payload = sent[received[k].n]

(* As long as framing is kept frames are received once each, in order, and *)
(* a damaged payload costs no frame but its own: every frame before one    *)
(* that was received was received, or dropped for its own sake.            *)
OnlyOwnFrameLost ==
  ~shifted =>
    /\ \A j, k \in DOMAIN received : j < k => received[j].n < received[k].n
    /\ \A n \in 1 .. Len(sent) :
         (\E k \in DOMAIN received : received[k].n > n)
           => n \in hit \cup small \/ \E k \in DOMAIN received : received[k].n = n

(* And all are received at last, however their bytes trickle in.           *)
FramesArrive ==
  \A n \in 1 .. MaxFrames :
    Len(sent) >= n ~> n \in hit \cup small \/ shifted \/ \E k \in DOMAIN received : received[k].n = n

(* The buffer is never overrun, no damaged frame is delivered, and damage  *)
(* costs no frame but its own (init.c:93-213).                             *)
ReceiverSound == BufferHolds /\ DamagedDropped /\ OnlyOwnFrameLost
=============================================================================
