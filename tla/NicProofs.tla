----------------------------- MODULE NicProofs ------------------------------
(***************************************************************************)
(* What receive() copies out of the mailbox is of the frame whose length   *)
(* it read or of later ones, in their order, and a later one stays flagged *)
(* (ReceivedInOrder); every periodic interrupt is counted once             *)
(* (TicksTaken): for any number of frames, of any length, and of periodic  *)
(* interrupts.                                                             *)
(*                                                                         *)
(* The first argument, IInv, is about time: frm_len names the last frame   *)
(* as soon as it has ended, the read buffer holds it two edges later, and  *)
(* a thread that has read frm_len over the bus needs more edges than that  *)
(* before its first read of the buffer.                                    *)
(*                                                                         *)
(* The second, SeenInv, is about the flag: it is set at the edge at which  *)
(* the read buffer takes a frame, and the read of a length clears it three *)
(* edges after the value was taken.                                        *)
(*                                                                         *)
(* The third, TickInv, follows a pulse from stage to stage into the status *)
(* register, and tells at every edge whether the read on the bus will show *)
(* it, has shown it, or clears it unseen.                                  *)
(***************************************************************************)
EXTENDS Nic, SequenceTheorems, TLAPS

\* A frame sets frm_len and wr_fin when it ends, and clears them when the next
\* one starts.
LineOK ==
    /\ line.on \in BOOLEAN /\ line.n \in Nat /\ line.age \in Nat
    /\ line.on => line.n > 0
    /\ frm_len = (IF line.on THEN NoFrame ELSE line.n)
    /\ line.n = 0 => line.age >= 2

\* The edge of wr_fin goes through its two delays while the line is quiet.
WrFinOK ==
    /\ wr_fin \in [1..3 -> BOOLEAN]
    /\ line.on \/ line.n = 0 => ~wr_fin[1]
    /\ ~line.on /\ line.n > 0 => wr_fin[1]
    /\ line.on /\ line.age > 0 => ~wr_fin[2]
    /\ line.on /\ wr_fin[2] => wr_fin[3]
    /\ ~line.on /\ line.n = 0 => ~wr_fin[2]
    /\ ~line.on /\ line.n > 0 => (wr_fin[2] <=> line.age >= 1) /\ (wr_fin[3] <=> line.age >= 2)

\* The read buffer holds the frame that ended last, from the second edge on.
Aged(k) == line.on \/ line.age >= k
Held == Aged(2)
BufferOK == rd_buf = (IF Held THEN LastEnded ELSE LastEnded - 1)

BusOK ==
    /\ bus \in [by : {"none", "isr", "main"}, reg : {"none", "RX_FLEN", "RX_BUF", "INT_STS"},
                k : 0..4]
    /\ main \in [pc : {"idle", "receive", "first", "last"}, len : Nat, word : Nat]
    /\ ip2bus.len \in Nat
    /\ bus.k > 0 => bus.reg # "none"
    /\ main.pc \in {"idle", "receive"} /\ bus.by = "main" => bus.reg = "RX_FLEN"
    /\ main.pc \in {"first", "last"} /\ bus.by = "main" => bus.reg = "RX_BUF"

\* A length on the bus has been there for as many edges as the access took.
LengthOK ==
    bus.by = "main" /\ bus.reg = "RX_FLEN" /\ bus.k \in 3..4 =>
        /\ ip2bus.len \in 0..LastEnded
        /\ ip2bus.len = LastEnded /\ LastEnded > 0 => Aged(bus.k - 2)

\* The words read so far are of the frame or of later ones, in order; the read
\* buffer itself only goes forward.
ReadOK ==
    main.pc \in {"first", "last"} =>
        /\ main.len \in 1..rd_buf
        /\ main.pc = "last" => main.word \in main.len..rd_buf
        /\ bus.by = "main" /\ bus.k \in 3..4 =>
             /\ ip2bus.len \in main.len..rd_buf
             /\ main.pc = "last" => main.word <= ip2bus.len

IInv == LineOK /\ WrFinOK /\ BufferOK /\ BusOK /\ LengthOK /\ ReadOK

-----------------------------------------------------------------------------
(* Operators *)

\* A register of n stages is a sequence.
LEMMA Stages ==
    ASSUME NEW n \in Nat \ {0}, NEW z \in [1..n -> BOOLEAN]
    PROVE  z \in Seq(BOOLEAN) /\ Len(z) = n
<1>1. z \in Seq(BOOLEAN)
  BY SeqDef, ZenonT(30)
<1>2. Len(z) = n
  <2>1. Len(z) \in Nat /\ DOMAIN z = 1..Len(z)
    BY <1>1, LenProperties
  <2>2. DOMAIN z = 1..n
    OBVIOUS
  <2>3. (n \in 1..Len(z) /\ Len(z) + 1 \notin 1..n) \/ Len(z) = 0
    BY <2>1, <2>2
  <2>. QED
    BY <2>1, <2>2, <2>3
<1>. QED
  BY <1>1, <1>2

\* It is shifted by one stage.
LEMMA Shifts ==
    ASSUME NEW n \in Nat \ {0}, NEW z \in [1..n -> BOOLEAN], NEW in \in BOOLEAN
    PROVE  /\ Shift(in, z) \in [1..n -> BOOLEAN]
           /\ Shift(in, z)[1] = in
           /\ \A i \in 1..(n - 1) : Shift(in, z)[i + 1] = z[i]
<1>. DEFINE s == SubSeq(z, 1, n - 1)
<1>1. z \in Seq(BOOLEAN) /\ Len(z) = n
  BY Stages
<1>2. /\ s \in Seq(BOOLEAN) /\ Len(s) = n - 1
      /\ \A i \in 1..(n - 1) : s[i] = z[i]
  <2>1. \A i \in 1..(n - 1) : z[i] \in BOOLEAN
    OBVIOUS
  <2>2. /\ s \in Seq(BOOLEAN)
        /\ Len(s) = IF 1 <= n - 1 THEN (n - 1) - 1 + 1 ELSE 0
        /\ \A i \in 1..((n - 1) - 1 + 1) : s[i] = z[1 + i - 1]
    BY <2>1, SubSeqProperties
  <2>. HIDE DEF s
  <2>. QED
    BY <2>2
<1>4. Shift(in, z) = <<in>> \o s
  BY <1>1 DEF Shift
<1>5. <<in>> \in Seq(BOOLEAN) /\ Len(<<in>>) = 1 /\ <<in>>[1] = in
  OBVIOUS
<1>. HIDE DEF s
<1>6. /\ Shift(in, z) \in Seq(BOOLEAN) /\ Len(Shift(in, z)) = n
      /\ \A i \in 1..n : Shift(in, z)[i] = IF i <= 1 THEN <<in>>[i] ELSE s[i - 1]
  <2>1. /\ <<in>> \o s \in Seq(BOOLEAN) /\ Len(<<in>> \o s) = 1 + (n - 1)
        /\ \A i \in 1..(1 + (n - 1)) : (<<in>> \o s)[i] =
             IF i <= 1 THEN <<in>>[i] ELSE s[i - 1]
    BY <1>2, <1>5, ConcatProperties
  <2>. QED
    BY <1>4, <2>1
<1>7. Shift(in, z) \in [1..n -> BOOLEAN]
  BY <1>6, LenProperties
<1>8. \A i \in 1..(n - 1) : Shift(in, z)[i + 1] = z[i]
  BY <1>2, <1>6
<1>. QED
  BY <1>5, <1>6, <1>7, <1>8

LEMMA Moved ==
    ASSUME NEW n \in Nat \ {0}, NEW z \in [1..n -> BOOLEAN], NEW in \in BOOLEAN,
           NEW i \in 1..(n - 1)
    PROVE  Shift(in, z)[i + 1] = z[i]
  BY Shifts

LEMMA ShiftThree ==
    ASSUME NEW z \in [1..3 -> BOOLEAN], NEW in \in BOOLEAN
    PROVE  /\ Shift(in, z) \in [1..3 -> BOOLEAN]
           /\ Shift(in, z)[1] = in /\ Shift(in, z)[2] = z[1] /\ Shift(in, z)[3] = z[2]
<1>. DEFINE n == 3
<1>1. n \in Nat \ {0} /\ z \in [1..n -> BOOLEAN] /\ {1, 2} \subseteq 1..(n - 1)
  OBVIOUS
<1>. HIDE DEF n
<1>2. Shift(in, z) \in [1..n -> BOOLEAN]
  BY <1>1, Shifts
<1>3. Shift(in, z)[1] = in
  BY <1>1, Shifts
<1>4. Shift(in, z)[1 + 1] = z[1] /\ Shift(in, z)[2 + 1] = z[2]
  BY <1>1, Moved, Zenon
<1>. QED
  BY <1>2, <1>3, <1>4 DEF n

LEMMA ShiftFour ==
    ASSUME NEW z \in [1..4 -> BOOLEAN], NEW in \in BOOLEAN
    PROVE  /\ Shift(in, z) \in [1..4 -> BOOLEAN]
           /\ Shift(in, z)[1] = in /\ Shift(in, z)[2] = z[1]
           /\ Shift(in, z)[3] = z[2] /\ Shift(in, z)[4] = z[3]
<1>. DEFINE n == 4
<1>1. n \in Nat \ {0} /\ z \in [1..n -> BOOLEAN] /\ {1, 2, 3} \subseteq 1..(n - 1)
  OBVIOUS
<1>. HIDE DEF n
<1>2. Shift(in, z) \in [1..n -> BOOLEAN]
  BY <1>1, Shifts
<1>3. Shift(in, z)[1] = in
  BY <1>1, Shifts
<1>4. /\ Shift(in, z)[1 + 1] = z[1] /\ Shift(in, z)[2 + 1] = z[2]
      /\ Shift(in, z)[3 + 1] = z[3]
  BY <1>1, Moved, Zenon
<1>. QED
  BY <1>2, <1>3, <1>4 DEF n

-----------------------------------------------------------------------------
(* The mailbox *)

\* The frames that have ended are counted up one at a time.
LEMMA FramesEnd ==
    ASSUME NicAssumption, LineOK, Mailbox
    PROVE  /\ LineOK' /\ LastEnded \in Nat /\ LastEnded' \in LastEnded..(LastEnded + 1)
           /\ LastEnded' = LastEnded => \A k \in 0..1 : Aged(k) => Aged(k + 1)'
           /\ LastEnded' = LastEnded /\ Held => Held'
           /\ LastEnded' = LastEnded + 1 => line.on /\ ~line'.on /\ line'.age = 0
<1>1. CASE StartFrame
  BY <1>1 DEF NicAssumption, LineOK, StartFrame, LastEnded, Aged, Held
<1>2. CASE EndFrame
  BY <1>2 DEF NicAssumption, LineOK, EndFrame, LastEnded, Aged, Held
<1>3. CASE LineGoesOn
  BY <1>3 DEF NicAssumption, LineOK, LineGoesOn, Older, LastEnded, Aged, Held
<1>. QED
  BY <1>1, <1>2, <1>3 DEF Mailbox

LEMMA BufferFilled ==
    ASSUME NicAssumption, LineOK, WrFinOK, BufferOK, Mailbox
    PROVE  WrFinOK' /\ BufferOK'
<1>1. CASE StartFrame
  <2>1. wr_fin' = Shift(FALSE, wr_fin)
    BY <1>1 DEF StartFrame
  <2>2. /\ wr_fin' \in [1..3 -> BOOLEAN]
        /\ wr_fin'[1] <=> FALSE
        /\ wr_fin'[2] <=> wr_fin[1]
        /\ wr_fin'[3] <=> wr_fin[2]
    BY <2>1, ShiftThree DEF WrFinOK
  <2>3. WrFinOK'
    <3>1. ~line.on /\ line.age >= 3 /\ line'.on /\ line'.n > 0 /\ line'.age = 0
      BY <1>1 DEF NicAssumption, LineOK, StartFrame
    <3>. QED
      BY <3>1, <2>2 DEF LineOK, WrFinOK
  <2>4. rd_buf' = rd_buf
    BY <1>1 DEF NicAssumption, LineOK, WrFinOK, StartFrame, Mailbox, ReadBuffer, Copied
  <2>5. BufferOK'
    BY <1>1, <2>4 DEF NicAssumption, LineOK, BufferOK, Held, Aged, LastEnded, StartFrame
  <2>. QED
    BY <2>3, <2>5
<1>2. CASE EndFrame
  <2>1. wr_fin' = Shift(TRUE, wr_fin)
    BY <1>2 DEF EndFrame
  <2>2. /\ wr_fin' \in [1..3 -> BOOLEAN]
        /\ wr_fin'[1] <=> TRUE
        /\ wr_fin'[2] <=> wr_fin[1]
        /\ wr_fin'[3] <=> wr_fin[2]
    BY <2>1, ShiftThree DEF WrFinOK
  <2>3. WrFinOK'
    <3>1. line.on /\ line.age > 0 /\ ~line'.on /\ line'.n > 0 /\ line'.age = 0
      BY <1>2 DEF NicAssumption, LineOK, EndFrame
    <3>. QED
      BY <3>1, <2>2 DEF LineOK, WrFinOK
  <2>4. rd_buf' = rd_buf
    BY <1>2 DEF NicAssumption, LineOK, WrFinOK, EndFrame, Mailbox, ReadBuffer, Copied
  <2>5. BufferOK'
    BY <1>2, <2>4 DEF NicAssumption, LineOK, BufferOK, Held, Aged, LastEnded, EndFrame
  <2>. QED
    BY <2>3, <2>5
<1>3. CASE LineGoesOn
  <2>1. wr_fin' = Shift(wr_fin[1], wr_fin)
    BY <1>3 DEF LineGoesOn
  <2>2. /\ wr_fin' \in [1..3 -> BOOLEAN]
        /\ wr_fin'[1] <=> wr_fin[1]
        /\ wr_fin'[2] <=> wr_fin[1]
        /\ wr_fin'[3] <=> wr_fin[2]
    BY <2>1, ShiftThree DEF WrFinOK
  <2>3. WrFinOK'
    BY <1>3, <2>2 DEF NicAssumption, LineOK, WrFinOK, LineGoesOn, Older
  <2>4. rd_buf' = IF ~line.on /\ line.n > 0 /\ line.age = 1 THEN line.n ELSE rd_buf
    BY <1>3 DEF NicAssumption, LineOK, WrFinOK, LineGoesOn, Mailbox, ReadBuffer, Copied
  <2>5. BufferOK'
    BY <1>3, <2>4 DEF NicAssumption, LineOK, BufferOK, Held, Aged, LastEnded, LineGoesOn, Older
  <2>. QED
    BY <2>3, <2>5
<1>. QED
  BY <1>1, <1>2, <1>3 DEF Mailbox

-----------------------------------------------------------------------------
(* The bus and the protocol thread *)

LEMMA Lengths == Value("RX_FLEN").len = frm_len /\ Value("RX_BUF").len = rd_buf
<1>1. Value("RX_FLEN") = [NoData EXCEPT !.rdy = data_rdy[1], !.len = frm_len]
  BY DEF Value
<1>2. Value("RX_BUF") = [NoData EXCEPT !.len = rd_buf]
  BY DEF Value
<1>. QED
  BY <1>1, <1>2 DEF NoData

\* The value on the bus is the one of the second edge of the access.
LEMMA ValueTaken ==
    ASSUME NicAssumption, LineOK, BufferOK, BusOK, LengthOK, Mailbox, Transfer,
           bus.k \in 2..3, bus' = [bus EXCEPT !.k = @ + 1]
    PROVE  LengthOK'
<1>. bus'.by = bus.by /\ bus'.reg = bus.reg /\ bus'.k = bus.k + 1
  BY DEF BusOK
<1>1. CASE bus.k = 2 /\ bus.reg = "RX_FLEN"
  <2>1. ip2bus'.len = frm_len
    <3>1. ip2bus' = Value("RX_FLEN")
      BY <1>1 DEF Transfer
    <3>. QED
      BY <3>1, Lengths
  <2>2. ip2bus'.len \in 0..LastEnded /\ (ip2bus'.len = LastEnded /\ LastEnded > 0 => Aged(0))
    BY <2>1 DEF LineOK, LastEnded, NoFrame, Aged
  <2>3. bus'.k - 2 = 0 + 1
    BY <1>1
  <2>. QED
    BY <2>2, <2>3, FramesEnd DEF LengthOK, Aged
<1>2. CASE bus.k = 3 /\ bus.by = "main" /\ bus.reg = "RX_FLEN"
  <2>1. ip2bus' = ip2bus
    BY <1>2 DEF Transfer
  <2>2. bus.k - 2 = 1 /\ bus'.k - 2 = 1 + 1
    BY <1>2
  <2>3. /\ ip2bus.len \in 0..LastEnded
        /\ ip2bus.len = LastEnded /\ LastEnded > 0 => Aged(1)
    BY <1>2, <2>2 DEF LengthOK
  <2>. QED
    BY <2>1, <2>2, <2>3, FramesEnd DEF LengthOK, Aged
<1>3. CASE bus.reg # "RX_FLEN" \/ bus.by # "main"
  BY <1>3 DEF LengthOK
<1>. QED
  BY <1>1, <1>2, <1>3

\* An access that begins or ends leaves no value behind.
LEMMA NoValueYet ==
    ASSUME bus'.k \in 0..2
    PROVE  LengthOK'
  BY DEF LengthOK

LEMMA LengthTyped ==
    ASSUME LineOK, BufferOK, BusOK, Transfer
    PROVE  ip2bus'.len \in Nat
<1>1. frm_len \in Nat /\ rd_buf \in Nat
  BY DEF LineOK, BufferOK, NoFrame, Held, Aged, LastEnded
<1>2. Value("RX_FLEN").len \in Nat /\ Value("RX_BUF").len \in Nat
  BY <1>1, Lengths
<1>3. Value("INT_STS").len = NoFrame /\ NoData.len = NoFrame
  <2>1. Value("INT_STS") = [NoData EXCEPT !.xms = int_status.xms]
    BY DEF Value
  <2>. QED
    BY <2>1 DEF NoData
<1>4. CASE bus.k = 2
  BY <1>2, <1>3, <1>4 DEF BusOK, Transfer, NoFrame
<1>5. CASE bus.k # 2
  BY <1>3, <1>5 DEF BusOK, Transfer, NoFrame
<1>. QED
  BY <1>4, <1>5

\* The read buffer only goes forward.
LEMMA BufferGrows ==
    ASSUME NicAssumption, LineOK, WrFinOK, BufferOK, Mailbox
    PROVE  /\ rd_buf \in Nat /\ rd_buf \in LastEnded - 1..LastEnded
           /\ rd_buf' \in Nat /\ rd_buf' >= rd_buf
<1>1. LineOK' /\ BufferOK' /\ LastEnded \in Nat /\ LastEnded' \in LastEnded..(LastEnded + 1)
      /\ (LastEnded' = LastEnded /\ Held => Held')
  BY FramesEnd, BufferFilled
<1>2. rd_buf \in Nat /\ rd_buf \in LastEnded - 1..LastEnded
  BY <1>1 DEF LineOK, BufferOK, Held, Aged, LastEnded
<1>3. rd_buf' \in Nat /\ rd_buf' \in LastEnded' - 1..LastEnded'
  BY <1>1 DEF LineOK, BufferOK, Held, Aged, LastEnded
<1>4. rd_buf' >= rd_buf
  <2>1. CASE LastEnded' = LastEnded + 1
    BY <1>1, <1>2, <1>3, <2>1
  <2>2. CASE LastEnded' = LastEnded
    <3>1. Held => rd_buf' = LastEnded'
      BY <1>1, <2>2 DEF BufferOK
    <3>2. ~Held => rd_buf = LastEnded - 1
      BY DEF BufferOK
    <3>. QED
      BY <1>1, <1>2, <1>3, <2>2, <3>1, <3>2
  <2>. QED
    BY <1>1, <2>1, <2>2
<1>. QED
  BY <1>2, <1>3, <1>4

\* The protocol thread waits for the bus, or for its value.
LEMMA Undisturbed ==
    ASSUME NicAssumption, LineOK, WrFinOK, BufferOK, BusOK, ReadOK, Mailbox, Transfer, main' = main,
           \/ bus'.k \in 0..2
           \/ bus.k \in 2..3 /\ bus' = [bus EXCEPT !.k = @ + 1]
    PROVE  ReadOK'
<1>. SUFFICES ASSUME main.pc \in {"first", "last"}
              PROVE  /\ main.len \in 1..rd_buf'
                     /\ main.pc = "last" => main.word \in main.len..rd_buf'
                     /\ bus'.by = "main" /\ bus'.k \in 3..4 =>
                          /\ ip2bus'.len \in main.len..rd_buf'
                          /\ main.pc = "last" => main.word <= ip2bus'.len
  BY DEF ReadOK
<1>1. rd_buf \in Nat /\ rd_buf' \in Nat /\ rd_buf' >= rd_buf
  BY BufferGrows
<1>2. main.len \in 1..rd_buf' /\ (main.pc = "last" => main.word \in main.len..rd_buf')
  BY <1>1 DEF ReadOK
<1>3. ASSUME bus'.by = "main", bus'.k \in 3..4
      PROVE  /\ ip2bus'.len \in main.len..rd_buf'
             /\ main.pc = "last" => main.word <= ip2bus'.len
  <2>1. bus.by = "main" /\ bus.reg = "RX_BUF" /\ bus.k \in 2..3
    BY <1>3 DEF BusOK
  <2>2. CASE bus.k = 2
    <3>1. ip2bus' = Value("RX_BUF")
      BY <2>1, <2>2 DEF Transfer
    <3>2. ip2bus'.len = rd_buf
      BY <3>1, Lengths
    <3>. QED
      BY <1>1, <3>2 DEF ReadOK
  <2>3. CASE bus.k = 3
    <3>1. ip2bus' = ip2bus
      BY <2>3 DEF Transfer
    <3>2. ip2bus.len \in main.len..rd_buf /\ (main.pc = "last" => main.word <= ip2bus.len)
      BY <2>1, <2>3 DEF ReadOK
    <3>. QED
      BY <1>1, <3>1, <3>2 DEF ReadOK
  <2>. QED
    BY <2>1, <2>2, <2>3
<1>. QED
  BY <1>2, <1>3

\* The thread goes on to its next read.
LEMMA NextRead ==
    ASSUME NicAssumption, LineOK, WrFinOK, BufferOK, BusOK, LengthOK, ReadOK, Mailbox, Transfer,
           Done("main"), bus' = Idle, main' = Took
    PROVE  BusOK' /\ ReadOK'
<1>. bus.by = "main" /\ bus.k = 4 /\ bus'.k = 0 /\ bus'.by = "none"
  BY DEF Done, Ends, Idle
<1>0. rd_buf \in Nat /\ rd_buf \in LastEnded - 1..LastEnded /\ rd_buf' \in Nat /\ rd_buf' >= rd_buf
  BY BufferGrows
<1>. ip2bus'.len \in Nat
  BY LengthTyped
<1>1. CASE main.pc = "idle"
  <2>1. main' = [main EXCEPT !.pc = IF netSelect THEN "receive" ELSE "idle"]
    BY <1>1 DEF Took
  <2>. QED
    BY <2>1 DEF BusOK, ReadOK, Idle
<1>2. CASE main.pc = "receive"
  <2>1. main' = [main EXCEPT !.pc = IF ip2bus.len # NoFrame THEN "first" ELSE "idle",
                             !.len = ip2bus.len]
    BY <1>2 DEF Took
  <2>2. /\ ip2bus.len \in 0..LastEnded
        /\ ip2bus.len = LastEnded /\ LastEnded > 0 => Held
    BY <1>2 DEF LengthOK, BusOK, Held, Aged
  <2>3. main'.len = ip2bus.len /\ (main'.pc = "first" => ip2bus.len > 0)
    BY <2>1, <2>2, FramesEnd DEF BusOK, NoFrame
  <2>4. ip2bus.len <= rd_buf'
    BY <1>0, <2>2, FramesEnd DEF BufferOK
  <2>5. main'.pc \in {"idle", "first"} /\ BusOK'
    <3>1. main' \in [pc : {"idle", "receive", "first", "last"}, len : Nat, word : Nat] /\ main'.pc \in {"idle", "first"}
      BY <2>1 DEF BusOK
    <3>. QED
      BY <3>1 DEF BusOK, Idle
  <2>. QED
    BY <1>0, <2>2, <2>3, <2>4, <2>5 DEF ReadOK
<1>3. CASE main.pc = "first"
  <2>1. main' = [main EXCEPT !.pc = "last", !.word = ip2bus.len]
    BY <1>3 DEF Took
  <2>2. main'.len = main.len /\ main'.pc = "last" /\ main'.word = ip2bus.len
    BY <2>1 DEF BusOK
  <2>4. main.len \in 1..rd_buf /\ ip2bus.len \in main.len..rd_buf
    BY <1>3 DEF ReadOK
  <2>5. ReadOK'
    BY <1>0, <2>2, <2>4 DEF ReadOK
  <2>6. BusOK'
    <3>1. main' \in [pc : {"idle", "receive", "first", "last"}, len : Nat, word : Nat] /\ main'.pc = "last"
      BY <2>1 DEF BusOK
    <3>. QED
      BY <3>1 DEF BusOK, Idle
  <2>. QED
    BY <2>5, <2>6
<1>4. CASE main.pc = "last"
  <2>1. main' = [pc |-> "idle", len |-> NoFrame, word |-> NoFrame]
    BY <1>4 DEF Took
  <2>. QED
    BY <2>1 DEF BusOK, ReadOK, Idle, NoFrame
<1>. QED
  BY <1>1, <1>2, <1>3, <1>4 DEF BusOK

-----------------------------------------------------------------------------
(* The invariant *)

\* An access begins, and no thread has a value yet.
LEMMA AccessBegins ==
    ASSUME IInv, NicAssumption, Hardware, UNCHANGED main,
           \/ Access("isr", "INT_STS")
           \/ Poll
           \/ ReadOn
    PROVE  IInv'
<1>. USE DEF IInv, Hardware
<1>1. bus'.k = 1 /\ LengthOK'
  BY NoValueYet DEF Poll, ReadOn, Access
<1>2. BusOK'
  <2>1. ip2bus'.len \in Nat
    BY LengthTyped
  <2>2. CASE Access("isr", "INT_STS")
    BY <2>1, <2>2 DEF BusOK, Access
  <2>3. CASE Poll
    BY <2>1, <2>3 DEF BusOK, Access, Poll
  <2>4. CASE ReadOn
    BY <2>1, <2>4 DEF BusOK, Access, ReadOn
  <2>. QED
    BY <2>2, <2>3, <2>4
<1>3. ReadOK'
  BY <1>1, Undisturbed
<1>. QED
  BY <1>1, <1>2, <1>3, FramesEnd, BufferFilled

LEMMA PollSkipped ==
    ASSUME IInv, NicAssumption, Hardware, BusFree, SkipPoll, BusGoesOn
    PROVE  IInv'
<1>. USE DEF IInv, Hardware
<1>1. bus' = Idle
  BY DEF BusGoesOn, BusFree
<1>2. LengthOK'
  BY <1>1, NoValueYet DEF Idle
<1>3. BusOK' /\ ReadOK'
  <2>1. ip2bus'.len \in Nat
    BY LengthTyped
  <2>. QED
    BY <1>1, <2>1 DEF BusOK, ReadOK, SkipPoll, Idle
<1>. QED
  BY <1>2, <1>3, FramesEnd, BufferFilled

LEMMA BusTurns ==
    ASSUME IInv, NicAssumption, Hardware, Waiting, MainTakes
    PROVE  IInv'
<1>. USE DEF IInv, Hardware
<1>1. CASE Done("main")
  <2>1. bus' = Idle /\ main' = Took
    BY <1>1 DEF Waiting, BusGoesOn, BusFree, Ends, Done, MainTakes
  <2>2. LengthOK'
    BY <2>1, NoValueYet DEF Idle
  <2>. QED
    BY <1>1, <2>1, <2>2, NextRead, FramesEnd, BufferFilled
<1>2. CASE ~Done("main")
  <2>. main' = main
    BY <1>2 DEF MainTakes
  <2>. ip2bus'.len \in Nat
    BY LengthTyped
  <2>1. CASE BusFree \/ Ends
    <3>1. bus' = Idle
      BY <2>1 DEF Waiting, BusGoesOn
    <3>2. LengthOK' /\ BusOK'
      BY <3>1, NoValueYet DEF Idle, BusOK
    <3>3. ReadOK'
      BY <3>1, Undisturbed DEF Idle
    <3>. QED
      BY <3>2, <3>3, FramesEnd, BufferFilled
  <2>2. CASE ~BusFree /\ ~Ends
    <3>1. bus' = [bus EXCEPT !.k = @ + 1] /\ bus.k \in 1..3
      BY <2>2 DEF Waiting, BusGoesOn, BusFree, Ends, BusOK
    <3>2. /\ bus'.k = bus.k + 1 /\ bus'.reg = bus.reg /\ bus'.by = bus.by
          /\ bus' \in [by : {"none", "isr", "main"},
                       reg : {"none", "RX_FLEN", "RX_BUF", "INT_STS"}, k : 0..4]
      BY <3>1 DEF BusOK
    <3>3. BusOK'
      BY <3>1, <3>2 DEF BusOK
    <3>4. LengthOK'
      BY <3>1, <3>2, NoValueYet, ValueTaken
    <3>5. ReadOK'
      BY <3>1, <3>2, Undisturbed
    <3>. QED
      BY <3>3, <3>4, <3>5, FramesEnd, BufferFilled
  <2>. QED
    BY <2>1, <2>2
<1>. QED
  BY <1>1, <1>2

LEMMA Initially == ASSUME NicAssumption, Init PROVE IInv
<1>1. /\ wr_fin \in [1..3 -> BOOLEAN]
      /\ ~wr_fin[1] /\ ~wr_fin[2] /\ ~wr_fin[3]
  BY DEF Init, Low
<1>2. ~line.on /\ line.n = 0 /\ line.age \in Nat /\ line.age >= 3
  BY DEF NicAssumption, Init
<1>3. LineOK /\ WrFinOK /\ BufferOK
  BY <1>1, <1>2 DEF Init, LineOK, WrFinOK, BufferOK, Held, Aged, LastEnded, NoFrame
<1>4. BusOK /\ LengthOK /\ ReadOK
  BY DEF Init, BusOK, LengthOK, ReadOK, NoFrame, NoData, Idle
<1>. QED
  BY <1>3, <1>4 DEF IInv

LEMMA Stuttering == ASSUME IInv, UNCHANGED vars PROVE IInv'
<1>. /\ line' = line /\ frm_len' = frm_len /\ wr_fin' = wr_fin /\ rd_buf' = rd_buf
    /\ bus' = bus /\ ip2bus' = ip2bus /\ main' = main
  BY DEF vars
<1>1. LineOK' /\ BufferOK'
  BY DEF IInv, LineOK, BufferOK, Held, Aged, LastEnded, NoFrame
<1>2. WrFinOK'
  BY DEF IInv, WrFinOK
<1>3. BusOK' /\ LengthOK' /\ ReadOK'
  BY DEF IInv, BusOK, LengthOK, ReadOK, Held, Aged, LastEnded
<1>. QED
  BY <1>1, <1>2, <1>3 DEF IInv

LEMMA Step == ASSUME IInv, NicAssumption, Next PROVE IInv'
  BY AccessBegins, PollSkipped, BusTurns DEF Next, Serve

\* IInv is an invariant of the NIC: where the last frame is, and what the
\* threads have read of it.
THEOREM Invariant == Spec => []IInv
<1>1. Init => IInv
  BY NicAssumption, Initially
<1>2. IInv /\ [Next]_vars => IInv'
  BY NicAssumption, Step, Stuttering
<1>. QED
  BY <1>1, <1>2, PTL DEF Spec

-----------------------------------------------------------------------------
(* The flag of a frame that breaks into a read *)

\* wr_fin is long enough down while a frame lasts for its edge to be seen: the
\* flag is set when the frame has ended, at the edge that fills the read buffer.
FlagEdgeOK ==
    /\ wr_fin_bus \in [1..2 -> BOOLEAN]
    /\ line.on => /\ wr_fin_bus[1] => wr_fin_bus[2]
                  /\ wr_fin[2] \/ wr_fin[3] => wr_fin_bus[1]
                  /\ line.age >= 2 => ~wr_fin[3]
    /\ ~line.on /\ line.n > 0 => /\ wr_fin_bus[1] <=> line.age >= 1
                                 /\ line.age >= 1 => (wr_fin_bus[2] <=> line.age >= 2)
    /\ ~line.on /\ line.n = 0 => ~wr_fin_bus[1] /\ ~wr_fin[3]

\* A read of the length has done its clearing before the next access shows a
\* value.
ClearOK ==
    /\ bus.k >= 1 => read_clear[1] # "RX_FLEN"
    /\ bus.k >= 2 => read_clear[2] # "RX_FLEN"
    /\ bus.reg = "RX_FLEN" => bus.by = "main" /\ bus.k \in 1..4

FlagOK == data_rdy \in [1..3 -> BOOLEAN]

\* The protocol thread has taken a length and has not copied all words yet.
Reading ==
    \/ main.pc = "receive" /\ bus.by = "main" /\ bus.k \in 3..4 /\ ip2bus.len > 0
    \/ main.pc \in {"first", "last"}
LengthTaken == IF main.pc = "receive" THEN ip2bus.len ELSE main.len

\* The line was quiet when the length was taken; the next frame is no older than
\* that, and has not been copied before the flag has been cleared.
NoneSince(age) == LastEnded = LengthTaken /\ (line.on => line.age <= age)
SeenOK ==
    Reading =>
        /\ bus.reg = "RX_FLEN" => NoneSince(bus.k - 3)
        /\ read_clear[1] = "RX_FLEN" => NoneSince(2)
        /\ read_clear[2] = "RX_FLEN" => rd_buf <= LengthTaken
        /\ LengthTaken < rd_buf => data_rdy[1]

SeenInv == FlagEdgeOK /\ ClearOK /\ FlagOK /\ SeenOK

LEMMA FlagEdgeKept ==
    ASSUME NicAssumption, LineOK, WrFinOK, FlagEdgeOK, Mailbox
    PROVE  FlagEdgeOK'
<1>. DEFINE some == \E i \in 1..3 : wr_fin[i]
<1>1. /\ wr_fin_bus' \in [1..2 -> BOOLEAN]
      /\ wr_fin_bus'[1] <=> wr_fin[1] \/ wr_fin[2] \/ wr_fin[3]
      /\ wr_fin_bus'[2] <=> wr_fin_bus[1]
  <2>1. wr_fin_bus' = <<some, wr_fin_bus[1]>>
    BY DEF Mailbox, DataReady
  <2>2. some \in BOOLEAN /\ (some <=> wr_fin[1] \/ wr_fin[2] \/ wr_fin[3])
    OBVIOUS
  <2>. HIDE DEF some
  <2>. QED
    BY <2>1, <2>2 DEF FlagEdgeOK
<1>2. ASSUME NEW in \in BOOLEAN, wr_fin' = Shift(in, wr_fin)
      PROVE  (wr_fin'[2] <=> wr_fin[1]) /\ (wr_fin'[3] <=> wr_fin[2])
  BY <1>2, ShiftThree DEF WrFinOK
<1>3. CASE StartFrame
  <2>1. (wr_fin'[2] <=> wr_fin[1]) /\ (wr_fin'[3] <=> wr_fin[2])
    BY <1>2, <1>3 DEF StartFrame
  <2>2. line'.on /\ line'.age = 0 /\ ~line.on /\ (line.n > 0 => line.age >= 3)
    BY <1>3 DEF NicAssumption, LineOK, StartFrame
  <2>. QED
    BY <1>1, <2>1, <2>2 DEF LineOK, WrFinOK, FlagEdgeOK
<1>4. CASE EndFrame
  <2>1. line.on /\ line.age >= 2 /\ ~line'.on /\ line'.n > 0 /\ line'.age = 0
    BY <1>4 DEF NicAssumption, LineOK, EndFrame
  <2>. QED
    BY <1>1, <2>1 DEF LineOK, WrFinOK, FlagEdgeOK
<1>5. CASE LineGoesOn
  <2>1. (wr_fin'[2] <=> wr_fin[1]) /\ (wr_fin'[3] <=> wr_fin[2])
    BY <1>2, <1>5 DEF LineGoesOn, WrFinOK
  <2>2. line'.on = line.on /\ line'.n = line.n /\ line'.age = Older(line.age)
    BY <1>5 DEF LineOK, LineGoesOn
  <2>3. line'.age \in Nat /\ (line'.age = line.age + 1 \/ (line'.age = line.age /\ line.age >= 3))
    BY <2>2 DEF NicAssumption, LineOK, Older
  <2>. QED
    BY <1>1, <2>1, <2>2, <2>3 DEF LineOK, WrFinOK, FlagEdgeOK
<1>. QED
  BY <1>3, <1>4, <1>5 DEF Mailbox

\* The read buffer and the flag take a frame at the same edge.
LEMMA CopyFlagged ==
    ASSUME LineOK, WrFinOK, FlagEdgeOK, Mailbox, rd_buf' # rd_buf
    PROVE  DataSet
<1>1. wr_fin[2] /\ ~wr_fin[3]
  BY DEF Mailbox, ReadBuffer, Copied
<1>. QED
  BY <1>1 DEF LineOK, WrFinOK, FlagEdgeOK, DataSet

LEMMA FlagMoves ==
    ASSUME FlagOK, Mailbox
    PROVE  /\ FlagOK'
           /\ data_rdy'[1] <=> DataSet \/ (data_rdy[1] /\ ~(read_clear[2] = "RX_FLEN" /\ data_rdy[3]))
<1>. DEFINE in == DataSet \/ (data_rdy[1] /\ ~DataCleared)
<1>1. data_rdy' = Shift(in, data_rdy)
  BY DEF Mailbox, DataReady
<1>2. in \in BOOLEAN /\ data_rdy \in [1..3 -> BOOLEAN]
  BY DEF FlagOK
<1>3. in <=> DataSet \/ (data_rdy[1] /\ ~(read_clear[2] = "RX_FLEN" /\ data_rdy[3]))
  BY DEF DataCleared, Clears
<1>. HIDE DEF in
<1>4. Shift(in, data_rdy) \in [1..3 -> BOOLEAN] /\ Shift(in, data_rdy)[1] = in
  BY <1>2, ShiftThree
<1>. QED
  BY <1>1, <1>3, <1>4 DEF FlagOK

\* The bus is free and taken, or goes on with its access, or is done with it.
BusStep ==
    \/ bus.k = 0 /\ bus'.k \in 0..1 /\ (bus'.reg = "RX_FLEN" => bus'.by = "main" /\ bus'.k = 1)
    \/ bus.k \in 1..3 /\ bus'.k = bus.k + 1 /\ bus'.reg = bus.reg /\ bus'.by = bus.by
    \/ bus.k = 4 /\ bus'.k = 0 /\ bus'.reg = "none" /\ bus'.by = "none"

LEMMA BusSteps == ASSUME BusOK, Next PROVE Hardware /\ BusStep
<1>1. ASSUME NEW by \in {"isr", "main"}, NEW reg \in {"RX_FLEN", "RX_BUF", "INT_STS"},
             Access(by, reg), reg = "RX_FLEN" => by = "main"
      PROVE  BusStep
  BY <1>1 DEF Access, BusFree, BusStep
<1>2. ASSUME BusGoesOn
      PROVE  BusStep
  BY <1>2 DEF BusGoesOn, BusFree, Ends, BusOK, BusStep, Idle
<1>3. CASE Hardware /\ Serve /\ UNCHANGED main
  BY <1>1, <1>3 DEF Serve
<1>4. CASE Hardware /\ Poll /\ UNCHANGED main
  BY <1>1, <1>4 DEF Poll
<1>5. CASE Hardware /\ ReadOn /\ UNCHANGED main
  BY <1>1, <1>5 DEF ReadOn
<1>6. CASE Hardware /\ BusFree /\ SkipPoll /\ BusGoesOn
  BY <1>2, <1>6
<1>7. CASE Hardware /\ Waiting /\ MainTakes
  BY <1>2, <1>7 DEF Waiting
<1>. QED
  BY <1>3, <1>4, <1>5, <1>6, <1>7 DEF Next

LEMMA ClearMoves ==
    ASSUME BusOK, Transfer
    PROVE  /\ read_clear'[1] = "RX_FLEN" <=> bus.k = 4 /\ bus.reg = "RX_FLEN"
           /\ read_clear'[2] = read_clear[1]
<1>1. read_clear' = <<IF Ends THEN bus.reg ELSE "none", read_clear[1]>>
  BY DEF Transfer
<1>. QED
  BY <1>1 DEF Ends

LEMMA ClearKept ==
    ASSUME BusOK, ClearOK, Transfer, BusStep
    PROVE  ClearOK'
  BY ClearMoves DEF ClearOK, BusStep, BusOK

\* A thread in the middle of a read goes on with it, or has just taken the
\* length of the last frame.
LEMMA ReadGoesOn ==
    ASSUME IInv, Next, Reading'
    PROVE  \/ Reading /\ LengthTaken' = LengthTaken
           \/ /\ main.pc = "receive" /\ bus.reg = "RX_FLEN" /\ bus.k = 2
              /\ LengthTaken' = frm_len /\ frm_len > 0
<1>. USE DEF IInv
<1>0. BusOK' /\ BusStep /\ Transfer
  BY NicAssumption, Step, BusSteps DEF Hardware
<1>1. CASE main' = main /\ main.pc = "receive"
  <2>1. bus'.by = "main" /\ bus'.k \in 3..4 /\ ip2bus'.len > 0
    BY <1>1 DEF Reading
  <2>2. bus.k \in 2..3 /\ bus.by = "main" /\ bus.reg = "RX_FLEN"
    BY <1>0, <1>1, <2>1 DEF BusStep, BusOK
  <2>3. CASE bus.k = 2
    <3>1. ip2bus' = Value("RX_FLEN")
      BY <1>0, <2>2, <2>3 DEF Transfer
    <3>2. ip2bus'.len = frm_len
      BY <3>1, Lengths
    <3>. QED
      BY <1>1, <2>1, <2>2, <2>3, <3>2 DEF LengthTaken
  <2>4. CASE bus.k = 3
    <3>1. ip2bus' = ip2bus
      BY <1>0, <2>4 DEF Transfer
    <3>. QED
      BY <1>1, <2>1, <2>2, <2>4, <3>1 DEF LengthTaken, Reading
  <2>. QED
    BY <2>2, <2>3, <2>4
<1>2. CASE main' = main /\ main.pc # "receive"
  BY <1>2 DEF Reading, LengthTaken
<1>3. CASE main' # main
  <2>1. CASE main' = [main EXCEPT !.pc = "receive"] /\ BusFree /\ BusGoesOn
    <3>1. bus'.k = 0 /\ main'.pc = "receive"
      BY <2>1 DEF BusGoesOn, BusFree, Idle, BusOK
    <3>. QED
      BY <3>1 DEF Reading
  <2>2. CASE Done("main") /\ main' = Took /\ BusGoesOn
    <3>1. bus.k = 4 /\ bus.by = "main" /\ bus'.k = 0
      BY <1>0, <2>2 DEF Done, Ends, BusStep
    <3>2. main'.pc \in {"first", "last"}
      BY <3>1 DEF Reading
    <3>3. CASE main.pc = "idle"
      <4>1. main' = [main EXCEPT !.pc = IF netSelect THEN "receive" ELSE "idle"]
        BY <2>2, <3>3 DEF Took
      <4>. QED
        BY <3>2, <4>1 DEF BusOK
    <3>4. CASE main.pc = "receive"
      <4>1. main' = [main EXCEPT !.pc = IF ip2bus.len # NoFrame THEN "first" ELSE "idle",
                                 !.len = ip2bus.len]
        BY <2>2, <3>4 DEF Took
      <4>2. ip2bus.len > 0 /\ main'.len = ip2bus.len /\ main'.pc = "first"
        BY <3>2, <4>1 DEF BusOK, NoFrame
      <4>. QED
        BY <3>1, <3>4, <4>2 DEF Reading, LengthTaken
    <3>5. CASE main.pc = "first"
      <4>1. main' = [main EXCEPT !.pc = "last", !.word = ip2bus.len]
        BY <2>2, <3>5 DEF Took
      <4>2. main'.pc = "last" /\ main'.len = main.len
        BY <4>1 DEF BusOK
      <4>. QED
        BY <3>5, <4>2 DEF Reading, LengthTaken
    <3>6. CASE main.pc = "last"
      <4>1. main' = [pc |-> "idle", len |-> NoFrame, word |-> NoFrame]
        BY <2>2, <3>6 DEF Took
      <4>. QED
        BY <3>2, <4>1
    <3>. QED
      BY <3>3, <3>4, <3>5, <3>6 DEF BusOK
  <2>. QED
    BY <1>3, <2>1, <2>2 DEF Next, SkipPoll, Waiting, MainTakes
<1>. QED
  BY <1>1, <1>2, <1>3

\* Nothing ends in the edge after a quiet one, nor for as long as a frame lasts.
LEMMA NoneEnds ==
    ASSUME NicAssumption, LineOK, Mailbox,
           NEW age \in 0..1, line.on => line.age <= age
    PROVE  /\ LastEnded' = LastEnded
           /\ line'.on => line'.age <= age + 1
           /\ line'.on /\ ~line.on => line'.age = 0
<1>1. CASE StartFrame
  BY <1>1 DEF LineOK, StartFrame, LastEnded
<1>2. CASE EndFrame
  BY <1>2 DEF NicAssumption, LineOK, EndFrame
<1>3. CASE LineGoesOn
  <2>1. line'.on = line.on /\ line'.n = line.n /\ line'.age \in {line.age, line.age + 1}
    BY <1>3 DEF LineOK, LineGoesOn, Older
  <2>. QED
    BY <2>1 DEF LineOK, LastEnded
<1>. QED
  BY <1>1, <1>2, <1>3 DEF Mailbox

LEMMA SeenKept ==
    ASSUME IInv, SeenInv, Next
    PROVE  SeenOK'
<1>. USE DEF IInv, SeenInv
<1>. SUFFICES ASSUME Reading'
              PROVE  /\ bus'.reg = "RX_FLEN" => NoneSince(bus.k - 3)'
                     /\ read_clear'[1] = "RX_FLEN" => NoneSince(2)'
                     /\ read_clear'[2] = "RX_FLEN" => rd_buf' <= LengthTaken'
                     /\ LengthTaken' < rd_buf' => data_rdy'[1]
  BY DEF SeenOK
<1>0. /\ BusOK' /\ BusStep /\ Hardware /\ Mailbox /\ ClearOK'
      /\ rd_buf \in Nat /\ frm_len \in Nat /\ (frm_len > 0 => rd_buf <= frm_len)
  <2>1. BusOK' /\ BusStep /\ Hardware
    BY NicAssumption, Step, BusSteps
  <2>. QED
    BY <2>1, ClearKept DEF Hardware, LineOK, BufferOK, NoFrame, LastEnded, Held, Aged
<1>1. /\ read_clear'[1] = "RX_FLEN" <=> bus.k = 4 /\ bus.reg = "RX_FLEN"
      /\ read_clear'[2] = read_clear[1]
      /\ data_rdy'[1] <=> DataSet \/ (data_rdy[1] /\ ~(read_clear[2] = "RX_FLEN" /\ data_rdy[3]))
  BY <1>0, ClearMoves, FlagMoves DEF Hardware
<1>2. \/ Reading /\ LengthTaken' = LengthTaken
      \/ /\ main.pc = "receive" /\ bus.reg = "RX_FLEN" /\ bus.k = 2
         /\ LengthTaken' = frm_len /\ frm_len > 0
  BY ReadGoesOn
<1>3. ASSUME bus'.reg = "RX_FLEN"
      PROVE  NoneSince(bus.k - 3)'
  <2>1. bus'.k \in 3..4 /\ bus.k = bus'.k - 1 /\ bus.reg = "RX_FLEN"
    BY <1>0, <1>3 DEF Reading, BusStep, BusOK, ClearOK
  <2>2. CASE bus.k = 2
    <3>1. LengthTaken' = frm_len /\ frm_len > 0
      BY <1>2, <2>1, <2>2 DEF Reading, BusOK, ClearOK
    <3>2. ~line.on /\ LastEnded = frm_len
      BY <3>1 DEF LineOK, LastEnded, NoFrame
    <3>3. LastEnded' = LastEnded /\ (line'.on => line'.age = 0)
      BY <1>0, <3>2, NicAssumption, NoneEnds
    <3>. QED
      BY <2>1, <2>2, <3>1, <3>2, <3>3 DEF NoneSince
  <2>3. CASE bus.k = 3
    <3>1. NoneSince(0) /\ LengthTaken' = LengthTaken
      BY <1>2, <2>1, <2>3 DEF SeenOK
    <3>2. LastEnded' = LastEnded /\ (line'.on => line'.age <= 0 + 1)
      BY <1>0, <3>1, NicAssumption, NoneEnds DEF NoneSince
    <3>. QED
      BY <2>1, <2>3, <3>1, <3>2 DEF NoneSince
  <2>. QED
    BY <2>1, <2>2, <2>3
<1>4. ASSUME read_clear'[1] = "RX_FLEN"
      PROVE  NoneSince(2)'
  <2>1. NoneSince(1) /\ LengthTaken' = LengthTaken
    BY <1>1, <1>2, <1>4 DEF SeenOK
  <2>2. LastEnded' = LastEnded /\ (line'.on => line'.age <= 1 + 1)
    BY <1>0, <2>1, NicAssumption, NoneEnds DEF NoneSince
  <2>. QED
    BY <2>1, <2>2 DEF NoneSince
<1>5. ASSUME read_clear'[2] = "RX_FLEN"
      PROVE  rd_buf' <= LengthTaken'
  <2>1. NoneSince(2) /\ LengthTaken' = LengthTaken
    BY <1>1, <1>2, <1>5 DEF SeenOK, ClearOK
  <2>2. /\ LineOK' /\ BufferOK' /\ LastEnded \in Nat /\ LastEnded' \in LastEnded..(LastEnded + 1)
        /\ LastEnded' = LastEnded + 1 => ~line'.on /\ line'.age = 0
    BY <1>0, NicAssumption, FramesEnd, BufferFilled
  <2>3. CASE LastEnded' = LastEnded
    BY <2>1, <2>2, <2>3 DEF NoneSince, BufferOK
  <2>4. CASE LastEnded' = LastEnded + 1
    <3>1. rd_buf' = LastEnded' - 1
      BY <2>2, <2>4 DEF BufferOK, Held, Aged
    <3>. QED
      BY <2>1, <2>2, <2>4, <3>1 DEF NoneSince
  <2>. QED
    BY <2>2, <2>3, <2>4
<1>6. ASSUME LengthTaken' < rd_buf'
      PROVE  data_rdy'[1]
  <2>1. CASE rd_buf' # rd_buf
    BY <1>0, <1>1, <2>1, CopyFlagged
  <2>2. CASE rd_buf' = rd_buf
    <3>1. Reading /\ LengthTaken < rd_buf
      BY <1>0, <1>2, <1>6, <2>2
    <3>2. data_rdy[1] /\ read_clear[2] # "RX_FLEN"
      <4>1. LengthTaken \in Nat
        BY DEF LengthTaken, BusOK
      <4>. QED
        BY <1>0, <3>1, <4>1 DEF SeenOK
    <3>. QED
      BY <1>1, <3>2
  <2>. QED
    BY <2>1, <2>2
<1>. QED
  BY <1>3, <1>4, <1>5, <1>6

\* SeenInv is an invariant of the NIC.
THEOREM SeenInvariant == Spec => []SeenInv
<1>1. Init => SeenInv
  <2>. SUFFICES ASSUME Init
                PROVE  SeenInv
    OBVIOUS
  <2>1. /\ wr_fin_bus \in [1..2 -> BOOLEAN] /\ ~wr_fin_bus[1]
        /\ ~wr_fin[3] /\ data_rdy \in [1..3 -> BOOLEAN]
    BY DEF Init, Low
  <2>2. ~line.on /\ line.n = 0 /\ bus.k = 0 /\ bus.reg = "none" /\ main.pc = "idle"
        /\ read_clear[1] = "none" /\ read_clear[2] = "none"
    BY DEF Init, Idle
  <2>. QED
    BY <2>1, <2>2 DEF SeenInv, FlagEdgeOK, ClearOK, FlagOK, SeenOK, Reading
<1>2. IInv /\ SeenInv /\ [Next]_vars => SeenInv'
  <2>. SUFFICES ASSUME IInv, SeenInv, [Next]_vars
                PROVE  SeenInv'
    OBVIOUS
  <2>1. CASE Next
    <3>1. Hardware /\ BusStep
      BY <2>1, BusSteps DEF IInv
    <3>2. FlagEdgeOK'
      BY <3>1, NicAssumption, FlagEdgeKept DEF IInv, SeenInv, Hardware
    <3>3. ClearOK' /\ FlagOK'
      BY <3>1, ClearKept, FlagMoves DEF IInv, SeenInv, Hardware
    <3>4. SeenOK'
      BY <2>1, SeenKept
    <3>. QED
      BY <3>2, <3>3, <3>4 DEF SeenInv
  <2>2. CASE UNCHANGED vars
    BY <2>2 DEF vars, SeenInv, FlagEdgeOK, ClearOK, FlagOK, SeenOK, Reading, LengthTaken,
                NoneSince, LastEnded
  <2>. QED
    BY <2>1, <2>2
<1>. QED
  BY <1>1, <1>2, Invariant, PTL DEF Spec

\* Whatever arrives while receive() reads: the words it copies are of the frame
\* whose length it read and of later ones, in order and all of frames that have
\* ended, and a later one is still flagged afterwards.
THEOREM CopiesInOrder == Spec => []ReceivedInOrder
<1>1. IInv /\ SeenInv => ReceivedInOrder
  <2>. SUFFICES ASSUME IInv, SeenInv, Received
                PROVE  /\ main.len <= main.word /\ main.word <= ip2bus.len /\ ip2bus.len <= LastEnded
                       /\ main.len < ip2bus.len => data_rdy[1]
    BY DEF ReceivedInOrder
  <2>1. main.pc = "last" /\ bus.by = "main" /\ bus.k = 4
    BY DEF Received, Done, Ends
  <2>2. rd_buf \in Nat /\ LastEnded \in Nat /\ rd_buf <= LastEnded
    BY DEF IInv, LineOK, BufferOK, Held, Aged, LastEnded
  <2>3. /\ main.len \in 1..rd_buf /\ main.word \in main.len..rd_buf
        /\ ip2bus.len \in main.len..rd_buf /\ main.word <= ip2bus.len
    BY <2>1 DEF IInv, ReadOK
  <2>4. main.len < rd_buf => data_rdy[1]
    BY <2>1 DEF SeenInv, SeenOK, Reading, LengthTaken,
                NoneSince, LastEnded
  <2>. QED
    BY <2>2, <2>3, <2>4
<1>. QED
  BY <1>1, Invariant, SeenInvariant, PTL

-----------------------------------------------------------------------------
(* The periodic interrupt *)

\* A pulse is on its way to the status register, one stage at a time; the
\* next one is not raised before the register is clear.
Coming == intxms[1] \/ intxms[2] \/ intxms[3]
PulseOK ==
    /\ intxms \in [1..4 -> BOOLEAN]
    /\ intxms[1] => ~intxms[2] /\ ~intxms[3]
    /\ intxms[2] => ~intxms[3]
    /\ intxms[3] => ~intxms[4]
    /\ int_status.xms \in BOOLEAN
    /\ Coming => ~int_status.xms

\* The interrupt thread alone reads the status register, and not again before
\* its last read has cleared it.
Clearing == "INT_STS" \in {read_clear[1], read_clear[2]}
Serving == bus.reg = "INT_STS"
ServeOK ==
    /\ Serving <=> bus.by = "isr"
    /\ Serving => bus.k \in 1..4 /\ ~Clearing

\* The value it takes is the one of the second edge.
Shown == Serving /\ bus.k \in 3..4
TakenOK ==
    /\ ip2bus.xms \in BOOLEAN
    /\ ip2bus.xms => Shown /\ int_status.xms

\* A pulse has been counted, as taken or as blurred, when a read is about to
\* clear it that shows it no more.
Counted == Clearing \/ (Shown /\ ~ip2bus.xms)
Outstanding == Coming \/ (int_status.xms /\ ~Counted)
CountOK ==
    /\ ticks \in Nat /\ alarms \in Nat /\ blurred \in Nat
    /\ ticks = alarms + blurred + (IF Outstanding THEN 1 ELSE 0)

TickInv == PulseOK /\ ServeOK /\ TakenOK /\ CountOK

\* The pulse moves on by a stage.
LEMMA PulseMoves ==
    ASSUME PulseOK, Interrupts, ticks \in Nat
    PROVE  /\ intxms' \in [1..4 -> BOOLEAN]
           /\ intxms'[2] = intxms[1] /\ intxms'[3] = intxms[2] /\ intxms'[4] = intxms[3]
           /\ ticks' = ticks + (IF intxms'[1] THEN 1 ELSE 0)
           /\ intxms'[1] => ~Coming /\ ~int_status.xms
<1>1. CASE RaiseTick
  <2>1. ~intxms[1] /\ ~intxms[2] /\ ~intxms[3] /\ ~intxms[4]
    BY <1>1 DEF RaiseTick, Low
  <2>2. /\ Shift(TRUE, intxms) \in [1..4 -> BOOLEAN] /\ Shift(TRUE, intxms)[1] = TRUE
        /\ Shift(TRUE, intxms)[2] = intxms[1] /\ Shift(TRUE, intxms)[3] = intxms[2]
        /\ Shift(TRUE, intxms)[4] = intxms[3]
    BY ShiftFour DEF PulseOK
  <2>3. intxms' = Shift(TRUE, intxms) /\ ticks' = ticks + 1 /\ ~int_status.xms
    BY <1>1 DEF RaiseTick
  <2>4. ~Coming
    BY <2>1 DEF Coming
  <2>. QED
    BY <2>2, <2>3, <2>4
<1>2. CASE NoTick
  <2>1. /\ Shift(FALSE, intxms) \in [1..4 -> BOOLEAN] /\ Shift(FALSE, intxms)[1] = FALSE
        /\ Shift(FALSE, intxms)[2] = intxms[1] /\ Shift(FALSE, intxms)[3] = intxms[2]
        /\ Shift(FALSE, intxms)[4] = intxms[3]
    BY ShiftFour DEF PulseOK
  <2>2. intxms' = Shift(FALSE, intxms) /\ ticks' = ticks
    BY <1>2 DEF NoTick
  <2>3. /\ intxms' \in [1..4 -> BOOLEAN] /\ intxms'[1] = FALSE
        /\ intxms'[2] = intxms[1] /\ intxms'[3] = intxms[2] /\ intxms'[4] = intxms[3]
    BY <2>1, <2>2
  <2>4. ticks' = ticks + 0
    BY <2>2
  <2>. QED
    BY <2>3, <2>4
<1>. QED
  BY <1>1, <1>2 DEF Interrupts

\* It reaches the status register at its third stage.
LEMMA Edges ==
    ASSUME PulseOK
    PROVE  EdgeOf(Delays) <=> intxms[3]
<1>1. intxms \in Seq(BOOLEAN) /\ Len(intxms) = 4
  <2>. DEFINE n == 4
  <2>1. n \in Nat \ {0} /\ intxms \in [1..n -> BOOLEAN]
    BY DEF PulseOK
  <2>. HIDE DEF n
  <2>2. intxms \in Seq(BOOLEAN) /\ Len(intxms) = n
    BY <2>1, Stages
  <2>. QED
    BY <2>2 DEF n
<1>2. Delays[2] = intxms[3] /\ Delays[3] = intxms[4]
  BY <1>1, SubSeqProperties DEF Delays
<1>. QED
  BY <1>2 DEF EdgeOf, PulseOK

LEMMA StatusNext ==
    ASSUME PulseOK, Interrupts
    PROVE  /\ int_status'.xms \in BOOLEAN
           /\ int_status'.xms <=> read_clear[2] # "INT_STS" /\ (int_status.xms \/ intxms[3])
<1>1. CASE Clears("INT_STS")
  <2>1. int_status' = [rx |-> FALSE, xms |-> FALSE]
    BY <1>1 DEF Interrupts, Status
  <2>. QED
    BY <1>1, <2>1 DEF Clears
<1>2. CASE ~Clears("INT_STS")
  <2>1. int_status' = [rx  |-> int_status.rx \/ EdgeOf(int_rx_all),
                       xms |-> int_status.xms \/ EdgeOf(Delays)]
    BY <1>2 DEF Interrupts, Status
  <2>2. int_status'.xms = (int_status.xms \/ EdgeOf(Delays))
    BY <2>1
  <2>. QED
    BY <1>2, <2>2, Edges DEF Clears
<1>. QED
  BY <1>1, <1>2

\* A pulse on its way finds the register clear.
LEMMA PulseKept ==
    ASSUME PulseOK, Interrupts, ticks \in Nat
    PROVE  PulseOK'
<1>1. /\ intxms' \in [1..4 -> BOOLEAN]
      /\ intxms'[2] = intxms[1] /\ intxms'[3] = intxms[2] /\ intxms'[4] = intxms[3]
      /\ intxms'[1] => ~Coming /\ ~int_status.xms
  BY PulseMoves
<1>2. /\ int_status'.xms \in BOOLEAN
      /\ int_status'.xms => int_status.xms \/ intxms[3]
  BY StatusNext
<1>3. Coming' => ~int_status'.xms
  BY <1>1, <1>2 DEF PulseOK, Coming
<1>. QED
  BY <1>1, <1>2, <1>3 DEF PulseOK, Coming

-----------------------------------------------------------------------------
(* The reads of the status register *)

\* The bus is taken by one of the threads, or its access goes on.
Moves ==
    \/ Serve
    \/ \E reg \in {"RX_FLEN", "RX_BUF"} : Access("main", reg)
    \/ BusGoesOn

LEMMA BusMoves ==
    ASSUME Next
    PROVE  Hardware /\ Moves
  BY DEF Next, Moves, Poll, ReadOn, Waiting

LEMMA Turns ==
    ASSUME BusOK, ServeOK, Transfer, Moves
    PROVE  /\ Clearing' <=> (Serving /\ bus.k = 4) \/ read_clear[1] = "INT_STS"
           /\ ServeOK'
           /\ Serving /\ bus.k < 4 => Serving' /\ bus'.k = bus.k + 1
           /\ Shown' => Serving /\ bus.k \in 2..3
<1>1. Clearing' <=> (Serving /\ bus.k = 4) \/ read_clear[1] = "INT_STS"
  <2>1. read_clear' = <<IF Ends THEN bus.reg ELSE "none", read_clear[1]>>
    BY DEF Transfer
  <2>2. read_clear'[1] = (IF Ends THEN bus.reg ELSE "none") /\ read_clear'[2] = read_clear[1]
    BY <2>1
  <2>. QED
    BY <2>2 DEF Clearing, Serving, Ends
<1>2. CASE Serve
  <2>1. BusFree /\ bus' = [by |-> "isr", reg |-> "INT_STS", k |-> 1] /\ ~Clearing
    BY <1>2 DEF Serve, Access, Clearing
  <2>2. ~Serving /\ read_clear[1] # "INT_STS"
    BY <2>1 DEF ServeOK, BusFree, Clearing
  <2>. QED
    BY <1>1, <2>1, <2>2 DEF ServeOK, Serving, Shown
<1>3. ASSUME NEW reg \in {"RX_FLEN", "RX_BUF"}, Access("main", reg)
      PROVE  ~Serving /\ ~Serving' /\ bus'.by = "main"
  BY <1>3 DEF ServeOK, Access, BusFree, Serving
<1>4. CASE \E reg \in {"RX_FLEN", "RX_BUF"} : Access("main", reg)
  BY <1>1, <1>3, <1>4 DEF ServeOK, Shown
<1>5. CASE BusGoesOn /\ (BusFree \/ Ends)
  <2>1. bus' = Idle
    BY <1>5 DEF BusGoesOn
  <2>2. ~Serving' /\ bus'.by = "none"
    BY <2>1 DEF Serving, Idle
  <2>. QED
    BY <1>1, <1>5, <2>2 DEF ServeOK, Shown, BusFree, Ends
<1>6. CASE BusGoesOn /\ ~BusFree /\ ~Ends
  <2>1. bus' = [bus EXCEPT !.k = @ + 1]
    BY <1>6 DEF BusGoesOn
  <2>2. bus'.by = bus.by /\ bus'.reg = bus.reg /\ bus'.k = bus.k + 1 /\ bus.k \in 1..3
    BY <1>6, <2>1 DEF BusOK, BusFree, Ends
  <2>3. Serving => read_clear[1] # "INT_STS"
    BY DEF ServeOK, Clearing
  <2>. QED
    BY <1>1, <2>2, <2>3 DEF ServeOK, Shown, Serving
<1>. QED
  BY <1>2, <1>4, <1>5, <1>6 DEF Moves

\* What the bus shows of the register is what the second edge found there.
LEMMA ValueShown ==
    ASSUME BusOK, TakenOK, PulseOK, Transfer
    PROVE  /\ Serving /\ bus.k = 2 => ip2bus'.xms = int_status.xms
           /\ Serving /\ bus.k = 3 => ip2bus'.xms = ip2bus.xms
           /\ ~Serving \/ bus.k \notin 2..3 => ip2bus'.xms = FALSE
           /\ ip2bus'.xms \in BOOLEAN
<1>1. /\ Value("INT_STS").xms = int_status.xms
      /\ Value("RX_FLEN").xms = FALSE /\ Value("RX_BUF").xms = FALSE
  <2>1. Value("INT_STS") = [NoData EXCEPT !.xms = int_status.xms]
    BY DEF Value
  <2>2. Value("RX_FLEN") = [NoData EXCEPT !.rdy = data_rdy[1], !.len = frm_len]
    BY DEF Value
  <2>3. Value("RX_BUF") = [NoData EXCEPT !.len = rd_buf]
    BY DEF Value
  <2>. QED
    BY <2>1, <2>2, <2>3 DEF NoData
<1>2. CASE bus.k = 2
  <2>1. ip2bus' = Value(bus.reg)
    BY <1>2 DEF Transfer
  <2>2. bus.reg \in {"RX_FLEN", "RX_BUF", "INT_STS"}
    BY <1>2 DEF BusOK
  <2>. QED
    <3>1. CASE Serving
      BY <1>1, <1>2, <2>1, <3>1 DEF Serving, PulseOK
    <3>2. CASE ~Serving
      <4>1. ip2bus'.xms = FALSE
        BY <1>1, <2>1, <2>2, <3>2 DEF Serving
      <4>. QED
        BY <3>2, <4>1
    <3>. QED
      BY <3>1, <3>2
<1>3. CASE bus.k \in {1, 3}
  <2>1. ip2bus' = ip2bus
    BY <1>3 DEF Transfer
  <2>2. ~Serving \/ bus.k = 1 => ip2bus.xms = FALSE
    BY <1>3 DEF TakenOK, Shown
  <2>3. bus.k \notin 2..3 => bus.k = 1
    BY <1>3
  <2>. QED
    BY <1>3, <2>1, <2>2, <2>3 DEF TakenOK
<1>4. CASE bus.k \in {0, 4}
  <2>1. ip2bus' = NoData
    BY <1>4 DEF Transfer
  <2>2. ip2bus'.xms = FALSE /\ bus.k # 2 /\ bus.k # 3
    BY <1>4, <2>1 DEF NoData
  <2>. QED
    BY <2>2
<1>5. bus.k = 2 \/ bus.k \in {1, 3} \/ bus.k \in {0, 4}
  BY DEF BusOK
<1>. QED
  BY <1>2, <1>3, <1>4, <1>5

LEMMA TakenKept ==
    ASSUME BusOK, PulseOK, ServeOK, TakenOK, Hardware, Moves, ticks \in Nat
    PROVE  TakenOK'
<1>. USE DEF Hardware
<1>1. ip2bus'.xms \in BOOLEAN
  BY ValueShown DEF PulseOK, TakenOK
<1>2. ASSUME ip2bus'.xms
      PROVE  Shown' /\ int_status'.xms
  <2>1. Serving /\ bus.k \in 2..3 /\ int_status.xms
    <3>1. Serving /\ bus.k \in 2..3
      BY <1>2, ValueShown
    <3>2. bus.k = 2 \/ bus.k = 3
      BY <3>1
    <3>. QED
      BY <1>2, <3>1, <3>2, ValueShown DEF TakenOK
  <2>2. read_clear[2] # "INT_STS"
    BY <2>1 DEF ServeOK, Clearing
  <2>3. bus'.k \in 3..4 /\ Serving'
    BY <2>1, Turns
  <2>. QED
    BY <2>1, <2>2, <2>3, StatusNext DEF Shown
<1>. QED
  BY <1>1, <1>2 DEF TakenOK

-----------------------------------------------------------------------------
(* Every pulse is counted once *)

LEMMA CountKept ==
    ASSUME BusOK, TickInv, Hardware, Moves
    PROVE  CountOK'
<1>. USE DEF Hardware
<1>. DEFINE Came == intxms[3]
            Alarm == Serving /\ bus.k = 4 /\ ip2bus.xms
            Blur == Came /\ (Shown \/ (Serving /\ bus.k = 2) \/ Clearing)
<1>1. /\ ticks \in Nat /\ alarms \in Nat /\ blurred \in Nat
      /\ ticks = alarms + blurred + (IF Outstanding THEN 1 ELSE 0)
  BY DEF TickInv, CountOK
<1>2. /\ ticks' = ticks + (IF intxms'[1] THEN 1 ELSE 0)
      /\ alarms' = alarms + (IF Alarm THEN 1 ELSE 0)
      /\ blurred' = blurred + (IF Blur THEN 1 ELSE 0)
  <2>1. ticks' = ticks + (IF intxms'[1] THEN 1 ELSE 0)
    BY <1>1, PulseMoves DEF TickInv
  <2>2. alarms' = alarms + (IF Alarm THEN 1 ELSE 0)
    BY <1>1 DEF Ghosts, Done, Ends, TickInv, ServeOK
  <2>3. BlurredTick <=> Blur
    BY Edges DEF BlurredTick, TickInv, ServeOK, Shown, Serving, Clearing
  <2>. QED
    BY <1>1, <2>1, <2>2, <2>3 DEF Ghosts
<1>3. /\ Coming' <=> intxms'[1] \/ (Coming /\ ~Came)
      /\ Came => Coming /\ ~int_status.xms
      /\ intxms'[1] => ~Coming /\ ~int_status.xms
      /\ Coming => ~int_status.xms
  BY PulseMoves, <1>1 DEF TickInv, PulseOK, Coming
<1>4. int_status'.xms <=> read_clear[2] # "INT_STS" /\ (int_status.xms \/ Came)
  BY StatusNext DEF TickInv
<1>. HIDE DEF Came
<1>5. Outstanding' <=> intxms'[1] \/ (Outstanding /\ ~Blur /\ ~Alarm)
  <2>1. CASE Serving /\ bus.k = 1
    BY <1>3, <1>4, <2>1, Turns DEF TickInv, ServeOK, Outstanding, Counted, Shown, Clearing
  <2>2. CASE Serving /\ bus.k = 2
    BY <1>3, <1>4, <2>2, Turns, ValueShown DEF TickInv, ServeOK, Outstanding, Counted, Shown, Clearing
  <2>3. CASE Serving /\ bus.k = 3
    BY <1>3, <1>4, <2>3, Turns, ValueShown
       DEF TickInv, ServeOK, TakenOK, Outstanding, Counted, Shown, Clearing
  <2>4. CASE Serving /\ bus.k = 4
    BY <1>3, <1>4, <2>4, Turns, ValueShown
       DEF TickInv, ServeOK, TakenOK, Outstanding, Counted, Shown, Clearing
  <2>5. CASE ~Serving
    BY <1>3, <1>4, <2>5, Turns DEF TickInv, ServeOK, TakenOK, Outstanding, Counted, Shown, Clearing
  <2>. QED
    BY <2>1, <2>2, <2>3, <2>4, <2>5 DEF TickInv, ServeOK
<1>6. /\ intxms'[1] => ~Outstanding
      /\ Blur \/ Alarm => Outstanding /\ ~(Blur /\ Alarm)
  BY <1>3 DEF TickInv, TakenOK, ServeOK, Outstanding, Counted, Shown, Clearing
<1>. HIDE DEF Blur, Alarm
<1>. QED
  BY <1>1, <1>2, <1>5, <1>6 DEF CountOK

\* TickInv is an invariant of the NIC: a periodic interrupt is on its way, or
\* waits in the status register, or has been counted.
THEOREM TickInvariant == Spec => []TickInv
<1>1. Init => TickInv
  <2>. SUFFICES ASSUME Init
                PROVE  TickInv
    OBVIOUS
  <2>1. intxms \in [1..4 -> BOOLEAN] /\ ~intxms[1] /\ ~intxms[2] /\ ~intxms[3] /\ ~intxms[4]
    BY DEF Init, Low
  <2>2. /\ int_status.xms = FALSE /\ ip2bus.xms = FALSE /\ ~Serving /\ bus.by = "none"
        /\ ticks = 0 /\ alarms = 0 /\ blurred = 0
    BY DEF Init, NoData, Idle, Serving
  <2>3. PulseOK /\ ~Coming
    BY <2>1, <2>2 DEF PulseOK, Coming
  <2>4. ServeOK /\ TakenOK
    BY <2>2 DEF ServeOK, TakenOK
  <2>5. CountOK
    <3>1. ~Outstanding
      BY <2>2, <2>3 DEF Outstanding
    <3>. QED
      BY <2>2, <3>1 DEF CountOK
  <2>. QED
    BY <2>3, <2>4, <2>5 DEF TickInv
<1>2. IInv /\ TickInv /\ [Next]_vars => TickInv'
  <2>. SUFFICES ASSUME IInv, TickInv, [Next]_vars
                PROVE  TickInv'
    OBVIOUS
  <2>1. CASE Next
    <3>1. Hardware /\ Moves
      BY <2>1, BusMoves
    <3>2. PulseOK'
      BY <3>1, PulseKept DEF TickInv, CountOK, Hardware
    <3>3. ServeOK' /\ TakenOK'
      BY <3>1, Turns, TakenKept DEF TickInv, CountOK, IInv, Hardware
    <3>4. CountOK'
      BY <3>1, CountKept DEF IInv
    <3>. QED
      BY <3>2, <3>3, <3>4 DEF TickInv
  <2>2. CASE UNCHANGED vars
    BY <2>2 DEF vars, TickInv, PulseOK, ServeOK, TakenOK, CountOK, Outstanding, Coming, Counted,
                Shown, Serving, Clearing
  <2>. QED
    BY <2>1, <2>2
<1>. QED
  BY <1>1, <1>2, Invariant, PTL DEF Spec

\* The interrupt thread calls catch_alarm at most once for a periodic
\* interrupt, and misses none but those that met a read of the status register.
THEOREM TicksCounted == Spec => []TicksTaken
<1>1. TickInv => TicksTaken
  <2>. SUFFICES ASSUME TickInv
                PROVE  TicksTaken
    OBVIOUS
  <2>1. Resting => ~Outstanding
    BY DEF Resting, Low, Outstanding, Coming
  <2>. QED
    BY <2>1 DEF TicksTaken, TickInv, CountOK
<1>. QED
  BY <1>1, TickInvariant, PTL
=============================================================================
