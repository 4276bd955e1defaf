--------------------------- MODULE UsartRxProofs ----------------------------
(***************************************************************************)
(* What the receiver promises, for every size of its buffer and of the     *)
(* lines, and any number of panics.                                        *)
(***************************************************************************)
EXTENDS UsartRx, WellFoundedInduction, TLAPS

-----------------------------------------------------------------------------
(* The inductive invariant. *)

\* a byte waits in the data register only while the stream is off, and until
\* a pause has come
Wire ==
  /\ dr # None => ~dmaOn /\ (pause \/ idle)
  /\ dmaOn => Len(buf) < RxMax

\* nobody types between a panic and the next login screen
Silent == ~fresh => typed = <<>> /\ ~sent /\ ~overlong

\* once a line is complete the buffer rests, with the length that was
\* measured, until the line is taken; a panic ends this, and the next login
\* screen restores it
Rests ==
  fresh =>
    /\ pc # "poll" => complete
    /\ complete => ~dmaOn /\ rxLen = Len(buf)
    /\ irqIdle \in {"stopped", "cleared", "measured"} => ~dmaOn
    /\ irqIdle = "measured" => rxLen = Len(buf)
    /\ irqTc # "off" => ~dmaOn /\ Len(buf) = RxMax
    /\ irqTc = "measured" => rxLen = RxMax
    /\ tcif => ~dmaOn /\ (Len(buf) = RxMax \/ irqIdle = "stopped")

\* what is typed at a fresh screen
Now == {2 * panics, 2 * panics + 1}

\* no byte of before the panic is on its way
Genuine ==
  fresh =>
    /\ \A k \in 1..Len(buf) : buf[k] \in {"char", "CR", "LF"} \X Now
    /\ dr # None => dr \in {"char", "CR", "LF"} \X Now
    /\ pc \in {"look", "swallow", "arm"} => \A k \in 1..Len(copy) : copy[k] \in {"char"} \X Now

\* every line of this screen fits
Tidy == fresh /\ ~overlong

EnterKind == IF term = "LF" THEN "LF" ELSE "CR"

\* the buffer holds the LF of the line before (k = 1) or not, then what was
\* typed, then the Enter (t = 1), and its LF (t = 2)
Text(k, t) ==
  LET n == Len(typed)
  IN  /\ Len(buf) = k + n + t
      /\ k = 1 => Kind(buf[1]) = "LF" /\ term = "CRLF" /\ (swallow \/ pc = "arm")
      /\ \A j \in 1..n : buf[k + j] = typed[j]
      /\ t = 0 <=> ~sent
      /\ t > 0 => Kind(buf[k + n + 1]) = EnterKind
      /\ t = 2 => term = "CRLF" /\ Kind(buf[k + n + 2]) = "LF" /\ ~lfDue /\ dr = None
      /\ pc \in {"look", "swallow", "arm"} => received = Len(buf) /\ end = k + n + 1 /\ copy = Fitting(typed, cap)
      /\ pc \in {"swallow", "arm"} => (loneCr <=> t = 1 /\ term # "LF")

Typed ==
  Tidy =>
    /\ typed \in Seq({"char"} \X Prompts) /\ (typed = <<>> \/ Len(typed) + 2 <= RxMax)
    /\ ~dmaOn \/ irqIdle # "off" => sent
    /\ \E k \in {0, 1}, t \in 0..2 : Text(k, t)
    /\ pc = "arm" => swallow = loneCr
    /\ term = "LF" => ~swallow

\* the LF of the last Enter: still to come, or at most in the data register
LateLf ==
  Tidy =>
    /\ lfDue => term = "CRLF" /\ dr = None
    /\ lfDue /\ ~sent => buf = <<>> /\ typed = <<>> /\ swallow /\ pc = "poll"
    /\ dr # None => Kind(dr) = "LF" /\ term = "CRLF" /\ ~lfDue

IInv == TypeOK /\ Wire /\ Silent /\ Rests /\ Genuine /\ Typed /\ LateLf


-----------------------------------------------------------------------------
(* The operators of line_buf.c. *)

\* the bounds
LEMMA Bounds == RxMax \in Nat /\ RxMax > 1 /\ LineMax \in Nat /\ MaxPanics \in Nat
BY RxAssumption, MaxPanicsAssumption

\* a byte is a kind and a prompt, never None
LEMMA ByteIs ==
  ASSUME NEW b \in Bytes
  PROVE  b # None /\ <<b>> \in Seq(Bytes) /\ Len(<<b>>) = 1
<1>1. Len(b) = 2
  BY DEF Bytes
<1>2. Len(None) = 0
  BY DEF None
<1> QED BY <1>1, <1>2

\* what the terminal sends at this prompt
LEMMA PromptIs ==
  ASSUME TypeOK
  PROVE  /\ Prompt \in Prompts /\ Prompt \in {2 * panics, 2 * panics + 1}
         /\ \A kind \in {"char", "CR", "LF"} : <<kind, Prompt>> \in Bytes
<1>1. panics \in Nat /\ panics <= MaxPanics /\ MaxPanics \in Nat
  BY Bounds DEF TypeOK, CountTypes
<1>2. Prompt = 2 * panics \/ Prompt = 2 * panics + 1
  BY <1>1 DEF Prompt
<1>3. Prompt \in Prompts
  BY <1>1, <1>2 DEF Prompts
<1> QED BY <1>2, <1>3 DEF Bytes

\* the bytes that TakeLine looks at
LEMMA BufferedIs ==
  ASSUME TypeOK, NEW n \in 0..RxMax
  PROVE  /\ Buffered(n) \in Seq(Bytes) /\ Len(Buffered(n)) = n
         /\ n <= Len(buf) => \A k \in 1..n : Buffered(n)[k] = buf[k]
<1>1. n \in Nat /\ buf \in Seq(Bytes) /\ Len(buf) \in Nat
  BY Bounds DEF TypeOK, WireTypes
<1>2. <<"NUL", 0>> \in Bytes
  BY DEF Bytes
<1>3. Buffered(n) \in [1..n -> Bytes]
  BY <1>1, <1>2 DEF Buffered
<1>4. Buffered(n) \in Seq(Bytes) /\ Len(Buffered(n)) = n
  BY <1>1, <1>3
<1> QED BY <1>1, <1>4 DEF Buffered

\* LineBuf_Start skips one byte at most
LEMMA StartIs ==
  ASSUME NEW n \in Nat
  PROVE  LineBuf_Start(n) \in {1, 2} /\ LineBuf_Start(n) <= n + 1
BY DEF LineBuf_Start

\* a set of numbers has a least one
LEMMA Least ==
  ASSUME NEW S \in SUBSET Nat, S # {}
  PROVE  \E m \in S : \A x \in S : m <= x
<1> DEFINE R == OpToRel(<, Nat)
<1>1. IsWellFoundedOn(R, Nat)
  BY NatLessThanWellFounded
<1>2. ASSUME NEW x \in Nat, NEW y \in Nat, y < x PROVE <<y, x>> \in R
  BY <1>2 DEF OpToRel
<1> HIDE DEF R
<1>3. PICK m \in S : \A y \in S : ~ (<<y, m>> \in R)
  BY <1>1, WFMin, Zenon
<1>4. \A x \in S : ~ (x < m)
  BY <1>2, <1>3
<1> QED BY <1>3, <1>4

\* LineBuf_FindEnd stops at the first Enter, or after the last byte
LEMMA EndIs ==
  ASSUME NEW kinds, NEW n \in Nat, NEW from \in 1..(n + 1)
  PROVE  LET e == EndAmong(kinds, from, n)
         IN  /\ e \in from..(n + 1)
             /\ \A k \in from..(e - 1) : Kind(Buffered(n)[k]) \notin kinds
             /\ e <= n => Kind(Buffered(n)[e]) \in kinds
<1> DEFINE ends == {k \in from..n : Kind(Buffered(n)[k]) \in kinds}
           e    == EndAmong(kinds, from, n)
<1>1. CASE ends = {}
  <2>1. e = n + 1
    BY <1>1 DEF EndAmong
  <2>2. \A k \in from..n : Kind(Buffered(n)[k]) \notin kinds
    BY <1>1
  <2> HIDE DEF e
  <2>3. e \in from..(n + 1) /\ ~ (e <= n) /\ e - 1 = n
    BY <2>1
  <2> QED BY <2>2, <2>3 DEF e
<1>2. CASE ends # {}
  <2>1. ends \in SUBSET Nat
    OBVIOUS
  <2>2. \E m \in ends : \A x \in ends : m <= x
    BY <1>2, <2>1, Least
  <2>3. e = CHOOSE k \in ends : \A l \in ends : k <= l
    BY <1>2 DEF EndAmong
  <2> HIDE DEF e
  <2>4. e \in ends /\ \A l \in ends : e <= l
    BY <2>2, <2>3
  <2>5. e \in from..n /\ Kind(Buffered(n)[e]) \in kinds
    BY <2>4
  <2>6. ASSUME NEW k \in from..(e - 1) PROVE Kind(Buffered(n)[k]) \notin kinds
    BY <2>4, <2>5
  <2>7. e \in from..(n + 1)
    BY <2>5
  <2> QED BY <2>5, <2>6, <2>7 DEF e
<1> QED BY <1>1, <1>2

-----------------------------------------------------------------------------
(* The invariant holds at first, and every step keeps its parts. *)

\* the receiver starts at rest, and nothing was typed
LEMMA InitIInv == Init => IInv
<1> SUFFICES ASSUME Init PROVE IInv
  OBVIOUS
<1>1. buf = <<>> /\ dr = None /\ rxLen = 0 /\ cap = 0 /\ received = 0 /\ end = 1 /\ copy = <<>> /\ typed = <<>> /\ panics = 0
  BY Zenon DEF Init
<1>2. /\ dmaOn = TRUE /\ tcif = FALSE /\ idle = FALSE /\ pause = FALSE /\ complete = FALSE /\ swallow = FALSE
      /\ loneCr = FALSE /\ fresh = TRUE /\ sent = FALSE /\ overlong = FALSE /\ lfDue = FALSE /\ even = TRUE
  BY Zenon DEF Init
<1>3. irqIdle = "off" /\ irqTc = "off" /\ pc = "poll" /\ term \in {"CR", "LF", "CRLF"}
  BY Zenon DEF Init
<1>4. TypeOK
  <2>1. WireTypes
    BY <1>1, Bounds DEF WireTypes
  <2>2. FlagTypes
    BY <1>2, Zenon DEF FlagTypes
  <2>3. PhaseTypes
    BY <1>3 DEF PhaseTypes
  <2>4. CountTypes
    BY <1>1, Bounds DEF CountTypes
  <2>5. LineTypes
    BY <1>1, Bounds DEF LineTypes
  <2> QED BY <2>1, <2>2, <2>3, <2>4, <2>5 DEF TypeOK
<1>5. Wire /\ Silent /\ Rests /\ Genuine
  <2>1. Len(buf) = 0
    BY <1>1
  <2>2. Wire
    BY <1>1, <2>1, Bounds DEF Wire
  <2>3. 1..Len(buf) = {}
    BY <2>1
  <2>4. Genuine
    BY <1>1, <1>3, <2>3 DEF Genuine
  <2>5. Silent /\ Rests
    BY <1>1, <1>2, <1>3 DEF Silent, Rests
  <2> QED BY <2>2, <2>4, <2>5
<1>6. Typed
  <2>1. typed \in Seq({"char"} \X Prompts)
    BY <1>1
  <2>2. Text(0, 0)
    <3>1. Len(buf) = 0 /\ Len(typed) = 0 /\ 1..Len(typed) = {}
      BY <1>1
    <3>2. \A j \in 1..Len(typed) : buf[0 + j] = typed[j]
      BY <3>1
    <3>3. ~sent /\ pc = "poll"
      BY <1>2, <1>3
    <3> QED BY <3>1, <3>2, <3>3 DEF Text
  <2>3. \E k \in {0, 1}, t \in 0..2 : Text(k, t)
    BY <2>2
  <2> QED BY <1>1, <1>2, <1>3, <2>1, <2>3 DEF Typed
<1>7. LateLf
  BY <1>1, <1>2 DEF LateLf
<1> QED BY <1>4, <1>5, <1>6, <1>7 DEF IInv

\* the receiver, armed again
LEMMA ArmIs ==
  ASSUME IInv, Arm
  PROVE  /\ buf' \in Seq(Bytes) /\ Len(buf') < RxMax /\ dr' = None /\ dmaOn' = TRUE /\ tcif' = FALSE
         /\ dr = None => buf' = <<>> /\ Len(buf') = 0
         /\ dr # None => dr \in Bytes /\ Len(buf') = 1 /\ buf'[1] = dr
<1>1. dr \in Bytes \cup {None}
  BY DEF IInv, TypeOK, WireTypes
<1>2. CASE dr = None
  BY <1>2, Bounds DEF Arm
<1>3. CASE dr # None
  <2>1. dr \in Bytes /\ buf' = <<dr>>
    BY <1>1, <1>3 DEF Arm
  <2> QED BY <1>3, <2>1, Bounds, ByteIs DEF Arm
<1> QED BY <1>2, <1>3

\* a byte that comes
LEMMA ReceiveIs ==
  ASSUME IInv, NEW b \in Bytes, Receive(b)
  PROVE  /\ pause' = TRUE
         /\ UNCHANGED <<idle, rxLen, complete, swallow, irqIdle, irqTc, mainVars, panics>>
         /\ \/ /\ dmaOn /\ buf' = Append(buf, b) /\ buf' \in Seq(Bytes) /\ Len(buf') = Len(buf) + 1
               /\ \A k \in 1..Len(buf) : buf'[k] = buf[k]
               /\ buf'[Len(buf) + 1] = b
               /\ Len(buf') <= RxMax /\ (dmaOn' <=> Len(buf') < RxMax)
               /\ (tcif' <=> tcif \/ Len(buf') = RxMax) /\ dr' = dr
            \/ ~dmaOn /\ dr = None /\ dr' = b /\ UNCHANGED <<buf, dmaOn, tcif>>
            \/ ~dmaOn /\ dr # None /\ UNCHANGED <<buf, dmaOn, tcif, dr>>
<1>1. pause' = TRUE /\ UNCHANGED <<idle, rxLen, complete, swallow, irqIdle, irqTc, mainVars, panics>>
  BY DEF Receive
<1>2. buf \in Seq(Bytes) /\ RxMax \in Nat
  BY Bounds DEF IInv, TypeOK, WireTypes
<1>3. CASE ~dmaOn
  BY <1>1, <1>3 DEF Receive
<1>4. CASE dmaOn
  <2>1. /\ buf' = Append(buf, b) /\ dmaOn' = (Len(buf) + 1 < RxMax)
        /\ tcif' = (tcif \/ Len(buf) + 1 = RxMax) /\ dr' = dr
    BY <1>4 DEF Receive
  <2>2. Len(buf) < RxMax
    BY <1>4 DEF IInv, Wire
  <2>3. /\ Append(buf, b) \in Seq(Bytes) /\ Len(Append(buf, b)) = Len(buf) + 1
        /\ \A k \in 1..Len(buf) : Append(buf, b)[k] = buf[k]
        /\ Append(buf, b)[Len(buf) + 1] = b
    BY <1>2
  <2>4. Len(buf) \in Nat /\ Len(buf) + 1 <= RxMax
    BY <1>2, <2>2
  <2> QED BY <1>1, <1>4, <2>1, <2>3, <2>4
<1> QED BY <1>3, <1>4

\* what the user types
LEMMA TerminalIs ==
  ASSUME IInv, Terminal
  PROVE  \E b \in Bytes : Receive(b) /\ b \in {"char", "CR", "LF"} \X Now
<1>1. TypeOK
  BY DEF IInv
<1>2. \E kind \in {"char", "CR", "LF"} : Receive(<<kind, Prompt>>)
  BY DEF Terminal, TypeChar, TypeEnter, TypeLf
<1> QED BY <1>1, <1>2, PromptIs DEF Now

\* which steps change the buffer
LEMMA BufSteps ==
  ASSUME [Next]_vars
  PROVE  \/ Terminal
         \/ IdleLook
         \/ Arm /\ (TakeArm \/ EnterLogin \/ Panic)
         \/ UNCHANGED <<buf, dr>>
<1>1. CASE LineIdle \/ UNCHANGED vars
  BY <1>1 DEF LineIdle, vars, rxVars
<1>2. CASE IrqIdle
  BY <1>2 DEF IrqIdle, IdleLook, IdleStop, IdleClearTc, IdleMeasure, IdleComplete
<1>3. CASE IrqTc
  BY <1>3 DEF IrqTc, TcLook, TcMeasure, TcComplete, TcFrame
<1>4. CASE Poll \/ TakeCopy \/ TakeLook \/ TakeSwallow
  BY <1>4 DEF Poll, TakeCopy, TakeLook, TakeSwallow, rxVars
<1>5. CASE TakeArm \/ EnterLogin \/ Panic
  BY <1>5 DEF TakeArm, EnterLogin, Panic, USART_Drv_WipeRx
<1> QED BY <1>1, <1>2, <1>3, <1>4, <1>5 DEF Next, Main

\* every step keeps the buffer within its size
LEMMA NextWireTypes ==
  ASSUME IInv, [Next]_vars
  PROVE  WireTypes'
<1>1. buf \in Seq(Bytes) /\ Len(buf) <= RxMax /\ dr \in Bytes \cup {None} /\ RxMax \in Nat
  BY Bounds DEF IInv, TypeOK, WireTypes
<1>2. CASE Terminal
  <2>1. PICK b \in Bytes : Receive(b)
    BY <1>2, TerminalIs
  <2>2. \/ buf' \in Seq(Bytes) /\ Len(buf') <= RxMax /\ dr' = dr
        \/ dr' = b /\ UNCHANGED buf
        \/ UNCHANGED <<buf, dr>>
    BY <2>1, ReceiveIs
  <2> QED BY <1>1, <2>1, <2>2 DEF WireTypes
<1>3. CASE IdleLook
  BY <1>1, <1>3 DEF IdleLook, WireTypes
<1>4. CASE Arm
  <2>1. buf' \in Seq(Bytes) /\ Len(buf') < RxMax /\ dr' = None
    BY <1>4, ArmIs
  <2>2. Len(buf') \in Nat
    BY <2>1
  <2>3. Len(buf') <= RxMax
    BY <1>1, <2>1, <2>2
  <2> QED BY <2>1, <2>3 DEF WireTypes
<1>5. CASE UNCHANGED <<buf, dr>>
  BY <1>1, <1>5 DEF WireTypes
<1> QED BY <1>2, <1>3, <1>4, <1>5, BufSteps

\* every step keeps the flags Boolean
LEMMA NextFlagTypes ==
  ASSUME IInv, [Next]_vars
  PROVE  FlagTypes'
<1>1. FlagTypes
  BY DEF IInv, TypeOK
<1> USE DEF FlagTypes
<1>2. CASE Terminal
  <2>1. PICK b \in Bytes : Receive(b)
    BY <1>2, TerminalIs
  <2>2. pause' = TRUE /\ UNCHANGED <<idle, complete, swallow, loneCr>>
    BY <2>1 DEF Receive, mainVars
  <2>3. dmaOn' \in BOOLEAN /\ tcif' \in BOOLEAN
    <3>1. CASE ~dmaOn
      BY <1>1, <2>1, <3>1 DEF Receive
    <3>2. CASE dmaOn
      <4> DEFINE full == (Len(buf) + 1 < RxMax)
                 tc   == (tcif \/ Len(buf) + 1 = RxMax)
      <4>1. full \in BOOLEAN /\ tc \in BOOLEAN
        <5>1. Len(buf) \in Nat /\ RxMax \in Nat
          BY Bounds DEF IInv, TypeOK, WireTypes
        <5>2. full \in BOOLEAN
          BY <5>1
        <5>3. tc \in BOOLEAN
          BY Zenon
        <5> QED BY <5>2, <5>3
      <4>2. dmaOn' = full /\ tcif' = tc
        BY <2>1, <3>2, Zenon DEF Receive
      <4> HIDE DEF full, tc
      <4> QED BY <4>1, <4>2, Zenon
    <3> QED BY <3>1, <3>2
  <2>4. CASE TypeChar
    <3>1. overlong' = (overlong \/ Len(typed) + 3 > RxMax) /\ UNCHANGED <<fresh, sent, lfDue, even>>
      BY <2>4, Zenon DEF TypeChar
    <3>2. overlong' \in BOOLEAN
      BY <3>1, Zenon
    <3> QED BY <1>1, <2>2, <2>3, <3>1, <3>2, Zenon
  <2>5. CASE TypeEnter
    <3>1. lfDue' = (term = "CRLF") /\ sent' = TRUE /\ UNCHANGED <<fresh, overlong, even>>
      BY <2>5, Zenon DEF TypeEnter
    <3>2. lfDue' \in BOOLEAN
      BY <3>1, Zenon
    <3> QED BY <1>1, <2>2, <2>3, <3>1, <3>2, Zenon
  <2>6. CASE TypeLf
    <3>1. lfDue' = FALSE /\ UNCHANGED <<fresh, sent, overlong, even>>
      BY <2>6, Zenon DEF TypeLf
    <3> QED BY <1>1, <2>2, <2>3, <3>1, Zenon
  <2> QED BY <1>2, <2>4, <2>5, <2>6 DEF Terminal
<1>3. CASE LineIdle \/ UNCHANGED vars
  <2>1. (pause' = pause \/ pause' = FALSE) /\ (idle' = idle \/ idle' = TRUE)
    BY <1>3 DEF LineIdle, vars
  <2>2. UNCHANGED <<dmaOn, tcif, complete, swallow, loneCr, fresh, sent, overlong, lfDue, even>>
    BY <1>3 DEF LineIdle, vars, rxVars, mainVars, userVars
  <2>3. pause' \in BOOLEAN
    BY <1>1, <2>1, Zenon
  <2>4. idle' \in BOOLEAN
    BY <1>1, <2>1, Zenon
  <2> QED BY <1>1, <2>2, <2>3, <2>4, Zenon
<1>4. CASE IrqIdle
  <2>1. UNCHANGED <<pause, loneCr, fresh, sent, overlong, lfDue, even>>
    BY <1>4 DEF IrqIdle, IdleLook, IdleStop, IdleClearTc, IdleMeasure, IdleComplete, IdleFrame, mainVars, userVars
  <2>2. UNCHANGED swallow /\ (idle' = idle \/ idle' = FALSE) /\ (complete' = complete \/ complete' = TRUE)
        /\ (dmaOn' = dmaOn \/ dmaOn' = FALSE)
    BY <1>4 DEF IrqIdle, IdleLook, IdleStop, IdleClearTc, IdleMeasure, IdleComplete
  <2>3. tcif' \in BOOLEAN
    <3>1. CASE IdleStop
      <4>1. tcif' = (tcif \/ dmaOn)
        BY <3>1, Zenon DEF IdleStop
      <4> QED BY <4>1, Zenon
    <3>2. CASE IdleLook \/ IdleClearTc \/ IdleMeasure \/ IdleComplete
      BY <1>1, <3>2 DEF IdleLook, IdleClearTc, IdleMeasure, IdleComplete
    <3> QED BY <1>4, <3>1, <3>2 DEF IrqIdle
  <2>4. idle' \in BOOLEAN /\ complete' \in BOOLEAN
    BY <1>1, <2>2, Zenon
  <2>5. dmaOn' \in BOOLEAN
    BY <1>1, <2>2, Zenon
  <2> QED BY <1>1, <2>1, <2>2, <2>3, <2>4, <2>5, Zenon
<1>5. CASE IrqTc
  <2>1. (tcif' = tcif \/ tcif' = FALSE) /\ (complete' = complete \/ complete' = TRUE)
    BY <1>5 DEF IrqTc, TcLook, TcMeasure, TcComplete
  <2>2. UNCHANGED <<dmaOn, idle, pause, swallow, loneCr, fresh, sent, overlong, lfDue, even>>
    BY <1>5 DEF IrqTc, TcLook, TcMeasure, TcComplete, TcFrame, mainVars, userVars
  <2>3. tcif' \in BOOLEAN
    BY <1>1, <2>1, Zenon
  <2>4. complete' \in BOOLEAN
    BY <1>1, <2>1, Zenon
  <2> QED BY <1>1, <2>2, <2>3, <2>4, Zenon
<1>6. CASE Poll \/ TakeCopy \/ TakeSwallow
  BY <1>1, <1>6 DEF Poll, TakeCopy, TakeSwallow, MainFrame, rxVars, userVars
<1>7. CASE TakeLook
  <2>1. UNCHANGED <<dmaOn, tcif, idle, pause, complete, swallow, fresh, sent, overlong, lfDue, even>>
    BY <1>7 DEF TakeLook, MainFrame, rxVars, userVars
  <2>2. loneCr' = (end = received /\ Kind(Buffered(received)[end]) = "CR")
    BY <1>7, Zenon DEF TakeLook
  <2>3. loneCr' \in BOOLEAN
    BY <2>2, Zenon
  <2> QED BY <1>1, <2>1, <2>3, Zenon
<1>8. CASE TakeArm
  <2>1. even' = ~even /\ dmaOn' = TRUE /\ tcif' = FALSE /\ complete' = FALSE /\ loneCr' = FALSE /\ sent' = FALSE
        /\ UNCHANGED <<idle, pause, swallow, fresh, overlong, lfDue>>
    BY <1>8, Zenon DEF TakeArm, Arm, MainFrame
  <2> QED BY <1>1, <2>1, Zenon
<1>9. CASE EnterLogin
  BY <1>1, <1>9 DEF EnterLogin, USART_Drv_WipeRx, Arm, MainFrame, mainVars
<1>10. CASE Panic
  BY <1>1, <1>10 DEF Panic, USART_Drv_WipeRx, Arm, mainVars
<1> QED BY <1>2, <1>3, <1>4, <1>5, <1>6, <1>7, <1>8, <1>9, <1>10 DEF Next, Main

\* every step keeps the main loop and the interrupts at one of their places
LEMMA NextPhaseTypes ==
  ASSUME IInv, [Next]_vars
  PROVE  PhaseTypes'
<1>1. PhaseTypes
  BY DEF IInv, TypeOK
<1> USE DEF PhaseTypes
<1>2. CASE Terminal
  <2>1. PICK b \in Bytes : Receive(b)
    BY <1>2, TerminalIs
  <2>2. UNCHANGED <<irqIdle, irqTc, pc>>
    BY <2>1 DEF Receive, mainVars
  <2>3. UNCHANGED term
    BY <1>2 DEF Terminal, TypeChar, TypeEnter, TypeLf
  <2> QED BY <1>1, <2>2, <2>3
<1>3. CASE LineIdle \/ UNCHANGED vars
  BY <1>1, <1>3 DEF LineIdle, vars, mainVars, userVars
<1>4. CASE IrqIdle
  <2>1. UNCHANGED <<irqTc, pc, term>>
    BY <1>4 DEF IrqIdle, IdleLook, IdleStop, IdleClearTc, IdleMeasure, IdleComplete, IdleFrame, mainVars, userVars
  <2>2. irqIdle' \in {"off", "found", "stopped", "cleared", "measured"}
    BY <1>4 DEF IrqIdle, IdleLook, IdleStop, IdleClearTc, IdleMeasure, IdleComplete
  <2> QED BY <1>1, <2>1, <2>2
<1>5. CASE IrqTc
  BY <1>1, <1>5 DEF IrqTc, TcLook, TcMeasure, TcComplete, TcFrame, mainVars, userVars
<1>6. CASE Poll \/ TakeCopy \/ TakeLook \/ TakeSwallow \/ TakeArm
  BY <1>1, <1>6 DEF Poll, TakeCopy, TakeLook, TakeSwallow, TakeArm, MainFrame, userVars
<1>7. CASE EnterLogin \/ Panic
  BY <1>1, <1>7 DEF EnterLogin, Panic, MainFrame, mainVars
<1> QED BY <1>2, <1>3, <1>4, <1>5, <1>6, <1>7 DEF Next, Main

\* every step keeps the counts within the buffer
LEMMA NextCountTypes ==
  ASSUME IInv, [Next]_vars
  PROVE  CountTypes'
<1>1. CountTypes /\ WireTypes
  BY DEF IInv, TypeOK
<1>2. RxMax \in Nat /\ MaxPanics \in Nat /\ Len(buf) \in 0..RxMax
  BY <1>1, Bounds DEF WireTypes
<1> USE DEF CountTypes
<1>3. CASE Terminal
  <2>1. PICK b \in Bytes : Receive(b)
    BY <1>3, TerminalIs
  <2> QED BY <1>1, <2>1 DEF Receive, mainVars
<1>4. CASE LineIdle \/ UNCHANGED vars
  BY <1>1, <1>4 DEF LineIdle, vars, rxVars, mainVars
<1>5. CASE IrqIdle
  BY <1>1, <1>2, <1>5
  DEF IrqIdle, IdleLook, IdleStop, IdleClearTc, IdleMeasure, IdleComplete, IdleFrame, mainVars
<1>6. CASE IrqTc
  BY <1>1, <1>2, <1>6 DEF IrqTc, TcLook, TcMeasure, TcComplete, TcFrame, mainVars
<1>7. CASE TakeCopy
  <2> DEFINE from == LineBuf_Start(rxLen)
  <2>1. rxLen \in Nat /\ rxLen <= RxMax
    BY <1>1, <1>2
  <2>2. from \in 1..(rxLen + 1)
    BY <2>1, StartIs
  <2>3. end' = EndAmong({"CR", "LF"}, from, rxLen) /\ received' = rxLen /\ cap' \in Caps /\ UNCHANGED <<rxLen, panics>>
    BY <1>7 DEF TakeCopy, LineBuf_FindEnd, MainFrame, rxVars
  <2> HIDE DEF from
  <2>4. end' \in from..(rxLen + 1)
    BY <2>1, <2>2, <2>3, EndIs
  <2>5. end' \in 1..(RxMax + 1)
    BY <1>2, <2>1, <2>2, <2>4
  <2> QED BY <1>1, <2>3, <2>5
<1>8. CASE Poll \/ TakeLook \/ TakeSwallow
  BY <1>1, <1>8 DEF Poll, TakeLook, TakeSwallow, MainFrame, rxVars
<1>9. CASE TakeArm \/ EnterLogin
  BY <1>1, <1>2, <1>9 DEF TakeArm, EnterLogin, USART_Drv_WipeRx, MainFrame, mainVars
<1>10. CASE Panic
  BY <1>1, <1>2, <1>10 DEF Panic, USART_Drv_WipeRx, mainVars
<1> QED BY <1>3, <1>4, <1>5, <1>6, <1>7, <1>8, <1>9, <1>10 DEF Next, Main

\* a caller's buffer takes the first characters of the line
LEMMA FittingIs ==
  ASSUME NEW line \in Seq(Bytes), NEW size \in Nat \ {0}
  PROVE  /\ Fitting(line, size) \in Seq(Bytes) /\ Len(Fitting(line, size)) <= Len(line)
         /\ \A k \in 1..Len(Fitting(line, size)) : Fitting(line, size)[k] = line[k]
<1> DEFINE d == IF Len(line) < size THEN Len(line) ELSE size - 1
           f == SubSeq(line, 1, d)
<1>1. d \in Nat /\ d <= Len(line) /\ Len(line) \in Nat
  OBVIOUS
<1>2. \A k \in 1..d : line[k] \in Bytes
  BY <1>1
<1> HIDE DEF d
<1>3. f = [k \in 1..d |-> line[k]]
  BY <1>1
<1> HIDE DEF f
<1>4. f \in [1..d -> Bytes]
  BY <1>2, <1>3
<1>5. f \in Seq(Bytes) /\ Len(f) = d
  BY <1>1, <1>4
<1>6. Fitting(line, size) = f
  BY DEF Fitting, d, f
<1> QED BY <1>1, <1>3, <1>5, <1>6

\* what TakeLine extracts: the bytes of the buffer before the first Enter
LEMMA LineIs ==
  ASSUME IInv, TakeCopy
  PROVE  LET from == LineBuf_Start(rxLen)
             line == SubSeq(Buffered(rxLen), from, end' - 1)
         IN  /\ rxLen \in Nat /\ received' = rxLen /\ pc = "copy" /\ pc' = "look"
             /\ UNCHANGED <<rxVars, userVars, irqIdle, irqTc, loneCr, panics>>
             /\ from \in 1..(rxLen + 1) /\ end' \in from..(rxLen + 1)
             /\ \A k \in from..(end' - 1) : Kind(Buffered(rxLen)[k]) \notin {"CR", "LF"}
             /\ end' <= rxLen => Kind(Buffered(rxLen)[end']) \in {"CR", "LF"}
             /\ cap' \in Caps
             /\ line \in Seq(Bytes) /\ Len(line) = end' - from /\ Len(line) <= RxMax
             /\ \A k \in 1..(end' - from) : line[k] = Buffered(rxLen)[from + k - 1]
             /\ copy' = Fitting(line, cap')
<1> DEFINE from == LineBuf_Start(rxLen)
           s    == Buffered(rxLen)
           e    == EndAmong({"CR", "LF"}, from, rxLen)
<1>1. rxLen \in 0..RxMax /\ RxMax \in Nat
  BY Bounds DEF IInv, TypeOK, CountTypes
<1>2. s \in Seq(Bytes) /\ Len(s) = rxLen
  BY <1>1, BufferedIs DEF IInv
<1>3. rxLen \in Nat /\ from \in 1..(rxLen + 1)
  BY <1>1, StartIs
<1>4. /\ end' = e /\ received' = rxLen /\ pc = "copy" /\ pc' = "look" /\ cap' \in Caps
      /\ copy' = Fitting(SubSeq(s, from, e - 1), cap')
      /\ UNCHANGED <<rxVars, userVars, irqIdle, irqTc, loneCr, panics>>
  BY DEF TakeCopy, LineBuf_FindEnd, LineBuf_Extract, MainFrame
<1> HIDE DEF from
<1>5. /\ e \in from..(rxLen + 1)
      /\ \A k \in from..(e - 1) : Kind(s[k]) \notin {"CR", "LF"}
      /\ e <= rxLen => Kind(s[e]) \in {"CR", "LF"}
  BY <1>3, EndIs
<1> HIDE DEF e, s
<1>6. /\ SubSeq(s, from, e - 1) \in Seq(Bytes) /\ Len(SubSeq(s, from, e - 1)) = e - from
      /\ \A k \in 1..(e - from) : SubSeq(s, from, e - 1)[k] = s[from + k - 1]
  <2>1. from \in Nat /\ e \in Int /\ e - 1 \in Int /\ 1 <= from /\ e - 1 <= rxLen /\ from <= e
    BY <1>3, <1>5
  <2>2. \A k \in from..(e - 1) : s[k] \in Bytes
    BY <1>2, <1>3, <2>1
  <2> DEFINE d == e - 1
             r == SubSeq(s, from, d)
  <2>3. r = [k \in 1..(d - from + 1) |-> s[from + k - 1]]
    <3> HIDE DEF d
    <3>1. d \in Int
      BY <2>1 DEF d
    <3> QED BY <1>2, <2>1, <3>1
  <2>4. d - from + 1 = e - from /\ e - from \in Nat
    BY <2>1
  <2>5. \A k \in 1..(e - from) : s[from + k - 1] \in Bytes
    BY <2>1, <2>2
  <2> HIDE DEF r, d
  <2>6. r \in [1..(e - from) -> Bytes]
    BY <2>3, <2>4, <2>5
  <2>7. r \in Seq(Bytes) /\ Len(r) = e - from
    BY <2>4, <2>6
  <2> QED BY <2>3, <2>4, <2>7 DEF r, d
<1>7. e - from \in Nat /\ e - from <= RxMax
  BY <1>1, <1>3, <1>5
<1> QED BY <1>3, <1>4, <1>5, <1>6, <1>7 DEF from, e, s

\* what its caller gets of it
LEMMA CopyIs ==
  ASSUME IInv, TakeCopy
  PROVE  /\ copy' \in Seq(Bytes) /\ Len(copy') <= end' - LineBuf_Start(rxLen) /\ Len(copy') <= RxMax
         /\ \A k \in 1..Len(copy') : copy'[k] = Buffered(rxLen)[LineBuf_Start(rxLen) + k - 1]
<1>1. PICK line \in Seq(Bytes) :
        /\ Len(line) = end' - LineBuf_Start(rxLen) /\ Len(line) <= RxMax
        /\ \A k \in 1..Len(line) : line[k] = Buffered(rxLen)[LineBuf_Start(rxLen) + k - 1]
        /\ copy' = Fitting(line, cap')
  BY LineIs
<1>2. cap' \in Nat \ {0}
  BY LineIs, CapsAssumption
<1>3. /\ copy' \in Seq(Bytes) /\ Len(copy') <= Len(line)
      /\ \A k \in 1..Len(copy') : copy'[k] = line[k]
  BY <1>1, <1>2, FittingIs
<1>4. Len(copy') \in Nat /\ RxMax \in Nat /\ Len(line) \in Nat
  BY <1>3, Bounds
<1>5. \A k \in 1..Len(copy') : k \in 1..Len(line)
  BY <1>3, <1>4
<1> QED BY <1>1, <1>3, <1>4, <1>5

\* every step keeps the lines within their sizes
LEMMA NextLineTypes ==
  ASSUME IInv, [Next]_vars
  PROVE  LineTypes'
<1>1. LineTypes /\ RxMax \in Nat /\ LineMax \in Nat
  BY Bounds DEF IInv, TypeOK
<1> USE DEF LineTypes
<1>2. CASE TypeChar
  <2>1. typed' = Append(typed, <<"char", Prompt>>) /\ Len(typed) < LineMax /\ UNCHANGED copy
    BY <1>2 DEF TypeChar, Receive, mainVars
  <2>2. <<"char", Prompt>> \in Bytes
    BY PromptIs DEF IInv
  <2> QED BY <1>1, <2>1, <2>2
<1>3. CASE TypeEnter \/ TypeLf
  <2>1. UNCHANGED <<copy, typed>>
    BY <1>3 DEF TypeEnter, TypeLf, Receive, mainVars
  <2> QED BY <1>1, <2>1
<1>4. CASE LineIdle \/ IrqIdle \/ IrqTc \/ UNCHANGED vars
  <2>1. UNCHANGED <<mainVars, userVars>>
    BY <1>4 DEF LineIdle, IrqIdle, IdleLook, IdleStop, IdleClearTc, IdleMeasure, IdleComplete, IdleFrame,
       IrqTc, TcLook, TcMeasure, TcComplete, TcFrame, vars
  <2> QED BY <1>1, <2>1 DEF mainVars, userVars
<1>5. CASE TakeCopy
  BY <1>1, <1>5, LineIs, CopyIs DEF userVars
<1>6. CASE Poll \/ TakeLook \/ TakeSwallow \/ EnterLogin
  BY <1>1, <1>6 DEF Poll, TakeLook, TakeSwallow, EnterLogin, mainVars, userVars
<1>7. CASE TakeArm
  BY <1>1, <1>7 DEF TakeArm
<1>8. CASE Panic
  BY <1>1, <1>8 DEF Panic, mainVars
<1> QED BY <1>2, <1>3, <1>4, <1>5, <1>6, <1>7, <1>8 DEF Next, Main, Terminal

\* every step keeps the stream below its size, and the data register empty
\* unless the stream is off and a pause is due
LEMMA NextWire ==
  ASSUME IInv, [Next]_vars
  PROVE  Wire'
<1>1. Wire /\ FlagTypes
  BY DEF IInv, TypeOK
<1>2. CASE Terminal
  <2>1. PICK b \in Bytes : Receive(b)
    BY <1>2, TerminalIs
  <2>2. pause' = TRUE
    BY <2>1 DEF Receive
  <2>3. \/ dmaOn /\ (dmaOn' <=> Len(buf') < RxMax) /\ dr' = dr
        \/ ~dmaOn /\ UNCHANGED <<buf, dmaOn>>
    BY <2>1, ReceiveIs
  <2> QED BY <1>1, <2>2, <2>3 DEF Wire
<1>3. CASE LineIdle \/ UNCHANGED vars
  <2>1. UNCHANGED <<buf, dmaOn, dr>> /\ (pause' \/ idle' <=> pause \/ idle)
    BY <1>1, <1>3 DEF LineIdle, vars, rxVars, FlagTypes
  <2> QED BY <1>1, <2>1 DEF Wire
<1>4. CASE IrqIdle
  <2>1. CASE IdleLook
    BY <1>1, <2>1 DEF IdleLook, Wire
  <2>2. CASE IdleStop \/ IdleClearTc \/ IdleMeasure \/ IdleComplete
    <3>1. UNCHANGED <<buf, dr, pause, idle>> /\ (dmaOn' = dmaOn \/ dmaOn' = FALSE)
      BY <2>2 DEF IdleStop, IdleClearTc, IdleMeasure, IdleComplete, IdleFrame
    <3> QED BY <1>1, <3>1 DEF Wire
  <2> QED BY <1>4, <2>1, <2>2 DEF IrqIdle
<1>5. CASE IrqTc
  <2>1. UNCHANGED <<buf, dmaOn, dr, pause, idle>>
    BY <1>5 DEF IrqTc, TcLook, TcMeasure, TcComplete, TcFrame
  <2> QED BY <1>1, <2>1 DEF Wire
<1>6. CASE Poll \/ TakeCopy \/ TakeLook \/ TakeSwallow
  <2>1. UNCHANGED <<buf, dmaOn, dr, pause, idle>>
    BY <1>6 DEF Poll, TakeCopy, TakeLook, TakeSwallow, MainFrame, rxVars
  <2> QED BY <1>1, <2>1 DEF Wire
<1>7. CASE Arm
  <2>1. Len(buf') < RxMax /\ dr' = None
    BY <1>7, ArmIs
  <2> QED BY <2>1 DEF Wire
<1> QED BY <1>2, <1>3, <1>4, <1>5, <1>6, <1>7
        DEF Next, Main, TakeArm, EnterLogin, Panic, USART_Drv_WipeRx

\* after a panic nothing is typed
LEMMA NextSilent ==
  ASSUME IInv, [Next]_vars
  PROVE  Silent'
<1>1. Silent
  BY DEF IInv
<1>2. CASE Terminal
  <2>1. fresh' = fresh /\ (~fresh => UNCHANGED <<typed, sent, overlong>>)
    BY <1>2 DEF Terminal, TypeChar, TypeEnter, TypeLf
  <2> QED BY <1>1, <2>1 DEF Silent
<1>3. CASE LineIdle \/ IrqIdle \/ IrqTc \/ Poll \/ TakeCopy \/ TakeLook \/ TakeSwallow \/ UNCHANGED vars
  <2>1. UNCHANGED userVars
    BY <1>3 DEF LineIdle, IrqIdle, IdleLook, IdleStop, IdleClearTc, IdleMeasure, IdleComplete, IdleFrame,
       IrqTc, TcLook, TcMeasure, TcComplete, TcFrame, Poll, TakeCopy, TakeLook, TakeSwallow, vars
  <2> QED BY <1>1, <2>1 DEF Silent, userVars
<1>4. CASE TakeArm
  BY <1>1, <1>4 DEF TakeArm, Silent
<1>5. CASE EnterLogin
  BY <1>5 DEF EnterLogin, Silent
<1>6. CASE Panic
  BY <1>6 DEF Panic, Silent
<1> QED BY <1>2, <1>3, <1>4, <1>5, <1>6 DEF Next, Main

\* every step keeps a complete line at rest
LEMMA NextRests ==
  ASSUME IInv, [Next]_vars
  PROVE  Rests'
<1>1. Rests /\ PhaseTypes /\ FlagTypes /\ Wire
  BY DEF IInv, TypeOK
<1>2. CASE Terminal
  <2>1. PICK b \in Bytes : Receive(b)
    BY <1>2, TerminalIs
  <2>2. UNCHANGED <<rxLen, complete, irqIdle, irqTc, pc>>
    BY <2>1 DEF Receive, mainVars
  <2>3. fresh' = fresh
    BY <1>2 DEF Terminal, TypeChar, TypeEnter, TypeLf
  <2>4. CASE dmaOn
    <3>1. (dmaOn' <=> Len(buf') < RxMax) /\ (tcif' <=> tcif \/ Len(buf') = RxMax)
      BY <2>1, <2>4, ReceiveIs
    <3> QED BY <1>1, <2>2, <2>3, <2>4, <3>1 DEF Rests
  <2>5. CASE ~dmaOn
    <3>1. UNCHANGED <<buf, dmaOn, tcif>>
      BY <2>1, <2>5, ReceiveIs
    <3> QED BY <1>1, <2>2, <2>3, <3>1 DEF Rests
  <2> QED BY <2>4, <2>5
<1>3. CASE LineIdle \/ UNCHANGED vars
  <2>1. UNCHANGED <<buf, dmaOn, tcif, rxLen, complete, irqIdle, irqTc, pc, fresh>>
    BY <1>3 DEF LineIdle, vars, rxVars, mainVars, userVars
  <2> QED BY <1>1, <2>1 DEF Rests
<1>4. CASE IrqIdle
  <2>1. UNCHANGED <<buf, irqTc, pc, fresh>>
    BY <1>4 DEF IrqIdle, IdleLook, IdleStop, IdleClearTc, IdleMeasure, IdleComplete, IdleFrame, mainVars, userVars
  <2>2. CASE IdleLook
    BY <1>1, <2>1, <2>2 DEF IdleLook, Rests
  <2>3. CASE IdleStop
    BY <1>1, <2>1, <2>3 DEF IdleStop, Rests
  <2>4. CASE IdleClearTc
    BY <1>1, <2>1, <2>4 DEF IdleClearTc, Rests
  <2>5. CASE IdleMeasure
    BY <1>1, <2>1, <2>5 DEF IdleMeasure, Rests
  <2>6. CASE IdleComplete
    BY <1>1, <2>1, <2>6 DEF IdleComplete, Rests
  <2> QED BY <1>4, <2>2, <2>3, <2>4, <2>5, <2>6 DEF IrqIdle
<1>5. CASE IrqTc
  <2>1. UNCHANGED <<buf, dmaOn, irqIdle, pc, fresh>> /\ irqIdle = "off"
    BY <1>5 DEF IrqTc, TcLook, TcMeasure, TcComplete, TcFrame, mainVars, userVars
  <2>2. CASE TcLook
    BY <1>1, <2>1, <2>2 DEF TcLook, Rests
  <2>3. CASE TcMeasure
    BY <1>1, <2>1, <2>3 DEF TcMeasure, Rests
  <2>4. CASE TcComplete
    BY <1>1, <2>1, <2>4 DEF TcComplete, Rests
  <2> QED BY <1>5, <2>2, <2>3, <2>4 DEF IrqTc
<1>6. CASE Poll \/ TakeCopy \/ TakeLook \/ TakeSwallow
  <2>1. UNCHANGED <<buf, dmaOn, tcif, rxLen, complete, irqIdle, irqTc, fresh>>
    BY <1>6 DEF Poll, TakeCopy, TakeLook, TakeSwallow, MainFrame, rxVars, userVars
  <2>2. pc # "poll" \/ complete
    BY <1>6 DEF Poll, TakeCopy, TakeLook, TakeSwallow
  <2> QED BY <1>1, <2>1, <2>2 DEF Rests
<1>7. CASE Main /\ (TakeArm \/ EnterLogin)
  <2>1. irqIdle' = "off" /\ irqTc' = "off" /\ pc' = "poll" /\ complete' = FALSE /\ tcif' = FALSE
    BY <1>7 DEF Main, TakeArm, EnterLogin, USART_Drv_WipeRx, Arm, MainFrame, mainVars
  <2> QED BY <2>1 DEF Rests
<1>8. CASE Panic
  BY <1>8 DEF Panic, Rests
<1> QED BY <1>2, <1>3, <1>4, <1>5, <1>6, <1>7, <1>8 DEF Next, Main

\* every step keeps the bytes of before a panic out
LEMMA NextGenuine ==
  ASSUME IInv, [Next]_vars
  PROVE  Genuine'
<1>1. Genuine
  BY DEF IInv
<1> DEFINE All == {"char", "CR", "LF"} \X Now
           Buf == \A k \in 1..Len(buf) : buf[k] \in {"char", "CR", "LF"} \X Now
           Dr  == dr # None => dr \in {"char", "CR", "LF"} \X Now
           Cp  == pc \in {"look", "swallow", "arm"} => \A k \in 1..Len(copy) : copy[k] \in {"char"} \X Now
<1>2. Genuine <=> (fresh => Buf /\ Dr /\ Cp)
  BY DEF Genuine
<1>3. Genuine' <=> (fresh' => Buf' /\ Dr' /\ Cp')
  BY DEF Genuine
<1>4. CASE Terminal
  <2>1. PICK b \in Bytes : Receive(b) /\ b \in All
    BY <1>4, TerminalIs
  <2>2. fresh' = fresh
    BY <1>4 DEF Terminal, TypeChar, TypeEnter, TypeLf
  <2>3. Now' = Now /\ pc' = pc /\ copy' = copy
    BY <2>1 DEF Receive, mainVars, Now
  <2>4. ASSUME Buf, Dr PROVE Buf' /\ Dr'
    <3>1. CASE dmaOn
      <4>1. /\ Len(buf') = Len(buf) + 1 /\ dr' = dr
            /\ \A k \in 1..Len(buf) : buf'[k] = buf[k]
            /\ buf'[Len(buf) + 1] = b
        BY <2>1, <3>1, ReceiveIs
      <4>2. Len(buf) \in Nat
        BY DEF IInv, TypeOK, WireTypes
      <4>3. \A k \in 1..Len(buf') : k \in 1..Len(buf) \/ k = Len(buf) + 1
        BY <4>1, <4>2
      <4> HIDE DEF Now
      <4> QED BY <2>1, <2>3, <2>4, <4>1, <4>3
    <3>2. CASE ~dmaOn
      <4>1. buf' = buf /\ (dr' = dr \/ dr' = b)
        BY <2>1, <3>2, ReceiveIs
      <4> QED BY <2>1, <2>3, <2>4, <4>1
    <3> QED BY <3>1, <3>2
  <2>5. Cp => Cp'
    BY <2>3
  <2> QED BY <1>1, <1>2, <1>3, <2>2, <2>4, <2>5
<1>5. CASE LineIdle \/ IrqIdle \/ IrqTc \/ UNCHANGED vars
  <2>1. UNCHANGED <<buf, fresh, pc, copy, panics>>
    BY <1>5 DEF LineIdle, IrqIdle, IdleLook, IdleStop, IdleClearTc, IdleMeasure, IdleComplete, IdleFrame,
       IrqTc, TcLook, TcMeasure, TcComplete, TcFrame, vars, rxVars, mainVars, userVars
  <2>2. dr' = dr \/ dr' = None
    BY <1>5 DEF LineIdle, IrqIdle, IdleLook, IdleStop, IdleClearTc, IdleMeasure, IdleComplete,
       IrqTc, TcLook, TcMeasure, TcComplete, TcFrame, vars, rxVars
  <2>3. Now' = Now
    BY <2>1 DEF Now
  <2> QED BY <1>1, <1>2, <1>3, <2>1, <2>2, <2>3
<1>6. CASE TakeCopy
  <2> SUFFICES ASSUME fresh' PROVE Genuine'
    BY <1>3
  <2>1. /\ UNCHANGED <<buf, dr, fresh, panics>>
        /\ rxLen \in Nat /\ pc = "copy"
        /\ \A k \in LineBuf_Start(rxLen)..(end' - 1) : Kind(Buffered(rxLen)[k]) \notin {"CR", "LF"}
        /\ copy' \in Seq(Bytes) /\ Len(copy') <= end' - LineBuf_Start(rxLen)
        /\ LineBuf_Start(rxLen) \in 1..(rxLen + 1) /\ end' \in LineBuf_Start(rxLen)..(rxLen + 1)
        /\ \A k \in 1..Len(copy') : copy'[k] = Buffered(rxLen)[LineBuf_Start(rxLen) + k - 1]
    BY <1>6, LineIs, CopyIs DEF rxVars, userVars
  <2>2. rxLen = Len(buf)
    BY <2>1 DEF IInv, Rests
  <2>3. \A k \in 1..rxLen : Buffered(rxLen)[k] = buf[k]
    <3>1. rxLen \in 0..RxMax
      BY DEF IInv, TypeOK, CountTypes
    <3>2. rxLen <= Len(buf)
      BY <2>1, <2>2
    <3> QED BY <3>1, <3>2, BufferedIs DEF IInv
  <2> DEFINE from == LineBuf_Start(rxLen)
  <2>4. Buf /\ Dr /\ Now' = Now
    BY <1>1, <1>2, <2>1 DEF Now
  <2>5. ASSUME NEW k \in 1..Len(copy') PROVE copy'[k] \in {"char"} \X Now
    <3>1. from + k - 1 \in from..(end' - 1) /\ from + k - 1 \in 1..rxLen
      <4> HIDE DEF from
      <4> QED BY <2>1 DEF from
    <3> DEFINE b == buf[from + k - 1]
    <3>2. copy'[k] = b /\ Kind(b) \notin {"CR", "LF"}
      BY <2>1, <2>3, <3>1
    <3>3. b \in All
      BY <2>2, <2>4, <3>1
    <3> HIDE DEF b, Now
    <3> QED BY <3>2, <3>3 DEF Kind
  <2>6. Cp'
    BY <2>4, <2>5
  <2>7. Buf' /\ Dr'
    BY <2>1, <2>4
  <2> QED BY <1>3, <2>6, <2>7
<1>7. CASE Poll \/ TakeLook \/ TakeSwallow
  <2>1. UNCHANGED <<buf, dr, fresh, copy, panics>>
    BY <1>7 DEF Poll, TakeLook, TakeSwallow, MainFrame, rxVars, userVars
  <2>2. pc' \in {"look", "swallow", "arm"} => pc \in {"look", "swallow", "arm"}
    BY <1>7 DEF Poll, TakeLook, TakeSwallow
  <2>3. Now' = Now
    BY <2>1 DEF Now
  <2> QED BY <1>1, <1>2, <1>3, <2>1, <2>2, <2>3
<1>8. CASE TakeArm \/ EnterLogin
  <2> SUFFICES ASSUME fresh' PROVE Genuine'
    BY <1>3
  <2>1. Arm /\ pc' = "poll" /\ UNCHANGED panics
    BY <1>8 DEF TakeArm, EnterLogin, USART_Drv_WipeRx, MainFrame, mainVars
  <2>2. /\ dr' = None
        /\ dr = None => Len(buf') = 0
        /\ dr # None => Len(buf') = 1 /\ buf'[1] = dr
    BY <2>1, ArmIs
  <2>3. dr # None => fresh
    BY <1>8 DEF TakeArm, EnterLogin, Quiet, IInv, Wire
  <2>4. dr # None => dr \in All
    BY <1>1, <1>2, <2>3
  <2>5. Now' = Now
    BY <2>1 DEF Now
  <2>6. Buf'
    BY <2>2, <2>4, <2>5
  <2>7. Dr' /\ Cp'
    BY <2>1, <2>2
  <2> QED BY <1>3, <2>6, <2>7
<1>9. CASE Panic
  BY <1>3, <1>9 DEF Panic
<1> QED BY <1>4, <1>5, <1>6, <1>7, <1>8, <1>9 DEF Next, Main

\* while every line fits, the main loop is at a line that was finished
LEMMA TidyIs ==
  ASSUME IInv, Tidy
  PROVE  /\ pc # "poll" => complete
         /\ complete \/ irqIdle # "off" \/ ~dmaOn => sent
         /\ complete => rxLen = Len(buf) /\ ~dmaOn
         /\ \E k \in {0, 1}, t \in 0..2 : Text(k, t)
         /\ typed \in Seq({"char"} \X Prompts) /\ Len(typed) \in Nat
         /\ \A j \in 1..Len(typed) : Kind(typed[j]) = "char"
         /\ buf \in Seq(Bytes) /\ Len(buf) \in Nat /\ Len(buf) \in 0..RxMax
<1>1. Rests /\ Typed /\ fresh
  BY DEF IInv, Tidy
<1>2. typed \in Seq({"char"} \X Prompts)
  BY <1>1 DEF Typed
<1>3. ASSUME NEW j \in 1..Len(typed) PROVE Kind(typed[j]) = "char"
  <2>1. typed[j] \in {"char"} \X Prompts
    BY <1>2
  <2> QED BY <2>1 DEF Kind
<1>4. buf \in Seq(Bytes) /\ Len(buf) \in Nat /\ Len(buf) \in 0..RxMax
  BY Bounds DEF IInv, TypeOK, WireTypes
<1>5. Len(typed) \in Nat
  BY <1>2
<1>6. \E k \in {0, 1}, t \in 0..2 : Text(k, t)
  BY <1>1 DEF Typed
<1>7. /\ pc # "poll" => complete
      /\ complete => rxLen = Len(buf) /\ ~dmaOn
      /\ irqIdle # "off" \/ ~dmaOn => sent
  BY <1>1 DEF Rests, Typed
<1> QED BY <1>2, <1>3, <1>4, <1>5, <1>6, <1>7

\* TakeLine and the interrupt begin after the LF of the line before, and
\* stop at the Enter
LEMMA TextEnds ==
  ASSUME IInv, Tidy, pc # "arm", NEW k \in {0, 1}, NEW t \in 0..2, Text(k, t)
  PROVE  /\ LineBuf_Start(Len(buf)) = k + 1
         /\ EndAmong({"CR", "LF"}, k + 1, Len(buf)) = k + Len(typed) + 1
<1> DEFINE n == Len(typed)
           m == Len(buf)
           e == EndAmong({"CR", "LF"}, k + 1, m)
<1>1. n \in Nat /\ m \in Nat /\ m \in 0..RxMax /\ \A j \in 1..n : Kind(typed[j]) = "char"
  BY TidyIs
<1>2. /\ m = k + n + t
      /\ k = 1 => Kind(buf[1]) = "LF" /\ swallow
      /\ \A j \in 1..n : buf[k + j] = typed[j]
      /\ t > 0 => Kind(buf[k + n + 1]) = EnterKind
  BY DEF Text
<1>3. \A j \in 1..m : Buffered(m)[j] = buf[j]
  BY <1>1, BufferedIs DEF IInv
<1> HIDE DEF m, n
<1>4. LineBuf_Start(m) = k + 1
  <2>1. CASE k = 1
    <3>1. m > 0 /\ 1 \in 1..m
      BY <1>1, <1>2, <2>1
    <3> QED BY <1>2, <1>3, <2>1, <3>1 DEF LineBuf_Start
  <2>2. CASE k = 0 /\ m = 0
    BY <2>2 DEF LineBuf_Start
  <2>3. CASE k = 0 /\ n > 0
    <3>1. 1 \in 1..m /\ 1 \in 1..n
      BY <1>1, <1>2, <2>3
    <3>2. buf[0 + 1] = typed[1]
      BY <1>2, <2>3, <3>1
    <3>3. Kind(buf[1]) = "char"
      BY <1>1, <3>1, <3>2
    <3> QED BY <1>3, <2>3, <3>1, <3>3 DEF LineBuf_Start
  <2>4. CASE k = 0 /\ n = 0 /\ m # 0
    <3>1. t > 0 /\ 1 \in 1..m
      BY <1>1, <1>2, <2>4
    <3>2. Kind(buf[1]) = EnterKind
      BY <1>2, <2>4, <3>1
    <3>3. term = "LF" => ~swallow
      BY DEF IInv, Typed
    <3>4. Kind(buf[1]) = "LF" => ~swallow
      BY <3>2, <3>3 DEF EnterKind
    <3> QED BY <1>3, <2>4, <3>1, <3>4 DEF LineBuf_Start
  <2> QED BY <1>1, <2>1, <2>2, <2>3, <2>4
<1>5. k + 1 \in 1..(m + 1) /\ m \in Nat
  BY <1>1, <1>2
<1>6. /\ e \in (k + 1)..(m + 1)
      /\ \A j \in (k + 1)..(e - 1) : Kind(Buffered(m)[j]) \notin {"CR", "LF"}
      /\ e <= m => Kind(Buffered(m)[e]) \in {"CR", "LF"}
  BY <1>5, EndIs
<1> HIDE DEF e
<1>7. ASSUME e < k + n + 1 PROVE FALSE
  <2>1. e - k \in 1..n /\ e \in 1..m /\ k + (e - k) = e
    BY <1>1, <1>2, <1>6, <1>7
  <2>2. Kind(buf[e]) = "char"
    BY <1>1, <1>2, <2>1
  <2> QED BY <1>3, <1>6, <2>1, <2>2
<1>8. ASSUME e > k + n + 1 PROVE FALSE
  <2>1. k + n + 1 \in (k + 1)..(e - 1) /\ k + n + 1 \in 1..m /\ t > 0
    BY <1>1, <1>2, <1>6, <1>8
  <2>2. Kind(buf[k + n + 1]) \in {"CR", "LF"}
    BY <1>2, <2>1 DEF EnterKind
  <2> QED BY <1>3, <1>6, <2>1, <2>2
<1>9. e = k + n + 1
  BY <1>1, <1>6, <1>7, <1>8
<1> QED BY <1>4, <1>9 DEF m, n, e

\* what a step leaves of the text in the buffer
LEMMA TextKept ==
  ASSUME NEW k \in {0, 1}, NEW t \in 0..2, Text(k, t),
         UNCHANGED <<typed, sent, term, buf, swallow, cap, received, end, copy, loneCr>>,
         lfDue' => lfDue, dr' = dr \/ dr' = None,
         pc' = pc \/ (pc # "arm" /\ pc' = "copy")
  PROVE  Text(k, t)'
<1>1. EnterKind' = EnterKind
  BY DEF EnterKind
<1> QED BY <1>1 DEF Text

\* an armed receiver, with nothing typed
LEMMA TextFresh ==
  ASSUME NEW k \in {0, 1}, Len(buf') = k, typed' = <<>>, ~sent', pc' = "poll",
         k = 1 => Kind(buf'[1]) = "LF" /\ term' = "CRLF" /\ swallow'
  PROVE  Text(k, 0)'
<1>0. Len(typed') = 0
  OBVIOUS
<1>1. Len(typed') = 0 /\ 1..Len(typed') = {}
  BY <1>0
<1>2. \A j \in 1..Len(typed') : buf'[k + j] = typed'[j]
  BY <1>1
<1>3. Len(buf') = k + Len(typed') + 0
  BY <1>1
<1> QED BY <1>1, <1>2, <1>3 DEF Text

\* the parts of Typed and LateLf, after a step
LEMMA TypedLater ==
  ASSUME Tidy' =>
           /\ typed' \in Seq({"char"} \X Prompts) /\ (typed' = <<>> \/ Len(typed') + 2 <= RxMax)
           /\ ~dmaOn' \/ irqIdle' # "off" => sent'
           /\ \E k \in {0, 1}, t \in 0..2 : Text(k, t)'
           /\ pc' = "arm" => swallow' = loneCr'
           /\ term' = "LF" => ~swallow'
           /\ lfDue' => term' = "CRLF" /\ dr' = None
           /\ lfDue' /\ ~sent' => buf' = <<>> /\ typed' = <<>> /\ swallow' /\ pc' = "poll"
           /\ dr' # None => Kind(dr') = "LF" /\ term' = "CRLF" /\ ~lfDue'
  PROVE  Typed' /\ LateLf'
BY DEF Typed, LateLf

\* a character joins the text
LEMMA TypeCharTyped ==
  ASSUME IInv, TypeChar, Tidy'
  PROVE  Typed' /\ LateLf'
<1> DEFINE b == <<"char", Prompt>>
           n == Len(typed)
<1>1. /\ fresh /\ ~sent /\ ~lfDue /\ Receive(b) /\ typed' = Append(typed, b)
      /\ overlong' = (overlong \/ n + 3 > RxMax)
      /\ UNCHANGED <<fresh, term, sent, lfDue>>
  BY DEF TypeChar
<1>2. b \in Bytes /\ b \in {"char"} \X Prompts
  BY PromptIs DEF IInv
<1>3. Tidy /\ ~(n + 3 > RxMax)
  <2>1. ~overlong'
    BY DEF Tidy
  <2>2. ~(overlong \/ n + 3 > RxMax)
    BY <1>1, <2>1, Zenon
  <2> QED BY <1>1, <2>2 DEF Tidy
<1>4. /\ dmaOn /\ irqIdle = "off" /\ pc = "poll" /\ dr = None
  BY <1>1, <1>3, TidyIs DEF IInv, Wire
<1>5. PICK k \in {0, 1}, t \in 0..2 : Text(k, t)
  BY <1>3, TidyIs
<1>6. t = 0 /\ Len(buf) = k + n + t /\ (k = 1 => Kind(buf[1]) = "LF" /\ term = "CRLF" /\ swallow)
      /\ \A j \in 1..n : buf[k + j] = typed[j]
  BY <1>1, <1>4, <1>5 DEF Text
<1>7. /\ Len(buf') = Len(buf) + 1 /\ \A j \in 1..Len(buf) : buf'[j] = buf[j]
      /\ buf'[Len(buf) + 1] = b /\ (dmaOn' <=> Len(buf') < RxMax) /\ dr' = dr
      /\ UNCHANGED <<swallow, irqIdle, pc, loneCr>>
  BY <1>1, <1>2, <1>4, ReceiveIs DEF mainVars
<1>8. n \in Nat /\ typed \in Seq({"char"} \X Prompts) /\ RxMax \in Nat
  BY <1>3, TidyIs, Bounds
<1> HIDE DEF b
<1>9. /\ typed' \in Seq({"char"} \X Prompts) /\ Len(typed') = n + 1
      /\ \A j \in 1..n : typed'[j] = typed[j]
      /\ typed'[n + 1] = b
  BY <1>1, <1>2, <1>8
<1> HIDE DEF n
<1>10. Len(typed') + 2 <= RxMax /\ Len(buf') < RxMax
  BY <1>3, <1>5, <1>6, <1>7, <1>8, <1>9
<1>11. \A j \in 1..Len(typed') : buf'[k + j] = typed'[j]
  <2>1. ASSUME NEW j \in 1..n PROVE buf'[k + j] = typed'[j]
    <3>1. k + j \in 1..Len(buf)
      BY <1>5, <1>6, <1>8
    <3> QED BY <1>6, <1>7, <1>9, <3>1
  <2>2. k + (n + 1) = Len(buf) + 1
    BY <1>5, <1>6, <1>8
  <2>3. buf'[k + (n + 1)] = typed'[n + 1]
    BY <1>7, <1>9, <2>2
  <2>4. \A j \in 1..Len(typed') : j \in 1..n \/ j = n + 1
    BY <1>8, <1>9
  <2> QED BY <2>1, <2>3, <2>4
<1>12. Text(k, 0)'
  <2>1. Len(buf') = k + Len(typed') + 0
    BY <1>5, <1>6, <1>7, <1>8, <1>9
  <2>2. k = 1 => Kind(buf'[1]) = "LF" /\ term' = "CRLF" /\ swallow'
    <3>1. k = 1 => 1 \in 1..Len(buf)
      BY <1>5, <1>6, <1>8
    <3> QED BY <1>1, <1>6, <1>7, <3>1
  <2>3. ~sent' /\ pc' = "poll"
    BY <1>1, <1>4, <1>7
  <2> QED BY <1>5, <1>11, <2>1, <2>2, <2>3 DEF Text
<1>13. \E x \in {0, 1}, y \in 0..2 : Text(x, y)'
  BY <1>12
<1>14. term = "LF" => ~swallow
  BY <1>3 DEF IInv, Typed
<1> QED BY <1>1, <1>4, <1>7, <1>9, <1>10, <1>13, <1>14, TypedLater

\* the Enter ends the text
LEMMA TypeEnterTyped ==
  ASSUME IInv, TypeEnter, Tidy'
  PROVE  Typed' /\ LateLf'
<1> DEFINE b == <<EnterKind, Prompt>>
           n == Len(typed)
<1>1. /\ fresh /\ ~sent /\ ~lfDue /\ Receive(b) /\ sent' = TRUE /\ lfDue' = (term = "CRLF")
      /\ UNCHANGED <<fresh, term, typed, overlong>>
  BY DEF TypeEnter, EnterKind
<1>2. b \in Bytes /\ Kind(b) = EnterKind
  <2>1. EnterKind \in {"char", "CR", "LF"}
    BY DEF EnterKind
  <2> QED BY <2>1, PromptIs DEF IInv, Kind
<1>3. Tidy
  BY <1>1 DEF Tidy
<1>4. /\ dmaOn /\ irqIdle = "off" /\ pc = "poll" /\ dr = None
  BY <1>1, <1>3, TidyIs DEF IInv, Wire
<1>5. PICK k \in {0, 1}, t \in 0..2 : Text(k, t)
  BY <1>3, TidyIs
<1>6. t = 0 /\ Len(buf) = k + n + t /\ (k = 1 => Kind(buf[1]) = "LF" /\ term = "CRLF" /\ swallow)
      /\ \A j \in 1..n : buf[k + j] = typed[j]
  BY <1>1, <1>4, <1>5 DEF Text
<1>7. /\ Len(buf') = Len(buf) + 1 /\ \A j \in 1..Len(buf) : buf'[j] = buf[j]
      /\ buf'[Len(buf) + 1] = b /\ dr' = dr
      /\ UNCHANGED <<swallow, irqIdle, pc, loneCr>>
  BY <1>1, <1>2, <1>4, ReceiveIs DEF mainVars
<1>8. n \in Nat
  BY <1>3, TidyIs
<1> HIDE DEF b, n
<1>9. \A j \in 1..n : buf'[k + j] = typed'[j]
  <2>1. \A j \in 1..n : k + j \in 1..Len(buf)
    BY <1>5, <1>6, <1>8
  <2> QED BY <1>1, <1>6, <1>7, <2>1
<1>10. Text(k, 1)'
  <2>1. Len(buf') = k + n + 1 /\ Len(typed') = n
    BY <1>1, <1>5, <1>6, <1>7, <1>8 DEF n
  <2>2. k = 1 => Kind(buf'[1]) = "LF" /\ term' = "CRLF" /\ swallow'
    <3>1. k = 1 => 1 \in 1..Len(buf)
      BY <1>5, <1>6, <1>8
    <3> QED BY <1>1, <1>6, <1>7, <3>1
  <2>3. sent' /\ pc' = "poll"
    BY <1>1, <1>4, <1>7
  <2>4. Kind(buf'[k + n + 1]) = EnterKind'
    <3>1. k + n + 1 = Len(buf) + 1
      BY <1>5, <1>6, <1>8
    <3> QED BY <1>1, <1>2, <1>7, <3>1 DEF EnterKind
  <2> QED BY <1>5, <1>9, <2>1, <2>2, <2>3, <2>4 DEF Text, n
<1>11. \E x \in {0, 1}, y \in 0..2 : Text(x, y)'
  BY <1>10
<1>12. /\ typed \in Seq({"char"} \X Prompts) /\ (typed = <<>> \/ Len(typed) + 2 <= RxMax)
       /\ term = "LF" => ~swallow
  BY <1>3 DEF IInv, Typed
<1>13. lfDue' => term = "CRLF"
  BY <1>1, Zenon
<1> QED BY <1>1, <1>4, <1>7, <1>11, <1>12, <1>13, TypedLater

\* the LF comes after the Enter, or before the next line
LEMMA TypeLfTyped ==
  ASSUME IInv, TypeLf, Tidy'
  PROVE  Typed' /\ LateLf'
<1> DEFINE b == <<"LF", Prompt>>
           n == Len(typed)
<1>1. lfDue /\ Receive(b) /\ ~lfDue' /\ UNCHANGED <<fresh, term, typed, sent, overlong>>
  BY DEF TypeLf
<1>2. b \in Bytes /\ Kind(b) = "LF"
  BY PromptIs DEF IInv, Kind
<1>3. Tidy
  BY <1>1 DEF Tidy
<1>4. /\ term = "CRLF" /\ dr = None
      /\ ~sent => buf = <<>> /\ typed = <<>> /\ swallow /\ pc = "poll"
  BY <1>1, <1>3 DEF IInv, LateLf
<1>5. PICK k \in {0, 1}, t \in 0..2 : Text(k, t)
  BY <1>3, TidyIs
<1>6. UNCHANGED <<swallow, irqIdle, pc, cap, received, end, copy, loneCr>>
  BY <1>1 DEF Receive, mainVars
<1>7. /\ typed \in Seq({"char"} \X Prompts) /\ (typed = <<>> \/ Len(typed) + 2 <= RxMax)
      /\ pc = "arm" => swallow = loneCr
  BY <1>3 DEF IInv, Typed
<1>8. n \in Nat /\ Len(buf) \in Nat /\ RxMax \in Nat /\ RxMax > 1
  BY <1>3, TidyIs, Bounds
<1> HIDE DEF b
<1>9. CASE ~dmaOn
  <2>1. sent
    BY <1>3, <1>9, TidyIs
  <2>2. dr' = b /\ UNCHANGED <<buf, dmaOn>>
    BY <1>1, <1>2, <1>4, <1>9, ReceiveIs
  <2>3. t # 2
    BY <1>1, <1>5 DEF Text
  <2>4. Text(k, t)'
    <3>1. EnterKind' = EnterKind
      BY <1>1 DEF EnterKind
    <3> QED BY <1>1, <1>5, <1>6, <2>2, <2>3, <3>1 DEF Text
  <2>5. \E x \in {0, 1}, y \in 0..2 : Text(x, y)'
    BY <2>4
  <2> QED BY <1>1, <1>2, <1>4, <1>6, <1>7, <2>1, <2>2, <2>5, TypedLater
<1>10. CASE dmaOn
  <2>1. /\ Len(buf') = Len(buf) + 1 /\ \A j \in 1..Len(buf) : buf'[j] = buf[j]
        /\ buf'[Len(buf) + 1] = b /\ (dmaOn' <=> Len(buf') < RxMax) /\ dr' = dr
    BY <1>1, <1>2, <1>10, ReceiveIs
  <2>2. CASE ~sent
    <3>1. Len(buf) = 0
      BY <1>4, <2>2
    <3>2. Len(buf') = 1 /\ buf'[1] = b
      BY <2>1, <3>1
    <3>3. Text(1, 0)'
      BY <1>1, <1>2, <1>4, <1>6, <2>2, <3>2, TextFresh
    <3>4. dmaOn' /\ irqIdle = "off"
      BY <1>3, <1>8, <2>1, <2>2, <3>2, TidyIs
    <3>5. \E x \in {0, 1}, y \in 0..2 : Text(x, y)'
      BY <3>3
    <3> QED BY <1>1, <1>4, <1>6, <1>7, <2>1, <2>2, <3>4, <3>5, TypedLater
  <2>3. CASE sent
    <3>1. t = 1 /\ Len(buf) = k + n + t /\ (k = 1 => Kind(buf[1]) = "LF" /\ term = "CRLF" /\ (swallow \/ pc = "arm"))
          /\ (\A j \in 1..n : buf[k + j] = typed[j]) /\ Kind(buf[k + n + 1]) = EnterKind
      BY <1>1, <1>5, <2>3 DEF Text
    <3>2. pc = "poll"
      BY <1>3, <1>10, TidyIs
    <3>3. Len(buf') = k + n + 2 /\ k + n + 2 = Len(buf) + 1 /\ Len(typed') = n
      BY <1>1, <1>5, <1>8, <2>1, <3>1
    <3>4. Kind(buf'[k + n + 2]) = "LF"
      BY <1>2, <2>1, <3>3
    <3> HIDE DEF n
    <3>5. k + n + 1 \in 1..Len(buf) /\ (k = 1 => 1 \in 1..Len(buf)) /\ \A j \in 1..n : k + j \in 1..Len(buf)
      BY <1>5, <1>8, <3>1
    <3>6. \A j \in 1..n : buf'[k + j] = typed'[j]
      BY <1>1, <2>1, <3>1, <3>5
    <3>7. Kind(buf'[k + n + 1]) = EnterKind' /\ (k = 1 => Kind(buf'[1]) = "LF" /\ term' = "CRLF" /\ swallow')
      BY <1>1, <1>6, <2>1, <3>1, <3>2, <3>5 DEF EnterKind
    <3>8. Text(k, 2)'
      BY <1>1, <1>4, <1>5, <1>6, <2>1, <2>3, <3>2, <3>3, <3>4, <3>6, <3>7 DEF Text, n
    <3>9. \E x \in {0, 1}, y \in 0..2 : Text(x, y)'
      BY <3>8
    <3> QED BY <1>1, <1>4, <1>6, <1>7, <2>1, <2>3, <3>9, TypedLater
  <2> QED BY <2>2, <2>3
<1> QED BY <1>9, <1>10

\* the interrupt finds an Enter only when the line was finished
LEMMA IdleTyped ==
  ASSUME IInv, IdleLook \/ IdleStop, Tidy'
  PROVE  Typed' /\ LateLf'
<1>1. UNCHANGED <<buf, swallow, pc, cap, received, end, copy, loneCr, fresh, term, typed, sent, overlong, lfDue>>
      /\ (dr' = dr \/ dr' = None)
  BY DEF IdleLook, IdleStop, IdleFrame, mainVars, userVars
<1>2. Tidy
  BY <1>1 DEF Tidy
<1>3. PICK k \in {0, 1}, t \in 0..2 : Text(k, t)
  BY <1>2, TidyIs
<1>4. Text(k, t)'
  BY <1>1, <1>3, TextKept
<1>5. \E x \in {0, 1}, y \in 0..2 : Text(x, y)'
  BY <1>3, <1>4
<1>6. ~dmaOn' \/ irqIdle' # "off" => sent
  <2>1. CASE IdleStop
    <3>1. irqIdle # "off"
      BY <2>1 DEF IdleStop
    <3> QED BY <1>2, <3>1, TidyIs
  <2>2. CASE IdleLook
    <3>1. UNCHANGED dmaOn
      BY <2>2 DEF IdleLook
    <3>2. ASSUME irqIdle' # "off", ~sent PROVE FALSE
      <4>1. EndAmong({"CR", "LF"}, LineBuf_Start(Len(buf)), Len(buf)) <= Len(buf)
        BY <2>2, <3>2 DEF IdleLook, LineBuf_FindEnd
      <4>2. pc = "poll"
        BY <1>2, <3>2, TidyIs
      <4>3. EndAmong({"CR", "LF"}, LineBuf_Start(Len(buf)), Len(buf)) = k + Len(typed) + 1
        BY <1>2, <1>3, <4>2, TextEnds
      <4>4. t = 0 /\ Len(buf) = k + Len(typed) + t
        BY <1>3, <3>2 DEF Text
      <4>5. Len(typed) \in Nat
        BY <1>2, TidyIs
      <4> QED BY <1>3, <4>1, <4>3, <4>4, <4>5
    <3> QED BY <1>2, <3>1, <3>2, TidyIs
  <2> QED BY <2>1, <2>2
<1>7. Typed /\ LateLf
  BY DEF IInv
<1> QED BY <1>1, <1>2, <1>5, <1>6, <1>7, TypedLater DEF Typed, LateLf

\* two words of one length that agree at every place are the same
LEMMA SameWord ==
  ASSUME NEW D, NEW S, NEW f \in [D -> S], NEW g \in [D -> S], \A j \in D : f[j] = g[j]
  PROVE  f = g
OBVIOUS

\* TakeLine copies what was typed
LEMMA TakeTyped ==
  ASSUME IInv, TakeCopy \/ TakeLook \/ TakeSwallow, Main, Tidy'
  PROVE  Typed' /\ LateLf'
<1> DEFINE n == Len(typed)
<1>1. UNCHANGED <<buf, dr, dmaOn, rxLen, fresh, term, typed, sent, overlong, lfDue, irqIdle>>
      /\ pc # "poll" /\ pc' # "poll" /\ pc # "arm"
  BY DEF TakeCopy, TakeLook, TakeSwallow, MainFrame, rxVars, userVars
<1>2. Tidy
  BY <1>1 DEF Tidy
<1>3. PICK k \in {0, 1}, t \in 0..2 : Text(k, t)
  BY <1>2, TidyIs
<1>4. /\ sent /\ complete /\ rxLen = Len(buf) /\ n \in Nat /\ Len(buf) \in Nat
      /\ irqIdle = "off"
  BY <1>1, <1>2, TidyIs DEF Main
<1>5. t \in {1, 2} /\ Len(buf) = k + n + t /\ Kind(buf[k + n + 1]) = EnterKind /\ EnterKind' = EnterKind
      /\ (k = 1 => Kind(buf[1]) = "LF" /\ term = "CRLF" /\ swallow)
      /\ (\A j \in 1..n : buf[k + j] = typed[j])
      /\ (t = 2 => term = "CRLF" /\ Kind(buf[k + n + 2]) = "LF" /\ ~lfDue /\ dr = None)
      /\ (pc \in {"look", "swallow"} => received = Len(buf) /\ end = k + n + 1 /\ copy = Fitting(typed, cap))
      /\ (pc = "swallow" => (loneCr <=> t = 1 /\ term # "LF"))
  <2>1. EnterKind' = EnterKind
    BY <1>1 DEF EnterKind
  <2> QED BY <1>1, <1>3, <1>4, <2>1 DEF Text
<1>6. \A j \in 1..Len(buf) : Buffered(Len(buf))[j] = buf[j]
  <2>1. Len(buf) \in 0..RxMax
    BY <1>2, TidyIs
  <2> QED BY <1>4, <2>1, BufferedIs DEF IInv
<1>7. Typed /\ LateLf
  BY DEF IInv
<1>8. CASE TakeCopy
  <2> DEFINE from == LineBuf_Start(rxLen)
  <2>1. /\ received' = rxLen /\ pc = "copy" /\ pc' = "look" /\ UNCHANGED <<swallow, loneCr>>
    BY <1>8, LineIs DEF rxVars
  <2>0. PICK line \in Seq(Bytes) :
          /\ Len(line) = end' - from /\ \A j \in 1..Len(line) : line[j] = Buffered(rxLen)[from + j - 1]
          /\ copy' = Fitting(line, cap')
    BY <1>8, LineIs
  <2>2. end' = EndAmong({"CR", "LF"}, from, rxLen)
    BY <1>8 DEF TakeCopy, LineBuf_FindEnd
  <2>3. from = k + 1 /\ end' = k + n + 1
    BY <1>1, <1>2, <1>3, <1>4, <2>2, TextEnds
  <2> HIDE DEF n, from
  <2>4. Len(line) = n
    BY <1>3, <1>4, <2>0, <2>3
  <2>5. ASSUME NEW j \in 1..n PROVE line[j] = typed[j]
    <3>1. k + j \in 1..Len(buf) /\ from + j - 1 = k + j
      BY <1>3, <1>4, <1>5, <2>3
    <3> QED BY <1>4, <1>5, <1>6, <2>0, <2>4, <3>1
  <2>6. typed \in Seq(Bytes)
    BY DEF IInv, TypeOK, LineTypes
  <2>7. line = typed
    <3>1. line \in [1..Len(line) -> Bytes]
      BY <2>0
    <3>2. typed \in [1..n -> Bytes]
      BY <2>6 DEF n
    <3>3. line \in [1..n -> Bytes]
      BY <2>4, <3>1
    <3>4. \A j \in 1..n : line[j] = typed[j]
      BY <2>5
    <3>5. PICK D : D = 1..n
      OBVIOUS
    <3>6. PICK f \in [D -> Bytes] : f = line
      BY <3>3, <3>5
    <3>7. PICK g \in [D -> Bytes] : g = typed
      BY <3>2, <3>5
    <3>8. \A j \in D : f[j] = g[j]
      BY <3>4, <3>5, <3>6, <3>7
    <3>9. f = g
      BY <3>8, SameWord
    <3> QED BY <3>6, <3>7, <3>9
  <2>8. Text(k, t)'
    BY <1>1, <1>3, <1>4, <1>5, <2>0, <2>1, <2>3, <2>7 DEF Text, n
  <2>9. \E x \in {0, 1}, y \in 0..2 : Text(x, y)'
    BY <1>3, <2>8
  <2> QED BY <1>1, <1>2, <1>4, <1>7, <2>1, <2>9, TypedLater DEF Typed, LateLf
<1>9. CASE TakeLook
  <2>1. /\ loneCr' = (end = received /\ Kind(Buffered(received)[end]) = "CR")
        /\ pc = "look" /\ pc' = "swallow" /\ UNCHANGED <<swallow, cap, received, end, copy>>
    BY <1>9 DEF TakeLook, rxVars
  <2>2. received = Len(buf) /\ end = k + n + 1 /\ copy = Fitting(typed, cap)
    BY <1>5, <2>1
  <2>3. end = received <=> t = 1
    <3> HIDE DEF n
    <3> QED BY <1>3, <1>4, <1>5, <2>2
  <2>4. Kind(Buffered(received)[end]) = EnterKind
    <3>1. end \in 1..Len(buf)
      <4> HIDE DEF n
      <4> QED BY <1>3, <1>4, <1>5, <2>2
    <3> QED BY <1>5, <1>6, <2>2, <3>1
  <2>5. EnterKind = "CR" <=> term # "LF"
    BY DEF EnterKind
  <2>6. loneCr' <=> t = 1 /\ term # "LF"
    BY <2>1, <2>3, <2>4, <2>5
  <2>7. Text(k, t)'
    BY <1>1, <1>3, <1>4, <1>5, <2>1, <2>2, <2>6 DEF Text
  <2>8. \E x \in {0, 1}, y \in 0..2 : Text(x, y)'
    BY <1>3, <2>7
  <2> QED BY <1>1, <1>2, <1>4, <1>7, <2>1, <2>8, TypedLater DEF Typed, LateLf
<1>10. CASE TakeSwallow
  <2>1. swallow' = loneCr /\ pc = "swallow" /\ pc' = "arm" /\ UNCHANGED <<cap, received, end, copy, loneCr>>
    BY <1>10 DEF TakeSwallow
  <2>2. Text(k, t)'
    BY <1>1, <1>3, <1>4, <1>5, <2>1 DEF Text
  <2>3. \E x \in {0, 1}, y \in 0..2 : Text(x, y)'
    BY <1>3, <2>2
  <2>4. term = "LF" => ~swallow'
    BY <1>5, <2>1
  <2> QED BY <1>1, <1>2, <1>4, <1>7, <2>1, <2>3, <2>4, TypedLater DEF Typed, LateLf
<1> QED BY <1>8, <1>9, <1>10

\* the receiver is armed for the next line, and swallows an LF that is late
LEMMA ArmTyped ==
  ASSUME IInv, TakeArm, Main, Tidy'
  PROVE  Typed' /\ LateLf'
<1>1. /\ pc = "arm" /\ Arm /\ pc' = "poll" /\ typed' = <<>> /\ ~sent'
      /\ UNCHANGED <<swallow, fresh, term, overlong, lfDue, irqIdle>> /\ irqIdle = "off"
  BY DEF TakeArm, MainFrame, Main
<1>2. Tidy
  BY <1>1 DEF Tidy
<1>3. PICK k \in {0, 1}, t \in 0..2 : Text(k, t)
  BY <1>2, TidyIs
<1>4. sent
  BY <1>1, <1>2, TidyIs
<1>5. Typed /\ LateLf
  BY DEF IInv
<1>6. /\ t # 0 /\ (t = 2 => ~lfDue /\ dr = None)
      /\ (swallow <=> t = 1 /\ term # "LF")
      /\ (lfDue => term = "CRLF") /\ (dr # None => Kind(dr) = "LF" /\ term = "CRLF" /\ ~lfDue)
      /\ (term = "LF" => ~swallow)
  BY <1>1, <1>2, <1>3, <1>4, <1>5 DEF Text, Typed, LateLf
<1>7. lfDue \/ dr # None => swallow
  <2>1. lfDue \/ dr # None => t = 1
    BY <1>3, <1>6
  <2> QED BY <1>6, <2>1
<1>8. /\ dmaOn' /\ dr' = None
      /\ dr = None => buf' = <<>> /\ Len(buf') = 0
      /\ dr # None => Len(buf') = 1 /\ buf'[1] = dr
  BY <1>1, ArmIs
<1>9. \E x \in {0, 1}, y \in 0..2 : Text(x, y)'
  <2>1. CASE dr = None
    <3>1. Text(0, 0)'
      BY <1>1, <1>8, <2>1, TextFresh
    <3> QED BY <3>1
  <2>2. CASE dr # None
    <3>1. Text(1, 0)'
      BY <1>1, <1>6, <1>7, <1>8, <2>2, TextFresh
    <3> QED BY <3>1
  <2> QED BY <2>1, <2>2
<1>10. typed' \in Seq({"char"} \X Prompts)
  BY <1>1
<1> QED BY <1>1, <1>6, <1>7, <1>8, <1>9, <1>10, TypedLater

\* a login screen begins with an empty line
LEMMA LoginTyped ==
  ASSUME IInv, EnterLogin, Main, Tidy'
  PROVE  Typed' /\ LateLf'
<1>1. /\ pc = "poll" /\ ~fresh /\ ~lfDue /\ ~pause /\ ~idle /\ Arm /\ swallow' = FALSE
      /\ UNCHANGED <<pc, term, typed, sent, lfDue, irqIdle>> /\ irqIdle = "off"
  BY DEF EnterLogin, USART_Drv_WipeRx, Quiet, MainFrame, mainVars, Main
<1>2. typed = <<>> /\ ~sent /\ dr = None
  BY <1>1 DEF IInv, Silent, Wire
<1>3. dmaOn' /\ dr' = None /\ Len(buf') = 0
  BY <1>1, <1>2, ArmIs
<1>4. Text(0, 0)'
  BY <1>1, <1>2, <1>3, TextFresh
<1>5. \E x \in {0, 1}, y \in 0..2 : Text(x, y)'
  BY <1>4
<1>6. typed' \in Seq({"char"} \X Prompts)
  BY <1>1, <1>2
<1> QED BY <1>1, <1>2, <1>3, <1>5, <1>6, TypedLater

\* every step keeps the text in the buffer, and its LF on the way
LEMMA NextTyped ==
  ASSUME IInv, [Next]_vars
  PROVE  Typed' /\ LateLf'
<1> SUFFICES ASSUME Tidy' PROVE Typed' /\ LateLf'
  BY DEF Typed, LateLf
<1>1. Typed /\ LateLf
  BY DEF IInv
<1>2. CASE Terminal
  BY <1>2, TypeCharTyped, TypeEnterTyped, TypeLfTyped DEF Terminal
<1>3. CASE IdleLook \/ IdleStop
  BY <1>3, IdleTyped
<1>4. CASE LineIdle \/ IdleClearTc \/ IdleMeasure \/ IdleComplete \/ IrqTc \/ Poll \/ UNCHANGED vars
  <2>1. /\ UNCHANGED <<buf, dr, dmaOn, swallow, cap, received, end, copy, loneCr, fresh, term, typed, sent, overlong, lfDue>>
        /\ (irqIdle' # "off" => irqIdle # "off")
        /\ (pc' = pc \/ (pc # "arm" /\ pc' = "copy" /\ complete))
    BY <1>4 DEF LineIdle, IdleClearTc, IdleMeasure, IdleComplete, IdleFrame, IrqTc, TcLook, TcMeasure, TcComplete,
       TcFrame, Poll, MainFrame, vars, rxVars, mainVars, userVars
  <2>2. Tidy
    BY <2>1 DEF Tidy
  <2>3. PICK k \in {0, 1}, t \in 0..2 : Text(k, t)
    BY <2>2, TidyIs
  <2>4. Text(k, t)'
    BY <2>1, <2>3, TextKept
  <2>5. \E x \in {0, 1}, y \in 0..2 : Text(x, y)'
    BY <2>3, <2>4
  <2>6. complete => sent
    BY <2>2, TidyIs
  <2> QED BY <1>1, <2>1, <2>2, <2>5, <2>6, TypedLater DEF Typed, LateLf
<1>5. CASE Main /\ (TakeCopy \/ TakeLook \/ TakeSwallow)
  BY <1>5, TakeTyped
<1>6. CASE Main /\ TakeArm
  BY <1>6, ArmTyped
<1>7. CASE Main /\ EnterLogin
  BY <1>7, LoginTyped
<1>8. CASE Panic
  BY <1>8 DEF Panic, Tidy
<1> QED BY <1>2, <1>3, <1>4, <1>5, <1>6, <1>7, <1>8 DEF Next, IrqIdle, Main

-----------------------------------------------------------------------------
(* Theorems. *)

\* The invariant of the receiver holds of every behaviour.
THEOREM ReceiverInv == Spec => []IInv
<1>1. IInv /\ [Next]_vars => IInv'
  <2> SUFFICES ASSUME IInv, [Next]_vars PROVE IInv'
    OBVIOUS
  <2>1. TypeOK'
    BY NextWireTypes, NextFlagTypes, NextPhaseTypes, NextCountTypes, NextLineTypes DEF TypeOK
  <2> QED BY <2>1, NextWire, NextSilent, NextRests, NextGenuine, NextTyped DEF IInv
<1> QED BY InitIInv, <1>1, PTL DEF Spec

\* The receiver's variables keep their types: the stream never writes past
\* the buffer, and no length that TakeLine works with is longer than it.
THEOREM ReceiverTypes == Spec => []TypeOK
<1>1. IInv => TypeOK
  BY DEF IInv
<1> QED BY <1>1, ReceiverInv, PTL

\* USART_Drv_TakeLine gives its caller each line that fits s_rx_buf as it was
\* typed, up to the dst_cap - 1 characters its caller has room for, whatever
\* the Enter of the terminal, the pauses between the bytes, the interrupts and
\* the panics.
THEOREM LinesAreTyped == Spec => []LineIsTyped
<1>1. IInv => LineIsTyped
  <2> SUFFICES ASSUME IInv, fresh, ~overlong, pc = "arm"
               PROVE  sent /\ copy = Fitting(typed, cap)
    BY DEF LineIsTyped
  <2>1. Tidy
    BY DEF Tidy
  <2>2. sent
    BY <2>1, TidyIs
  <2>3. PICK k \in {0, 1}, t \in 0..2 : Text(k, t)
    BY <2>1, TidyIs
  <2>4. copy = Fitting(typed, cap)
    BY <2>3 DEF Text
  <2> QED BY <2>2, <2>4
<1> QED BY <1>1, ReceiverInv, PTL

\* No byte typed before a panic, or left in the buffer or the data register
\* by it, reaches the screen that is entered after it.
THEOREM NothingOldTaken == Spec => []NothingOldIsTaken
<1>1. IInv => NothingOldIsTaken
  <2> SUFFICES ASSUME IInv, fresh, pc = "arm"
               PROVE  \A k \in DOMAIN copy : copy[k] \in {"char"} \X {2 * panics, 2 * panics + 1}
    BY DEF NothingOldIsTaken
  <2>1. \A k \in 1..Len(copy) : copy[k] \in {"char"} \X Now
    BY DEF IInv, Genuine
  <2>2. DOMAIN copy = 1..Len(copy)
    BY DEF IInv, TypeOK, LineTypes
  <2> QED BY <2>1, <2>2 DEF Now
<1> QED BY <1>1, ReceiverInv, PTL
=============================================================================
