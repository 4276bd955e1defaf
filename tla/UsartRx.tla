------------------------------ MODULE UsartRx ------------------------------
(***************************************************************************)
(* The receive half of usart_drv.c with line_buf.c: DMA1 Stream5 collects  *)
(* bytes into s_rx_buf, the USART IDLE interrupt looks for an Enter after  *)
(* each pause, the DMA's transfer-complete interrupt takes a full buffer   *)
(* for a line, and the main loop polls and takes the line.                 *)
(*                                                                         *)
(* The panic interrupt (priority 0) preempts the IDLE interrupt (1), which *)
(* preempts the transfer-complete interrupt (2), which preempts the main   *)
(* loop.  The critical sections of TakeLine and WipeRx are single steps.   *)
(*                                                                         *)
(* A byte is its kind and the prompt it was typed at.  Two numbers tell    *)
(* successive prompts apart: a byte that was left over would show.         *)
(* Editing with backspace is left out.                                     *)
(***************************************************************************)
EXTENDS Naturals, Sequences

CONSTANTS
  RxMax,     \* USART_DRV_RX_LINE_MAX
  LineMax,   \* characters in the longest line the user types
  Caps,      \* sizes of the callers' buffers: 8 (menu), 32 (GENERATE, RETRIEVE), 33 (master key)
  MaxPanics  \* bound on the panics

\* in a buffer of one byte an LF that comes late would be a line of its own
ASSUME RxAssumption == RxMax \in Nat /\ RxMax > 1 /\ LineMax \in Nat
\* every caller has room for the terminating NUL
ASSUME CapsAssumption == Caps # {} /\ Caps \subseteq Nat \ {0}
ASSUME MaxPanicsAssumption == MaxPanics \in Nat

Prompts == 0..(2 * MaxPanics + 1)
Bytes   == {"char", "CR", "LF"} \X Prompts \cup {<<"NUL", 0>>}
None    == <<>>

VARIABLES
  buf,       \* the bytes in s_rx_buf since the stream was armed; NDTR is RxMax - Len(buf)
  dmaOn,     \* the stream is enabled
  tcif,      \* its transfer-complete flag
  dr,        \* the USART's data register, None when it was read
  idle,      \* the USART's IDLE flag
  pause,     \* a byte came and no pause since
  rxLen, complete, swallow,  \* s_rx_len, s_rx_complete, s_swallow_lf
  irqIdle,   \* where USART2_IRQHandler is
  irqTc,     \* where DMA1_Stream5_IRQHandler is
  pc, cap, received, end, copy, loneCr,  \* USART_Drv_TakeLine: dst_cap, its locals, and dst
  fresh,     \* a login screen was entered after the last panic
  term,      \* what the terminal sends for Enter
  typed,     \* what the user has typed at this prompt
  sent,      \* whether with an Enter
  overlong,  \* a line that may not fit was typed on this screen
  lfDue,     \* the LF of a CR LF is still to come
  even,      \* alternates from prompt to prompt
  panics

rxVars   == <<buf, dmaOn, tcif, dr, rxLen, complete, swallow>>
mainVars == <<pc, cap, received, end, copy, loneCr>>
userVars == <<fresh, term, typed, sent, overlong, lfDue, even>>
vars == <<rxVars, idle, pause, irqIdle, irqTc, mainVars, userVars, panics>>

Init == /\ buf = <<>> /\ dmaOn = TRUE /\ tcif = FALSE /\ dr = None /\ idle = FALSE /\ pause = FALSE
        /\ rxLen = 0 /\ complete = FALSE /\ swallow = FALSE
        /\ irqIdle = "off" /\ irqTc = "off"
        /\ pc = "poll" /\ cap = 0 /\ received = 0 /\ end = 1 /\ copy = <<>> /\ loneCr = FALSE
        /\ fresh = TRUE
        /\ term \in {"CR", "LF", "CRLF"}
        /\ typed = <<>> /\ sent = FALSE /\ overlong = FALSE /\ lfDue = FALSE /\ even = TRUE
        /\ panics = 0

-----------------------------------------------------------------------------
(* line_buf.c; indices count from 1. *)

Kind(b) == b[1]

\* the first n bytes of s_rx_buf
Buffered(n) == [k \in 1..n |-> IF k <= Len(buf) THEN buf[k] ELSE <<"NUL", 0>>]

LineBuf_Start(n) == IF swallow /\ n > 0 /\ Kind(Buffered(n)[1]) = "LF" THEN 2 ELSE 1

EndAmong(kinds, from, n) ==
  LET ends == {k \in from..n : Kind(Buffered(n)[k]) \in kinds}
  IN  IF ends = {} THEN n + 1 ELSE CHOOSE k \in ends : \A l \in ends : k <= l

\* mutant: an LF does not end a line
LineBuf_FindEndCr(from, n) == EndAmong({"CR"}, from, n)

LineBuf_FindEnd(from, n) == EndAmong({"CR", "LF"}, from, n)

\* the first size - 1 of the characters; a NUL is put after them
Fitting(line, size) == SubSeq(line, 1, IF Len(line) < size THEN Len(line) ELSE size - 1)

LineBuf_Extract(from, to, n, size) == Fitting(SubSeq(Buffered(n), from, to - 1), size)

-----------------------------------------------------------------------------
(* The receiver. *)

\* RxStream_Arm, after s_rx_buf was zeroed: disabling raises TC, which is
\* cleared, and the stream collects from the start of the buffer; a byte
\* still in the data register comes first
Arm == /\ buf' = (IF dr = None THEN <<>> ELSE <<dr>>)
       /\ dmaOn' = TRUE /\ tcif' = FALSE
       /\ dr' = None

\* a byte arrives: the stream stores it, or it waits in the data register,
\* or it is lost in an overrun
Receive(b) ==
  /\ pause' = TRUE
  /\ \/ /\ dmaOn
        /\ buf' = Append(buf, b)
        /\ dmaOn' = (Len(buf) + 1 < RxMax)
        /\ tcif' = (tcif \/ Len(buf) + 1 = RxMax)
        /\ UNCHANGED dr
     \/ ~dmaOn /\ dr = None /\ dr' = b /\ UNCHANGED <<buf, dmaOn, tcif>>
     \/ ~dmaOn /\ dr # None /\ UNCHANGED <<buf, dmaOn, tcif, dr>>
  /\ UNCHANGED <<idle, rxLen, complete, swallow, irqIdle, irqTc, mainVars, panics>>

\* no byte for as long as one takes
LineIdle ==
  /\ pause
  /\ pause' = FALSE
  /\ idle' = TRUE
  /\ UNCHANGED <<rxVars, irqIdle, irqTc, mainVars, userVars, panics>>

-----------------------------------------------------------------------------
(* The user answers the prompts of a fresh screen: one line, then Enter.    *)

Prompt == 2 * panics + IF even THEN 0 ELSE 1

TypeChar ==
  /\ fresh /\ ~sent /\ ~lfDue /\ Len(typed) < LineMax
  /\ Receive(<<"char", Prompt>>)
  /\ typed' = Append(typed, <<"char", Prompt>>)
  /\ overlong' = (overlong \/ Len(typed) + 3 > RxMax)
  /\ UNCHANGED <<fresh, term, sent, lfDue, even>>

TypeEnter ==
  /\ fresh /\ ~sent /\ ~lfDue
  /\ Receive(<<IF term = "LF" THEN "LF" ELSE "CR", Prompt>>)
  /\ sent' = TRUE
  /\ lfDue' = (term = "CRLF")
  /\ UNCHANGED <<fresh, term, typed, overlong, even>>

\* at any time after its CR
TypeLf ==
  /\ lfDue
  /\ Receive(<<"LF", Prompt>>)
  /\ lfDue' = FALSE
  /\ UNCHANGED <<fresh, term, typed, sent, overlong, even>>

-----------------------------------------------------------------------------
(* USART2_IRQHandler. *)

IdleFrame == UNCHANGED <<pause, irqTc, mainVars, userVars, panics>>

\* reading SR and DR clears the flag, and drops a byte left in DR
IdleLook ==
  /\ irqIdle = "off" /\ idle
  /\ idle' = FALSE /\ dr' = None
  /\ irqIdle' = IF LineBuf_FindEnd(LineBuf_Start(Len(buf)), Len(buf)) <= Len(buf)
                  THEN "found" ELSE "off"
  /\ IdleFrame /\ UNCHANGED <<buf, dmaOn, tcif, rxLen, complete, swallow>>

\* disabling the stream mid-transfer also raises its TC flag
IdleStop ==
  /\ irqIdle = "found"
  /\ dmaOn' = FALSE
  /\ tcif' = (tcif \/ dmaOn)
  /\ irqIdle' = "stopped"
  /\ IdleFrame /\ UNCHANGED <<buf, dr, idle, rxLen, complete, swallow>>

\* mutant: the TC flag is left set
IdleKeepTc ==
  /\ irqIdle = "stopped"
  /\ irqIdle' = "cleared"
  /\ IdleFrame /\ UNCHANGED <<rxVars, idle>>

IdleClearTc ==
  /\ irqIdle = "stopped"
  /\ tcif' = FALSE
  /\ irqIdle' = "cleared"
  /\ IdleFrame /\ UNCHANGED <<buf, dmaOn, dr, idle, rxLen, complete, swallow>>

IdleMeasure ==
  /\ irqIdle = "cleared"
  /\ rxLen' = Len(buf)
  /\ irqIdle' = "measured"
  /\ IdleFrame /\ UNCHANGED <<buf, dmaOn, tcif, dr, idle, complete, swallow>>

IdleComplete ==
  /\ irqIdle = "measured"
  /\ complete' = TRUE
  /\ irqIdle' = "off"
  /\ IdleFrame /\ UNCHANGED <<buf, dmaOn, tcif, dr, idle, rxLen, swallow>>

IrqIdle == IdleLook \/ IdleStop \/ IdleClearTc \/ IdleMeasure \/ IdleComplete

-----------------------------------------------------------------------------
(* DMA1_Stream5_IRQHandler. *)

TcFrame == UNCHANGED <<buf, dmaOn, dr, swallow, idle, pause, irqIdle, mainVars, userVars, panics>>

TcLook ==
  /\ irqTc = "off" /\ tcif
  /\ tcif' = FALSE
  /\ irqTc' = "seen"
  /\ TcFrame /\ UNCHANGED <<rxLen, complete>>

TcMeasure ==
  /\ irqTc = "seen"
  /\ rxLen' = RxMax
  /\ irqTc' = "measured"
  /\ TcFrame /\ UNCHANGED <<tcif, complete>>

TcComplete ==
  /\ irqTc = "measured"
  /\ complete' = TRUE
  /\ irqTc' = "off"
  /\ TcFrame /\ UNCHANGED <<tcif, rxLen>>

IrqTc == irqIdle = "off" /\ (TcLook \/ TcMeasure \/ TcComplete)

-----------------------------------------------------------------------------
(* The main loop: USART_Drv_RxComplete, then USART_Drv_TakeLine. *)

MainFrame == UNCHANGED <<idle, pause, irqIdle, irqTc, panics>>

Poll ==
  /\ pc = "poll" /\ complete
  /\ pc' = "copy"
  /\ MainFrame /\ UNCHANGED <<rxVars, userVars, cap, received, end, copy, loneCr>>

TakeCopy ==
  /\ pc = "copy"
  /\ cap' \in Caps
  /\ received' = rxLen
  /\ LET start == LineBuf_Start(rxLen)
     IN  /\ end' = LineBuf_FindEnd(start, rxLen)
         /\ copy' = LineBuf_Extract(start, end', rxLen, cap')
  /\ pc' = "look"
  /\ MainFrame /\ UNCHANGED <<rxVars, userVars, loneCr>>

TakeLook ==
  /\ pc = "look"
  /\ loneCr' = (end = received /\ Kind(Buffered(received)[end]) = "CR")
  /\ pc' = "swallow"
  /\ MainFrame /\ UNCHANGED <<rxVars, userVars, cap, received, end, copy>>

TakeSwallow ==
  /\ pc = "swallow"
  /\ swallow' = loneCr
  /\ pc' = "arm"
  /\ MainFrame /\ UNCHANGED <<buf, dmaOn, tcif, dr, rxLen, complete, userVars, cap, received, end, copy, loneCr>>

\* one critical section; then the caller prompts again
TakeArm ==
  /\ pc = "arm"
  /\ Arm /\ rxLen' = 0 /\ complete' = FALSE
  /\ pc' = "poll" /\ cap' = 0 /\ received' = 0 /\ end' = 1 /\ copy' = <<>> /\ loneCr' = FALSE
  /\ typed' = <<>> /\ sent' = FALSE /\ even' = ~even
  /\ MainFrame /\ UNCHANGED <<swallow, fresh, term, overlong, lfDue>>

USART_Drv_WipeRx == Arm /\ rxLen' = 0 /\ complete' = FALSE /\ swallow' = FALSE

\* HandleInit has read both partitions, which takes longer than a pause on
\* the line: the terminal is quiet
Quiet == ~lfDue /\ ~pause /\ ~idle

\* mutant: the receiver is left as the interrupts left it
EnterUnwiped ==
  /\ pc = "poll" /\ ~fresh /\ Quiet
  /\ fresh' = TRUE /\ overlong' = FALSE
  /\ MainFrame /\ UNCHANGED <<rxVars, mainVars, term, typed, sent, lfDue, even>>

\* Mode_MkAuth_Enter or Mode_FirstMeet_Enter, some time after a panic
EnterLogin ==
  /\ pc = "poll" /\ ~fresh /\ Quiet
  /\ USART_Drv_WipeRx
  /\ fresh' = TRUE /\ overlong' = FALSE
  /\ MainFrame /\ UNCHANGED <<mainVars, term, typed, sent, lfDue, even>>

Main == /\ irqIdle = "off" /\ irqTc = "off"
        /\ Poll \/ TakeCopy \/ TakeLook \/ TakeSwallow \/ TakeArm \/ EnterLogin

\* App_PanicHandler: WipeRx in the EXTI interrupt
Panic ==
  /\ panics < MaxPanics
  /\ panics' = panics + 1
  /\ USART_Drv_WipeRx
  /\ fresh' = FALSE /\ typed' = <<>> /\ sent' = FALSE /\ overlong' = FALSE /\ even' = TRUE
  /\ UNCHANGED <<idle, pause, irqIdle, irqTc, mainVars, term, lfDue>>

Terminal == TypeChar \/ TypeEnter \/ TypeLf

Next == Terminal \/ LineIdle \/ IrqIdle \/ IrqTc \/ Main \/ Panic

Spec == Init /\ [][Next]_vars

\* Interrupts are served, pauses and due LFs come, and the main loop runs on:
\* it is only ever preempted for a moment (strong fairness).  The user need
\* not type.
FairSpec == /\ Spec
            /\ WF_vars(LineIdle) /\ WF_vars(TypeLf)
            /\ WF_vars(IrqIdle) /\ WF_vars(IrqTc) /\ SF_vars(Main)

-----------------------------------------------------------------------------
(* Properties. *)

WireTypes == buf \in Seq(Bytes) /\ Len(buf) <= RxMax /\ dr \in Bytes \cup {None}

FlagTypes == /\ dmaOn \in BOOLEAN /\ tcif \in BOOLEAN /\ idle \in BOOLEAN /\ pause \in BOOLEAN
             /\ complete \in BOOLEAN /\ swallow \in BOOLEAN /\ loneCr \in BOOLEAN
             /\ fresh \in BOOLEAN /\ sent \in BOOLEAN /\ overlong \in BOOLEAN /\ lfDue \in BOOLEAN
             /\ even \in BOOLEAN

PhaseTypes == /\ irqIdle \in {"off", "found", "stopped", "cleared", "measured"}
              /\ irqTc \in {"off", "seen", "measured"}
              /\ pc \in {"poll", "copy", "look", "swallow", "arm"}
              /\ term \in {"CR", "LF", "CRLF"}

CountTypes == /\ cap \in Caps \cup {0} /\ rxLen \in 0..RxMax /\ received \in 0..RxMax /\ end \in 1..(RxMax + 1)
              /\ panics \in 0..MaxPanics

LineTypes == /\ copy \in Seq(Bytes) /\ Len(copy) <= RxMax
             /\ typed \in Seq(Bytes) /\ Len(typed) <= LineMax

TypeOK == WireTypes /\ FlagTypes /\ PhaseTypes /\ CountTypes /\ LineTypes

\* A line that fits s_rx_buf (with a late LF before it and its own Enter) is
\* handed out once and alone, whole or, when the caller's buffer is shorter,
\* its first dst_cap - 1 characters: whichever Enter the terminal sends and
\* however its bytes are spaced, the LF of a CR LF does not make an empty
\* line, a stopped transfer is not taken for a full buffer, what was cut does
\* not come back as a line of its own, and no line is handed out that the
\* user of this screen did not finish.
LineIsTyped == fresh /\ ~overlong /\ pc = "arm" => sent /\ copy = Fitting(typed, cap)

\* Also when lines do not fit: what a screen gets was typed after the panic
\* before it, and holds no zero bytes.
NothingOldIsTaken ==
  fresh /\ pc = "arm" => \A k \in DOMAIN copy : copy[k] \in {"char"} \X {2 * panics, 2 * panics + 1}

\* A line that was finished is taken, unless a panic drops it: the receiver is
\* never off for good, in spite of panics that re-arm it inside an interrupt.
LineIsTaken == sent ~> ~sent
=============================================================================
