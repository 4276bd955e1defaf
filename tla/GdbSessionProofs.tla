-------------------------- MODULE GdbSessionProofs --------------------------
(***************************************************************************)
(* Every answer belongs to its command, nothing is traced on an ELF that   *)
(* is not the source, and the board is left running without a comparator:  *)
(* for every table of breakpoints, every length of a handler and every     *)
(* number of stops.                                                        *)
(*                                                                         *)
(* The argument: while the tool works, at most one command is under way,   *)
(* and it is either on its way to gdb, or with the running program, or     *)
(* answered (InStep).  A time-out, a Ctrl+C and a lost link end this, but  *)
(* then the tool only closes, and close() takes no answer for more than a  *)
(* prompt.                                                                 *)
(***************************************************************************)
EXTENDS GdbSession, SequenceTheorems, TLAPS

Working == {"init", "connect", "loop", "handler", "pace"}

\* The reply of a checked line says whether it is the line of the source.
Honest(r) == r.of.op = "verify" /\ r.of.n \in stale => r.what = "line" /\ r.n # r.of.n

Quiet(sent, answers) == toGdb = sent /\ fromGdb = answers

\* Where the one command under way is.
InStep ==
    \/ awaiting = Nothing /\ gdb = "idle" /\ Quiet(<<>>, <<>>)
    \/ awaiting # Nothing /\ gdb = "idle" /\ Quiet(<<awaiting>>, <<>>)
    \/ /\ awaiting # Nothing /\ gdb = "idle"
       /\ \E r \in Replies : r.of = awaiting /\ Honest(r) /\ Quiet(<<>>, <<r>>)
    \/ awaiting = Cmd("continue", 0) /\ gdb = "inferior" /\ Quiet(<<>>, <<>>)
    \/ awaiting # Nothing /\ gdb = "gone" /\ Quiet(<<>>, <<>>)

\* Before the tool first waits, gdb's own prompt is the command under way.
Spawned ==
    /\ awaiting = Nothing /\ gdb = "idle" /\ ~intr
    /\ \/ Quiet(<<Cmd("start", 0)>>, <<>>)
       \/ \E r \in Replies : r.of = Cmd("start", 0) /\ Quiet(<<>>, <<r>>)

\* The command under way is the first of those to be sent, but for gdb's own
\* prompt; of those to be sent, one checks each line that is not as in the
\* source, until the last is sent.
Script ==
    /\ awaiting # Nothing /\ awaiting.op # "start" => todo # <<>> /\ awaiting = Head(todo)
    /\ pc = "pace" => awaiting = Nothing
    /\ pc = "connect" => \A l \in stale : \E i \in 1..Len(todo) : todo[i] = Cmd("verify", l)
    /\ pc \in {"loop", "handler", "pace"} => stale = {}

Core ==
    /\ AnswersInStep
    /\ pc = "spawn" => Spawned
    /\ pc \in Working => ~echo /\ ~intr /\ InStep /\ Script

IInv == TypeOK /\ Core

-----------------------------------------------------------------------------
(* The pieces of Python are sequences of commands.                         *)

LEMMA ArmScriptLines ==
    /\ ArmScript \in Seq(Commands)
    /\ Len(ArmScript) = 2 * NLines
    /\ \A l \in Lines : ArmScript[2 * l] = Cmd("verify", l)
<1> USE BoundsAssumption
<1>1. ASSUME NEW i \in 1..(2 * NLines)
      PROVE  IF i % 2 = 1 THEN (i + 1) \div 2 \in Lines ELSE i \div 2 \in Lines
  BY DEF Lines
<1>2. \A i \in 1..(2 * NLines) : ArmScript[i] \in Commands
  BY <1>1 DEF ArmScript, Cmd, Commands
<1>3. ArmScript \in [1..(2 * NLines) -> Commands]
  BY <1>2 DEF ArmScript
<1>4. ArmScript \in Seq(Commands) /\ Len(ArmScript) = 2 * NLines
  BY <1>3
<1>5. ASSUME NEW l \in Lines PROVE ArmScript[2 * l] = Cmd("verify", l)
  <2>1. 2 * l \in 1..(2 * NLines) /\ (2 * l) % 2 = 0 /\ (2 * l) \div 2 = l
    BY DEF Lines
  <2> QED BY <2>1 DEF ArmScript
<1> QED BY <1>4, <1>5

LEMMA ScriptTypes ==
    /\ SetupScript \in Seq(Commands) /\ SetupScript # <<>>
    /\ ConnectScript \o ArmScript \in Seq(Commands)
    /\ HandlerScript \in Seq(Commands)
    /\ CloseScript \in Seq(Commands)
    /\ <<Cmd("continue", 0)>> \in Seq(Commands)
    /\ \A l \in Lines : \E i \in 1..Len(ConnectScript \o ArmScript) :
            (ConnectScript \o ArmScript)[i] = Cmd("verify", l)
<1> USE BoundsAssumption
<1>1. SetupScript \in Seq(Commands) /\ SetupScript # <<>>
  BY DEF SetupScript, Commands, Cmd
<1>2. ConnectScript \in Seq(Commands) /\ Len(ConnectScript) = 2
  BY DEF ConnectScript, Commands, Cmd
<1>3. HandlerScript \in Seq(Commands)
  <2>1. HandlerScript \in [1..NReads -> Commands]
    BY DEF HandlerScript, Commands, Cmd
  <2> QED BY <2>1
<1>4. CloseScript \in Seq(Commands)
  BY DEF CloseScript, Commands, Cmd
<1>5. <<Cmd("continue", 0)>> \in Seq(Commands)
  BY DEF Commands, Cmd
<1>6. ASSUME NEW l \in Lines
      PROVE  \E i \in 1..Len(ConnectScript \o ArmScript) :
                (ConnectScript \o ArmScript)[i] = Cmd("verify", l)
  <2>1. l \in Nat /\ l >= 1 /\ l <= NLines /\ NLines \in Nat
    BY DEF Lines
  <2>2. ArmScript \in Seq(Commands) /\ Len(ArmScript) = 2 * NLines
    BY ArmScriptLines
  <2>3. Len(ConnectScript \o ArmScript) = Len(ConnectScript) + Len(ArmScript)
    BY <1>2, <2>2, ConcatProperties
  <2>4. 2 * l + 2 \in 1..(2 + 2 * NLines) /\ 2 * l + 2 > 2 /\ (2 * l + 2) - 2 = 2 * l
    BY <2>1
  <2>5. (ConnectScript \o ArmScript)[2 * l + 2] = ArmScript[2 * l]
    BY <1>2, <2>2, <2>3, <2>4
  <2> QED BY <1>2, <2>2, <2>3, <2>4, <2>5, ArmScriptLines
<1> QED BY <1>1, <1>2, <1>3, <1>4, <1>5, <1>6, ArmScriptLines

-----------------------------------------------------------------------------
(* The types.                                                              *)

LEMMA InitTypes == Init => TypeOK
<1> SUFFICES ASSUME Init PROVE TypeOK
  OBVIOUS
<1>1. Cmd("start", 0) \in Commands
  BY DEF Cmd, Commands
<1>2. last \in [cmd : Commands \union {Nothing},
               of : Commands \union {Cmd("echo", 0), Nothing}]
  BY DEF Init
<1>3. PcTypes
  BY <1>2, ScriptTypes DEF Init, PcTypes
<1>4. GdbTypes
  BY <1>1 DEF Init, GdbTypes
<1>5. FlagTypes
  BY DEF Init, FlagTypes
<1>6. CountTypes
  BY BoundsAssumption DEF Init, CountTypes
<1> QED BY <1>3, <1>4, <1>5, <1>6 DEF TypeOK

LEMMA NextTypes == IInv /\ [Next]_vars => TypeOK'
<1> SUFFICES ASSUME IInv, [Next]_vars PROVE TypeOK'
  OBVIOUS
<1>a. PcTypes /\ GdbTypes /\ FlagTypes /\ CountTypes
  BY DEF IInv, TypeOK
<1> USE <1>a DEF pyVars, gdbVars, bdVars
<1>b. Cmd("start", 0) \in Commands /\ Cmd("intr", 0) \in Commands /\ Cmd("continue", 0) \in Commands
  BY DEF Cmd, Commands
<1>c. ASSUME NEW c \in Commands \union {Cmd("echo", 0)},
              NEW what \in {"done", "value", "error", "line", "remote", "breakpoint", "norun",
                            "hit", "signal", "exited", "quit", "closed"},
              NEW n \in Nat
      PROVE  Reply(c, what, n) \in Replies
  BY DEF Reply, Replies
<1>d. ASSUME NEW c \in Commands
      PROVE  c.n \in Nat /\ (c.op = "break" => c.n \in Lines)
  BY DEF Commands, Lines
<1>h. ASSUME NEW pcs, Raise(pcs) PROVE PcTypes'
  <2>1. pc' \in {"closing", "killing"} /\ todo' \in Seq(Commands)
    BY <1>h, ScriptTypes, EmptySeq DEF Raise
  <2> QED BY <1>h, <2>1 DEF Raise, PcTypes
<1>1. CASE DisableEcho
  <2>1. PcTypes'
    BY <1>1, <1>b DEF DisableEcho, EchoAfterSetup, PcTypes
  <2>2. GdbTypes'
    BY <1>1 DEF DisableEcho, EchoAfterSetup, GdbTypes
  <2>3. FlagTypes'
    BY <1>1 DEF DisableEcho, EchoAfterSetup, FlagTypes
  <2>4. CountTypes'
    BY <1>1 DEF DisableEcho, EchoAfterSetup, CountTypes
  <2> QED BY <2>1, <2>2, <2>3, <2>4 DEF TypeOK
<1>2. CASE Send
  <2>1. Head(todo) \in Commands
    BY <1>2 DEF Send, PcTypes
  <2>2. Reply(Cmd("echo", 0), "done", 0) \in Replies
    BY <1>c
  <2>3. PcTypes'
    BY <1>2, <2>1 DEF Send, PcTypes
  <2>4. GdbTypes'
    BY <1>2, <2>1, <2>2 DEF Send, GdbTypes
  <2>5. FlagTypes' /\ CountTypes'
    BY <1>2 DEF Send, FlagTypes, CountTypes
  <2> QED BY <2>3, <2>4, <2>5 DEF TypeOK
<1>3. CASE Take
  <2>1. PICK r \in Replies : r = Head(fromGdb)
    BY <1>3 DEF Take, GdbTypes
  <2>2. awaiting \in Commands /\ last' = [cmd |-> awaiting, of |-> r.of]
    BY <1>3, <2>1 DEF Take, PcTypes
  <2>3. r.of \in Commands \union {Cmd("echo", 0)}
    BY <2>1 DEF Replies
  <2>4. todo' \in Seq(Commands)
    <3>1. Rest \in Seq(Commands)
      BY <1>3 DEF Take, IInv, Core, Working, Script, Rest, PcTypes
    <3> QED BY <1>3, <2>1, <3>1, ScriptTypes DEF Take, NextPiece
  <2>5. pc' \in {"init", "connect", "loop", "handler", "pace", "closing"}
    BY <1>3, <2>1 DEF Take, NextPiece
  <2>6. PcTypes'
    BY <1>3, <2>2, <2>3, <2>4, <2>5 DEF Take, PcTypes
  <2>7. GdbTypes'
    BY <1>3 DEF Take, GdbTypes
  <2>8. FlagTypes' /\ CountTypes'
    BY <1>3 DEF Take, FlagTypes, CountTypes
  <2> QED BY <2>6, <2>7, <2>8 DEF TypeOK
<1>4. CASE TimeOut
  <2>1. PcTypes'
    BY <1>4, <1>h DEF TimeOut
  <2>2. GdbTypes'
    BY <1>4 DEF TimeOut, Raise, GdbTypes
  <2>3. FlagTypes'
    BY <1>4 DEF TimeOut, Raise, FlagTypes
  <2>4. CountTypes'
    BY <1>4 DEF TimeOut, Raise, CountTypes
  <2> QED BY <2>1, <2>2, <2>3, <2>4 DEF TypeOK
<1>5. CASE SendIntr
  <2>1. PcTypes'
    BY <1>5, <1>b DEF SendIntr, PcTypes
  <2>2. GdbTypes'
    BY <1>5 DEF SendIntr, GdbTypes
  <2>3. FlagTypes'
    BY <1>5 DEF SendIntr, FlagTypes
  <2>4. CountTypes'
    BY <1>5 DEF SendIntr, CountTypes
  <2> QED BY <2>1, <2>2, <2>3, <2>4 DEF TypeOK
<1>6. CASE CloseSend
  <2>0. Head(todo) \in Commands
    BY <1>6 DEF CloseSend, PcTypes
  <2>1. PcTypes'
    BY <1>6, <2>0 DEF CloseSend, PcTypes
  <2>2. GdbTypes'
    BY <1>6, <2>0 DEF CloseSend, GdbTypes
  <2>3. FlagTypes'
    BY <1>6 DEF CloseSend, FlagTypes
  <2>4. CountTypes'
    BY <1>6 DEF CloseSend, CountTypes
  <2> QED BY <2>1, <2>2, <2>3, <2>4 DEF TypeOK
<1>7. CASE CloseTake
  <2>1. PcTypes'
    BY <1>7 DEF CloseTake, PcTypes
  <2>2. GdbTypes'
    BY <1>7 DEF CloseTake, GdbTypes
  <2>3. FlagTypes'
    BY <1>7 DEF CloseTake, FlagTypes
  <2>4. CountTypes'
    BY <1>7 DEF CloseTake, CountTypes
  <2> QED BY <2>1, <2>2, <2>3, <2>4 DEF TypeOK
<1>8. CASE CloseGiveUp
  <2>1. PcTypes'
    BY <1>8 DEF CloseGiveUp, PcTypes
  <2>2. GdbTypes'
    BY <1>8 DEF CloseGiveUp, GdbTypes
  <2>3. FlagTypes'
    BY <1>8 DEF CloseGiveUp, FlagTypes
  <2>4. CountTypes'
    BY <1>8 DEF CloseGiveUp, CountTypes
  <2> QED BY <2>1, <2>2, <2>3, <2>4 DEF TypeOK
<1>9. CASE Kill
  <2>1. PcTypes'
    BY <1>9 DEF Kill, PcTypes
  <2>2. GdbTypes'
    BY <1>9 DEF Kill, GdbTypes
  <2>3. FlagTypes'
    BY <1>9 DEF Kill, FlagTypes
  <2>4. CountTypes'
    BY <1>9 DEF Kill, CountTypes
  <2> QED BY <2>1, <2>2, <2>3, <2>4 DEF TypeOK
<1>10. CASE Paced
  <2>1. PcTypes'
    BY <1>10, ScriptTypes DEF Paced, PcTypes
  <2>2. GdbTypes'
    BY <1>10 DEF Paced, GdbTypes
  <2>3. FlagTypes'
    BY <1>10 DEF Paced, FlagTypes
  <2>4. CountTypes'
    BY <1>10 DEF Paced, CountTypes
  <2> QED BY <2>1, <2>2, <2>3, <2>4 DEF TypeOK
<1>11. CASE CtrlC
  <2>1. PcTypes'
    BY <1>11, <1>h DEF CtrlC
  <2>2. GdbTypes'
    BY <1>11 DEF CtrlC, Raise, GdbTypes
  <2>3. FlagTypes'
    BY <1>11 DEF CtrlC, Raise, FlagTypes
  <2>4. CountTypes'
    BY <1>11 DEF CtrlC, Raise, CountTypes
  <2> QED BY <2>1, <2>2, <2>3, <2>4 DEF TypeOK
<1>g. ASSUME NEW r \in Replies, Answer(r) PROVE fromGdb' \in Seq(Replies)
  BY <1>g DEF Answer, GdbTypes
<1>e. ASSUME NEW ops, GdbAnswers(ops)
      PROVE  PcTypes' /\ Head(toGdb) \in Commands /\ toGdb' \in Seq(Commands)
  BY <1>e DEF GdbAnswers, GdbTypes, PcTypes
<1>12. CASE GdbPlain
  <2>0. fromGdb' \in Seq(Replies)
    <3> DEFINE c == Head(toGdb)
               what == CASE c.op = "read" -> IF attached THEN "value" ELSE "error"
                         [] c.op = "verify" -> "line"
                         [] OTHER -> "done"
               n == IF c.op = "verify" /\ c.n \in stale THEN c.n + 1 ELSE c.n
    <3>1. c \in Commands /\ c.n \in Nat
      BY <1>12, <1>d, <1>e DEF GdbPlain
    <3>2. n \in Nat /\ what \in {"value", "error", "line", "done"}
      BY <3>1
    <3>3. Reply(c, what, n) \in Replies
      BY <3>1, <3>2, <1>c
    <3>4. Answer(Reply(c, what, n))
      BY <1>12 DEF GdbPlain
    <3> QED BY <3>3, <3>4, <1>g
  <2>1. PcTypes' /\ GdbTypes'
    BY <1>12, <1>d, <1>e, <2>0 DEF GdbPlain, GdbAnswers, GdbTypes
  <2>2. FlagTypes' /\ CountTypes'
    BY <1>12 DEF GdbPlain, GdbAnswers, FlagTypes, CountTypes
  <2> QED BY <2>1, <2>2 DEF TypeOK
<1>13. CASE GdbTarget
  <2>0. fromGdb' \in Seq(Replies)
    BY <1>13, <1>c, <1>d, <1>e, <1>g DEF GdbTarget, GdbTypes
  <2>1. PcTypes' /\ GdbTypes'
    BY <1>13, <1>d, <1>e, <2>0 DEF GdbTarget, GdbAnswers, GdbTypes
  <2>2. FlagTypes' /\ CountTypes'
    BY <1>13 DEF GdbTarget, GdbAnswers, FlagTypes, CountTypes
  <2> QED BY <2>1, <2>2 DEF TypeOK
<1>14. CASE GdbBreak
  <2>0. fromGdb' \in Seq(Replies)
    BY <1>14, <1>c, <1>d, <1>e, <1>g DEF GdbBreak, GdbTypes
  <2>1. PcTypes' /\ GdbTypes'
    BY <1>14, <1>d, <1>e, <2>0 DEF GdbBreak, GdbAnswers, GdbTypes
  <2>2. FlagTypes' /\ CountTypes'
    BY <1>14 DEF GdbBreak, GdbAnswers, FlagTypes, CountTypes
  <2> QED BY <2>1, <2>2 DEF TypeOK
<1>15. CASE GdbContinue
  <2>0. fromGdb' \in Seq(Replies)
    BY <1>15, <1>c, <1>d, <1>e, <1>g DEF GdbContinue, GdbTypes
  <2>1. PcTypes' /\ GdbTypes'
    BY <1>15, <1>d, <1>e, <2>0 DEF GdbContinue, GdbAnswers, GdbTypes
  <2>2. FlagTypes'
    BY <1>15 DEF GdbContinue, GdbAnswers, FlagTypes
  <2>3. CountTypes'
    BY <1>15, BoundsAssumption DEF GdbContinue, CountTypes
  <2> QED BY <2>1, <2>2, <2>3 DEF TypeOK
<1>16. CASE GdbDelete
  <2>0. fromGdb' \in Seq(Replies)
    BY <1>16, <1>c, <1>d, <1>e, <1>g DEF GdbDelete, GdbTypes
  <2>1. PcTypes' /\ GdbTypes'
    BY <1>16, <1>d, <1>e, <2>0 DEF GdbDelete, GdbAnswers, GdbTypes
  <2>2. FlagTypes' /\ CountTypes'
    BY <1>16 DEF GdbDelete, GdbAnswers, FlagTypes, CountTypes
  <2> QED BY <2>1, <2>2 DEF TypeOK
<1>17. CASE GdbDetach
  <2>0. fromGdb' \in Seq(Replies)
    BY <1>17, <1>c, <1>d, <1>e, <1>g DEF GdbDetach, GdbTypes
  <2>1. PcTypes' /\ GdbTypes'
    BY <1>17, <1>d, <1>e, <2>0 DEF GdbDetach, GdbAnswers, GdbTypes
  <2>2. FlagTypes' /\ CountTypes'
    BY <1>17 DEF GdbDetach, GdbAnswers, FlagTypes, CountTypes
  <2> QED BY <2>1, <2>2 DEF TypeOK
<1>18. CASE GdbQuit
  <2>0. fromGdb' \in Seq(Replies)
    BY <1>18, <1>c, <1>d, <1>e, <1>g DEF GdbQuit, GdbTypes
  <2>1. PcTypes' /\ GdbTypes'
    BY <1>18, <1>d, <1>e, <2>0 DEF GdbQuit, GdbAnswers, GdbTypes
  <2>2. FlagTypes' /\ CountTypes'
    BY <1>18 DEF GdbQuit, GdbAnswers, FlagTypes, CountTypes
  <2> QED BY <2>1, <2>2 DEF TypeOK
<1>f. ASSUME NEW what \in {"hit", "signal", "exited"}, NEW n \in Nat, Stopped(what, n)
      PROVE  PcTypes' /\ GdbTypes'
  BY <1>b, <1>c, <1>f DEF Stopped, Answer, PcTypes, GdbTypes
<1>19. CASE GdbInterrupted
  <2>1. PcTypes' /\ GdbTypes'
    <3>1. CASE Stopped("signal", 0)
      BY <3>1, <1>f
    <3>2. CASE gdb = "idle"
      <4>1. toGdb' \in Seq(Commands)
        <5>1. toGdb' = IF toGdb = <<>> THEN <<>> ELSE Tail(toGdb)
          BY <1>19, <3>2 DEF GdbInterrupted, Stopped
        <5> QED BY <5>1, EmptySeq DEF GdbTypes
      <4>2. PICK c \in Commands : Answer(Reply(c, "quit", 0))
        BY <1>19, <3>2, <1>b DEF GdbInterrupted, Stopped, GdbTypes
      <4>3. fromGdb' \in Seq(Replies)
        BY <4>2, <1>c, <1>g
      <4> QED BY <1>19, <3>2, <4>1, <4>3 DEF GdbInterrupted, Stopped, PcTypes, GdbTypes
    <3> QED BY <1>19, <3>1, <3>2 DEF GdbInterrupted
  <2>2. FlagTypes' /\ CountTypes'
    BY <1>19 DEF GdbInterrupted, Stopped, FlagTypes, CountTypes
  <2> QED BY <2>1, <2>2 DEF TypeOK
<1>20. CASE BoardStops
  <2>1. PcTypes' /\ GdbTypes'
    BY <1>20, <1>f DEF BoardStops, GdbTypes, Lines
  <2>2. FlagTypes' /\ CountTypes'
    BY <1>20, BoundsAssumption DEF BoardStops, Stopped, FlagTypes, CountTypes
  <2> QED BY <2>1, <2>2 DEF TypeOK
<1>21. CASE LinkLost
  <2>1. PcTypes'
    BY <1>21 DEF LinkLost, PcTypes
  <2>2. fromGdb' \in Seq(Replies)
    BY <1>21, <1>b, <1>c, <1>g DEF LinkLost, GdbTypes
  <2>3. GdbTypes'
    BY <1>21, <2>2 DEF LinkLost, Answer, GdbTypes
  <2>4. FlagTypes' /\ CountTypes'
    BY <1>21 DEF LinkLost, FlagTypes, CountTypes
  <2> QED BY <2>1, <2>3, <2>4 DEF TypeOK
<1>22. CASE UNCHANGED vars
  BY <1>22 DEF vars, TypeOK, PcTypes, GdbTypes, FlagTypes, CountTypes
<1> QED
  BY <1>1, <1>2, <1>3, <1>4, <1>5, <1>6, <1>7, <1>8, <1>9, <1>10, <1>11, <1>12, <1>13, <1>14,
     <1>15, <1>16, <1>17, <1>18, <1>19, <1>20, <1>21, <1>22 DEF Next, Python, Gdb
-----------------------------------------------------------------------------
(* The order of commands and answers.                                      *)

LEMMA InitCore == Init => Core
BY DEF Init, Core, AnswersInStep, Working, Spawned, Quiet

\* A step of gdb or of the board: what Python sees of it is the answer of the
\* command under way.
LEMMA GdbKeeps ==
    ASSUME TypeOK, Core, pc \in Working \union {"spawn"}, UNCHANGED <<pyVars, echo, stale, intr>>,
           pc = "spawn" => Spawned', pc \in Working => InStep'
    PROVE  Core'
BY DEF Core, AnswersInStep, Working, Script, pyVars

LEMMA NextCore == IInv /\ [Next]_vars => Core'
<1> SUFFICES ASSUME TypeOK, Core, TypeOK', [Next]_vars PROVE Core'
  BY NextTypes DEF IInv
<1> USE DEF pyVars, gdbVars, bdVars
<1>a. PcTypes /\ GdbTypes /\ FlagTypes
  BY DEF TypeOK
<1>b. ASSUME NEW c \in Commands PROVE c # Nothing
  BY DEF Commands, Nothing, Cmd
<1>1. CASE DisableEcho
  <2>1. Spawned /\ AnswersInStep /\ stale' = stale /\ todo' = todo
    BY <1>1 DEF DisableEcho, Core, AnswersInStep
  <2>2. ~echo' /\ ~intr' /\ AnswersInStep' /\ pc' = "init" /\ awaiting' = Cmd("start", 0)
    BY <1>1, <2>1 DEF DisableEcho, EchoAfterSetup, AnswersInStep, Spawned
  <2>3. Cmd("start", 0) # Nothing /\ Cmd("start", 0).op = "start"
    BY DEF Cmd, Nothing
  <2>4. InStep'
    <3>1. CASE Quiet(<<Cmd("start", 0)>>, <<>>)
      BY <1>1, <2>1, <2>2, <2>3, <3>1 DEF DisableEcho, InStep, Quiet, Spawned
    <3>2. CASE \E r \in Replies : r.of = Cmd("start", 0) /\ Quiet(<<>>, <<r>>)
      <4>1. PICK r \in Replies : r.of = Cmd("start", 0) /\ Quiet(<<>>, <<r>>)
        BY <3>2
      <4>2. Honest(r)'
        BY <4>1, <2>3 DEF Honest
      <4> QED BY <1>1, <2>1, <2>2, <2>3, <4>1, <4>2 DEF DisableEcho, InStep, Quiet, Spawned
    <3> QED BY <2>1, <3>1, <3>2 DEF Spawned
  <2>5. Script'
    BY <2>2, <2>3 DEF Script
  <2> QED BY <2>2, <2>4, <2>5 DEF Core, Working
<1>2. CASE Send
  <2>1. pc \in Working /\ pc # "pace" /\ ~echo /\ ~intr /\ InStep /\ Script /\ AnswersInStep
    BY <1>2 DEF Send, Core, Working
  <2>2. Head(todo) \in Commands /\ Head(todo) # Nothing
    BY <1>2, <1>a, <1>b DEF Send, PcTypes
  <2>3. gdb = "idle" /\ toGdb = <<>> /\ fromGdb = <<>>
    BY <1>2, <2>1, <1>b DEF Send, InStep, Quiet, Nothing, Cmd
  <2>4. toGdb' = <<Head(todo)>> /\ fromGdb' = <<>>
    BY <1>2, <2>1, <2>3 DEF Send
  <2>5. InStep'
    BY <1>2, <2>2, <2>3, <2>4 DEF Send, InStep, Quiet
  <2>6. Script'
    BY <1>2, <2>1 DEF Send, Script
  <2> QED BY <1>2, <2>1, <2>5, <2>6 DEF Send, Core, Working, AnswersInStep
<1>3. CASE Take
  <2>1. pc \in Working /\ pc # "pace" /\ ~echo /\ ~intr /\ InStep /\ Script
    BY <1>3 DEF Take, Core, Working
  <2>2. PICK r \in Replies : /\ r.of = awaiting /\ Honest(r) /\ Quiet(<<>>, <<r>>)
                             /\ gdb = "idle"
    BY <1>3, <2>1 DEF Take, InStep, Quiet
  <2>3. Head(fromGdb) = r /\ fromGdb' = <<>> /\ toGdb' = <<>>
    BY <1>3, <2>2 DEF Take, Quiet
  <2>4. AnswersInStep' /\ ~echo' /\ ~intr' /\ awaiting' = Nothing /\ stale' = stale
    BY <1>3, <2>1, <2>2, <2>3 DEF Take, AnswersInStep
  <2>5. InStep'
    BY <1>3, <2>2, <2>3, <2>4 DEF Take, InStep, Quiet
  <2>6. CASE Refused(awaiting, r)
    BY <1>3, <2>3, <2>4, <2>6 DEF Take, Core, Working
  <2>7. CASE ~Refused(awaiting, r) /\ Rest # <<>>
    <3>1. pc' = pc /\ todo' = Rest
      BY <1>3, <2>3, <2>7 DEF Take
    <3>2. ASSUME pc = "connect", NEW l \in stale
          PROVE  \E i \in 1..Len(Rest) : Rest[i] = Cmd("verify", l)
      <4>1. PICK i \in 1..Len(todo) : todo[i] = Cmd("verify", l)
        BY <2>1, <3>2 DEF Script
      <4>2. CASE awaiting.op = "start"
        BY <4>1, <4>2 DEF Rest
      <4>3. CASE awaiting.op # "start"
        <5>1. todo # <<>> /\ awaiting = Head(todo) /\ Rest = Tail(todo)
          BY <1>3, <2>1, <4>3 DEF Take, Script, Rest
        <5>2. i # 1
          <6> SUFFICES ASSUME i = 1 PROVE FALSE
            OBVIOUS
          <6>1. awaiting = Cmd("verify", l)
            BY <4>1, <5>1, <1>a DEF PcTypes
          <6>2. Refused(awaiting, r)
            BY <2>2, <6>1 DEF Refused, Honest, Cmd
          <6> QED BY <2>7, <6>2
        <5>3. i - 1 \in 1..Len(Tail(todo)) /\ Tail(todo)[i - 1] = todo[i]
          BY <4>1, <5>1, <5>2, <1>a, HeadTailProperties DEF PcTypes
        <5> QED BY <4>1, <5>1, <5>3
      <4> QED BY <4>2, <4>3
    <3>3. Script'
      BY <2>1, <2>4, <3>1, <3>2 DEF Script
    <3> QED BY <2>1, <2>4, <2>5, <3>1, <3>3 DEF Core, Working
  <2>8. CASE ~Refused(awaiting, r) /\ Rest = <<>>
    <3>1. pc' = NextPiece(r).pc /\ todo' = NextPiece(r).todo
      BY <1>3, <2>3, <2>8 DEF Take
    <3>2. CASE pc = "init"
      <4>1. pc' = "connect" /\ todo' = ConnectScript \o ArmScript
        BY <3>1, <3>2 DEF NextPiece
      <4>2. Script'
        BY <4>1, <2>4, <1>a, ScriptTypes DEF Script, GdbTypes
      <4> QED BY <2>4, <2>5, <4>1, <4>2 DEF Core, Working
    <3>3. CASE pc = "connect"
      <4>1. pc' = "loop"
        BY <3>1, <3>3 DEF NextPiece
      <4>2. ASSUME NEW l \in stale PROVE FALSE
        <5>1. PICK i \in 1..Len(todo) : todo[i] = Cmd("verify", l)
          BY <2>1, <3>3 DEF Script
        <5>2. awaiting.op # "start"
          BY <2>8, <5>1 DEF Rest
        <5>3. todo # <<>> /\ awaiting = Head(todo) /\ Tail(todo) = <<>>
          BY <1>3, <2>1, <2>8, <5>2 DEF Take, Script, Rest
        <5>4. Len(todo) = 1
          <6>1. todo \in Seq(Commands) /\ Len(todo) \in Nat
            BY <1>a, LenProperties DEF PcTypes
          <6>2. Len(Tail(todo)) = Len(todo) - 1
            BY <5>3, <6>1, HeadTailProperties
          <6>3. Len(Tail(todo)) = 0
            BY <5>3, EmptySeq
          <6> QED BY <6>1, <6>2, <6>3
        <5>5. awaiting = Cmd("verify", l)
          BY <5>1, <5>3, <5>4, <1>a DEF PcTypes
        <5>6. Refused(awaiting, r)
          BY <2>2, <5>5 DEF Refused, Honest, Cmd
        <5> QED BY <2>8, <5>6
      <4>3. stale' = {}
        BY <4>2, <2>4
      <4>4. Script'
        BY <2>4, <4>1, <4>3 DEF Script
      <4> QED BY <2>4, <2>5, <4>1, <4>4 DEF Core, Working
    <3>4. CASE pc \in {"loop", "handler"}
      <4>1. pc' \in {"loop", "handler", "pace", "closing"}
        BY <3>1, <3>4 DEF NextPiece
      <4>2. Script'
        BY <2>1, <2>4, <3>4, <4>1 DEF Script
      <4> QED BY <2>4, <2>5, <4>1, <4>2 DEF Core, Working
    <3> QED BY <1>3, <3>2, <3>3, <3>4 DEF Take
  <2> QED BY <2>6, <2>7, <2>8
<1>c. ASSUME AnswersInStep, UNCHANGED last, pc' \notin Working \union {"spawn"} PROVE Core'
  BY <1>c DEF Core, AnswersInStep
<1>4. CASE TimeOut \/ CtrlC
  BY <1>4, <1>c DEF TimeOut, CtrlC, Raise, Working, Core
<1>5. CASE SendIntr \/ CloseSend \/ CloseTake \/ CloseGiveUp \/ Kill
  BY <1>5, <1>c DEF SendIntr, CloseSend, CloseTake, CloseGiveUp, Kill, Working, Core
<1>6. CASE Paced
  BY <1>6 DEF Paced, Core, Working, AnswersInStep, InStep, Quiet, Honest, Script, Nothing
<1>d. ASSUME NEW ops, GdbAnswers(ops), pc \in Working
      PROVE  /\ InStep /\ Quiet(<<awaiting>>, <<>>) /\ awaiting # Nothing
             /\ Head(toGdb) = awaiting /\ awaiting \in Commands /\ awaiting.op \in ops
             /\ toGdb' = <<>> /\ UNCHANGED <<pyVars, echo, stale, intr>>
  <2>1. InStep /\ toGdb # <<>> /\ gdb = "idle"
    BY <1>d DEF GdbAnswers, Core
  <2>2. Quiet(<<awaiting>>, <<>>) /\ awaiting # Nothing
    BY <2>1 DEF InStep, Quiet
  <2>3. toGdb = <<awaiting>> /\ awaiting \in Commands
    BY <1>a, <2>2 DEF Quiet, PcTypes
  <2>4. Head(toGdb) = awaiting /\ Tail(toGdb) = <<>>
    BY <2>3
  <2> QED BY <1>d, <2>1, <2>2, <2>3, <2>4 DEF GdbAnswers
<1>e. ASSUME NEW ops, GdbAnswers(ops), pc = "spawn"
      PROVE  /\ Spawned /\ Quiet(<<Cmd("start", 0)>>, <<>>)
             /\ Head(toGdb) = Cmd("start", 0) /\ "start" \in ops
             /\ toGdb' = <<>> /\ UNCHANGED <<pyVars, echo, stale, intr>>
  BY <1>e DEF GdbAnswers, Core, Spawned, Quiet, Cmd
<1>f. ASSUME NEW ops, GdbAnswers(ops), pc \in Working,
             NEW r \in Replies, Answer(r), r.of = Head(toGdb), Honest(r), gdb' = "idle"
      PROVE  InStep'
  <2>1. Quiet(<<awaiting>>, <<>>) /\ awaiting # Nothing /\ Head(toGdb) = awaiting
        /\ toGdb' = <<>> /\ UNCHANGED <<pyVars, echo, stale, intr>>
    BY <1>d, <1>f
  <2>2. fromGdb' = <<r>>
    BY <1>f, <2>1 DEF Answer, Quiet
  <2>3. Honest(r)'
    BY <1>f, <2>1 DEF Honest
  <2> QED BY <1>f, <2>1, <2>2, <2>3 DEF InStep, Quiet
<1>g. ASSUME NEW ops, GdbAnswers(ops), pc = "spawn",
             NEW r \in Replies, Answer(r), r.of = Head(toGdb), gdb' = "idle"
      PROVE  Spawned'
  <2>1. Spawned /\ Quiet(<<Cmd("start", 0)>>, <<>>) /\ Head(toGdb) = Cmd("start", 0)
        /\ toGdb' = <<>> /\ UNCHANGED <<pyVars, echo, stale, intr>>
    BY <1>e, <1>g
  <2>2. fromGdb' = <<r>>
    BY <1>g, <2>1 DEF Answer, Quiet
  <2> QED BY <1>g, <2>1, <2>2 DEF Spawned, Quiet
\* A command of gdb that is answered, or that makes it run or go.
<1>h. ASSUME NEW ops, GdbAnswers(ops),
             pc = "spawn" => Spawned', pc \in Working => InStep'
      PROVE  Core'
  <2>1. CASE pc \in Working
    BY <1>d, <1>h, <2>1, GdbKeeps
  <2>2. CASE pc = "spawn"
    BY <1>e, <1>h, <2>2, GdbKeeps
  <2>3. CASE pc \notin Working \union {"spawn"}
    BY <1>c, <1>h, <2>3 DEF GdbAnswers, Core
  <2> QED BY <2>1, <2>2, <2>3
<1>i. ASSUME NEW ops, GdbAnswers(ops), gdb' = "idle", NEW what, NEW n,
             LET r == Reply(Head(toGdb), what, n) IN
                r \in Replies /\ Answer(r) /\ Honest(r)
      PROVE  Core'
  <2>1. Reply(Head(toGdb), what, n).of = Head(toGdb)
    BY DEF Reply
  <2> QED BY <1>f, <1>g, <1>h, <1>i, <2>1
<1>j. ASSUME NEW c \in Commands, c.op # "verify", NEW what, NEW n PROVE Honest(Reply(c, what, n))
  BY <1>j DEF Honest, Reply
<1>k. ASSUME NEW ops, GdbAnswers(ops)
      PROVE  /\ Head(toGdb) \in Commands /\ Head(toGdb).n \in Nat /\ Head(toGdb).op \in ops
             /\ gdb = "idle"
  <2>1. Head(toGdb) \in Commands /\ Head(toGdb).op \in ops /\ gdb = "idle"
    BY <1>a, <1>k DEF GdbAnswers, GdbTypes
  <2> QED BY <2>1 DEF Commands, Lines
<1>l. ASSUME NEW c \in Commands,
              NEW what \in {"done", "value", "error", "line", "remote", "breakpoint", "norun",
                            "hit", "signal", "exited", "quit", "closed"},
              NEW n \in Nat
      PROVE  Reply(c, what, n) \in Replies
  BY DEF Reply, Replies
<1>7. CASE GdbPlain
  <2> DEFINE c == Head(toGdb)
             what == CASE c.op = "read" -> IF attached THEN "value" ELSE "error"
                       [] c.op = "verify" -> "line"
                       [] OTHER -> "done"
             n == IF c.op = "verify" /\ c.n \in stale THEN c.n + 1 ELSE c.n
             ops == {"start", "prompt", "options", "read", "verify"}
  <2>1. GdbAnswers(ops) /\ gdb' = "idle" /\ Answer(Reply(c, what, n))
    BY <1>7, <1>k DEF GdbPlain
  <2>2. c \in Commands /\ c.n \in Nat
    BY <2>1, <1>k
  <2>3. n \in Nat /\ what \in {"value", "error", "line", "done"}
    BY <2>2
  <2>4. Reply(c, what, n) \in Replies
    BY <2>2, <2>3, <1>l
  <2>5. Honest(Reply(c, what, n))
    BY <2>2, <2>3 DEF Honest, Reply
  <2> HIDE DEF ops, what, n
  <2> QED BY <2>1, <2>4, <2>5, <1>i
<1>8. CASE GdbTarget
  <2>1. PICK what \in {"remote", "error"} : Answer(Reply(Head(toGdb), what, 0))
    BY <1>8 DEF GdbTarget
  <2>2. GdbAnswers({"target"}) /\ gdb' = "idle" /\ Head(toGdb) \in Commands
        /\ Head(toGdb).op = "target"
    BY <1>8, <1>k DEF GdbTarget
  <2> QED BY <2>1, <2>2, <1>i, <1>j, <1>l
<1>9. CASE GdbBreak
  <2>1. GdbAnswers({"break"}) /\ gdb' = "idle" /\ Head(toGdb) \in Commands
        /\ Head(toGdb).op = "break" /\ Head(toGdb).n \in Nat
        /\ Answer(Reply(Head(toGdb), "breakpoint", Head(toGdb).n))
    BY <1>9, <1>k DEF GdbBreak
  <2> QED BY <2>1, <1>i, <1>j, <1>l
<1>10. CASE GdbContinue
  <2>1. GdbAnswers({"continue"}) /\ Head(toGdb) \in Commands /\ Head(toGdb).op = "continue"
    BY <1>10, <1>k DEF GdbContinue
  <2>2. CASE attached
    <3>1. gdb' = "inferior" /\ UNCHANGED fromGdb
      BY <1>10, <2>2 DEF GdbContinue
    <3>2. pc # "spawn"
      BY <1>e, <2>1
    <3>3. ASSUME pc \in Working PROVE InStep'
      <4>1. awaiting = Cmd("continue", 0)
        BY <2>1, <3>3, <1>d DEF Commands, Cmd
      <4> QED BY <2>1, <3>1, <3>3, <4>1, <1>d DEF InStep, Quiet
    <3> QED BY <2>1, <3>2, <3>3, <1>h
  <2>3. CASE ~attached
    <3>1. gdb' = "idle" /\ Answer(Reply(Head(toGdb), "norun", 0))
      BY <1>10, <2>1, <2>3, <1>k DEF GdbContinue
    <3> QED BY <2>1, <3>1, <1>i, <1>j, <1>l
  <2> QED BY <2>2, <2>3
<1>11. CASE GdbDelete
  <2>1. GdbAnswers({"delete"}) /\ gdb' = "idle" /\ Head(toGdb) \in Commands
        /\ Head(toGdb).op = "delete" /\ Answer(Reply(Head(toGdb), "done", 0))
    BY <1>11, <1>k DEF GdbDelete
  <2> QED BY <2>1, <1>i, <1>j, <1>l
<1>12. CASE GdbDetach
  <2>1. GdbAnswers({"detach"}) /\ gdb' = "idle" /\ Head(toGdb) \in Commands
        /\ Head(toGdb).op = "detach" /\ Answer(Reply(Head(toGdb), "done", 0))
    BY <1>12, <1>k DEF GdbDetach
  <2> QED BY <2>1, <1>i, <1>j, <1>l
<1>13. CASE GdbQuit
  <2>1. GdbAnswers({"quit"}) /\ gdb' = "gone" /\ UNCHANGED fromGdb
    BY <1>13 DEF GdbQuit
  <2>2. pc # "spawn"
    BY <1>e, <2>1
  <2>3. ASSUME pc \in Working PROVE InStep'
    BY <2>1, <2>3, <1>d DEF InStep, Quiet
  <2> QED BY <2>1, <2>2, <2>3, <1>h
\* The running program stops, whatever the reason.
<1>m. ASSUME pc \in Working \union {"spawn"}, gdb = "inferior", gdb' = "idle",
             UNCHANGED <<pyVars, echo, stale, intr, toGdb>>,
             NEW what \in {"hit", "signal", "exited", "closed"}, NEW n \in Nat,
             Answer(Reply(Cmd("continue", 0), what, n))
      PROVE  Core'
  <2> DEFINE r == Reply(Cmd("continue", 0), what, n)
  <2>1. pc \in Working
    BY <1>m DEF Core, Spawned
  <2>2. awaiting = Cmd("continue", 0) /\ Quiet(<<>>, <<>>)
    BY <1>m, <2>1 DEF Core, InStep
  <2>3. Cmd("continue", 0) \in Commands /\ Cmd("continue", 0).op # "verify"
    BY DEF Commands, Cmd
  <2>4. r \in Replies /\ r.of = awaiting
    BY <2>2, <2>3, <1>l DEF Reply
  <2>5. Honest(r)'
    BY <2>3 DEF Honest, Reply
  <2>6. awaiting # Nothing
    BY <2>2, <2>3, <1>b
  <2> HIDE DEF r
  <2>7. InStep'
    BY <1>m, <2>2, <2>4, <2>5, <2>6 DEF InStep, Quiet, Answer, r
  <2> QED BY <1>m, <2>1, <2>7, GdbKeeps DEF Working
<1>14. CASE GdbInterrupted
  <2>1. pc \notin Working \union {"spawn"}
    BY <1>14 DEF GdbInterrupted, Core, Spawned
  <2> QED BY <1>14, <2>1, <1>c DEF GdbInterrupted, Stopped, Core
<1>15. CASE BoardStops
  <2>1. PICK what \in {"hit", "signal", "exited"}, n \in Nat : Stopped(what, n)
    BY <1>15, <1>a DEF BoardStops, GdbTypes, Lines
  <2>2. CASE pc \in Working \union {"spawn"}
    BY <1>15, <2>1, <2>2, <1>m DEF BoardStops, Stopped
  <2>3. CASE pc \notin Working \union {"spawn"}
    BY <2>1, <2>3, <1>c DEF Stopped, Core
  <2> QED BY <2>2, <2>3
<1>16. CASE LinkLost
  <2>1. CASE pc \notin Working \union {"spawn"}
    BY <1>16, <2>1, <1>c DEF LinkLost, Core
  <2>2. CASE pc \in Working \union {"spawn"} /\ gdb = "inferior"
    BY <1>16, <2>2, <1>m DEF LinkLost
  <2>3. CASE pc \in Working \union {"spawn"} /\ gdb # "inferior"
    <3>1. UNCHANGED <<pyVars, echo, stale, intr, toGdb, fromGdb, gdb>>
      BY <1>16, <2>3 DEF LinkLost
    <3> QED BY <2>3, <3>1, GdbKeeps DEF Core, Spawned, InStep, Quiet, Honest
  <2> QED BY <2>1, <2>2, <2>3
<1>17. CASE UNCHANGED vars
  BY <1>17 DEF vars, Core, AnswersInStep, Spawned, InStep, Quiet, Honest, Script
<1> QED
  BY <1>1, <1>2, <1>3, <1>4, <1>5, <1>6, <1>7, <1>8, <1>9, <1>10, <1>11, <1>12, <1>13, <1>14,
     <1>15, <1>16, <1>17 DEF Next, Python, Gdb

-----------------------------------------------------------------------------
(* The theorems.                                                           *)

LEMMA Inductive == Spec => []IInv
<1>1. Init => IInv
  BY InitTypes, InitCore DEF IInv
<1>2. IInv /\ [Next]_vars => IInv'
  BY NextTypes, NextCore DEF IInv
<1> QED BY <1>1, <1>2, PTL DEF Spec

\* Python never takes one command's answer for another's, for any table of
\* breakpoints, while gdb may be late, silent or interrupted and the link lost
\* (GdbSession.cmd, continue_and_wait).
THEOREM EveryAnswerInStep == Spec => []AnswersInStep
<1>1. IInv => AnswersInStep
  BY DEF IInv, Core
<1> QED BY <1>1, Inductive, PTL

\* No handler runs, and no board is let go on, under an ELF of which any
\* checked line is not the line of the source (set_checked_breakpoint_by_line).
THEOREM NothingTracedOnStaleElf == Spec => []NothingOnStaleElf
<1>1. IInv => NothingOnStaleElf
  BY DEF IInv, Core, Working, Script, NothingOnStaleElf
<1> QED BY <1>1, Inductive, PTL

-----------------------------------------------------------------------------
(* What the board is left with.  While the tool works, its one command     *)
(* under way is no command of close(): so when close() begins, at most one *)
(* prompt is under way that is not its own.  It waits for a prompt four    *)
(* times, and it has sent its last command by the fourth: to be deceived   *)
(* by old prompts throughout it would need one more than there is          *)
(* (Closing).  In the constructor, which no finally clause covers, gdb has *)
(* not yet been attached (Early).                                          *)

CloseOps == {"delete", "detach", "quit"}
SetupOps == {"start", "prompt", "options"}
OpsIn(s, ops) == \A i \in 1..Len(s) : s[i].op \in ops
OpsNotIn(s, ops) == \A i \in 1..Len(s) : s[i].op \notin ops

Bit(b) == IF b THEN 1 ELSE 0

\* A board no comparator is left in, once the program does not run under gdb.
BoardFacts ==
    /\ gdb # "inferior" => inserted = {}
    /\ ~attached => board = "running"
    /\ attached => link
    /\ gdb = "inferior" => board = "running" /\ attached

Early == ~attached /\ gdb = "idle" /\ OpsIn(toGdb, SetupOps)

Plain == gdb # "gone" /\ OpsNotIn(todo, CloseOps) /\ awaiting.op \notin CloseOps

\* The commands gdb has still to act on; the prompts taken, printed and due.
Left == toGdb \o todo
Waited == 4 - Len(todo) - Bit(awaiting # Nothing)
Prompts == Waited + Len(fromGdb) + Bit(intr) + Bit(gdb = "inferior")

Closing ==
    \/ gdb # "gone" /\ Left = CloseScript /\ Prompts <= 2
    \/ /\ gdb # "gone" /\ toGdb # <<>> /\ Head(toGdb).op \notin CloseOps
       /\ Left = <<Head(toGdb)>> \o CloseScript /\ Prompts <= 1
    \/ gdb = "idle" /\ ~intr /\ Left = Tail(CloseScript) /\ Prompts <= 3
    \/ gdb = "idle" /\ ~intr /\ ~attached /\ Left = <<Cmd("quit", 0)>>
    \/ gdb = "gone" /\ ~intr /\ ~attached /\ Left = <<>>

Release ==
    /\ pc # "ended" => BoardFacts
    /\ pc \in {"spawn", "init"} => Early /\ OpsIn(todo, SetupOps)
    /\ pc = "killing" => cutShort \/ Early
    /\ pc \in Working \union {"spawn"} => Plain
    /\ pc = "closing" => todo = CloseScript /\ awaiting = Nothing /\ ~intr
    /\ pc \in {"closing", "intr", "closed"} => cutShort \/ Closing
    /\ pc = "ended" => cutShort \/ (board = "running" /\ inserted = {} /\ gdb = "gone")

-----------------------------------------------------------------------------
LEMMA ScriptOps ==
    /\ OpsIn(SetupScript, SetupOps) /\ OpsNotIn(SetupScript, CloseOps)
    /\ OpsNotIn(ConnectScript \o ArmScript, CloseOps)
    /\ OpsNotIn(HandlerScript, CloseOps)
    /\ OpsNotIn(<<Cmd("continue", 0)>>, CloseOps)
<1> USE BoundsAssumption DEF OpsIn, OpsNotIn, CloseOps, SetupOps, Cmd
<1>1. OpsIn(SetupScript, SetupOps) /\ OpsNotIn(SetupScript, CloseOps)
  BY DEF SetupScript
<1>2. OpsNotIn(HandlerScript, CloseOps) /\ OpsNotIn(<<Cmd("continue", 0)>>, CloseOps)
  BY DEF HandlerScript
<1>3. ASSUME NEW i \in 1..Len(ConnectScript \o ArmScript)
      PROVE  (ConnectScript \o ArmScript)[i].op \notin CloseOps
  <2>1. ConnectScript \in Seq(Commands) /\ Len(ConnectScript) = 2
    BY DEF ConnectScript, Commands
  <2>2. ArmScript \in Seq(Commands) /\ Len(ArmScript) = 2 * NLines
    BY ArmScriptLines
  <2>3. CASE i <= 2
    BY <2>1, <2>2, <2>3 DEF ConnectScript
  <2>4. CASE i > 2
    <3>0. i \in 1..(2 + 2 * NLines)
      BY SMTT(30), <2>1, <2>2, ConcatProperties
    <3>1. i - 2 \in 1..(2 * NLines)
      BY <2>4, <3>0
    <3>4. \A k \in 1..(Len(ConnectScript) + Len(ArmScript)) :
            (ConnectScript \o ArmScript)[k] =
                IF k <= Len(ConnectScript) THEN ConnectScript[k]
                                           ELSE ArmScript[k - Len(ConnectScript)]
      BY <2>1, <2>2, ConcatProperties, Zenon
    <3>3. (ConnectScript \o ArmScript)[i] = ArmScript[i - 2]
      BY <2>1, <2>2, <2>4, <3>0, <3>4
    <3>2. \A j \in 1..(2 * NLines) : ArmScript[j].op \in {"break", "verify"}
      BY DEF ArmScript
    <3> QED BY <3>1, <3>2, <3>3
  <2> QED BY <2>3, <2>4, <2>1, <2>2
<1> QED BY <1>1, <1>2, <1>3

LEMMA TailOps ==
    ASSUME NEW s \in Seq(Commands), s # <<>>, NEW ops
    PROVE  /\ Head(s) \in Commands /\ Tail(s) \in Seq(Commands)
           /\ OpsIn(s, ops) => Head(s).op \in ops /\ OpsIn(Tail(s), ops)
           /\ OpsNotIn(s, ops) => Head(s).op \notin ops /\ OpsNotIn(Tail(s), ops)
BY HeadTailProperties DEF OpsIn, OpsNotIn

LEMMA LeftKept ==
    ASSUME NEW s \in Seq(Commands), NEW t \in Seq(Commands), t # <<>>
    PROVE  Append(s, Head(t)) \o Tail(t) = s \o t
<1>1. Append(s, Head(t)) \in Seq(Commands) /\ Tail(t) \in Seq(Commands)
  BY HeadTailProperties, AppendProperties
<1>2. Append(s, Head(t)) \o Tail(t) \in Seq(Commands) /\ s \o t \in Seq(Commands)
  BY <1>1
<1>3. Len(Append(s, Head(t)) \o Tail(t)) = Len(s \o t)
  BY <1>1, HeadTailProperties
<1>4. ASSUME NEW i \in 1..Len(s \o t) PROVE (Append(s, Head(t)) \o Tail(t))[i] = (s \o t)[i]
  BY <1>1, HeadTailProperties
<1> QED BY <1>2, <1>3, <1>4, SeqEqual

LEMMA LeftTail ==
    ASSUME NEW s \in Seq(Commands), NEW t \in Seq(Commands), s # <<>>
    PROVE  Tail(s) \o t = Tail(s \o t) /\ Head(s) = Head(s \o t) /\ s \o t # <<>>
<1>1. Tail(s) \in Seq(Commands) /\ s \o t \in Seq(Commands) /\ s \o t # <<>>
  BY HeadTailProperties
<1>2. Tail(s) \o t \in Seq(Commands) /\ Tail(s \o t) \in Seq(Commands)
  BY <1>1
<1>3. Len(Tail(s) \o t) = Len(Tail(s \o t))
  BY <1>1, HeadTailProperties
<1>4. ASSUME NEW i \in 1..Len(Tail(s) \o t) PROVE (Tail(s) \o t)[i] = Tail(s \o t)[i]
  BY <1>1, HeadTailProperties
<1> QED BY <1>1, <1>2, <1>3, <1>4, SeqEqual

LEMMA NextBoardFacts ==
    ASSUME TypeOK, [Next]_vars, pc # "ended", BoardFacts
    PROVE  pc' # "ended" => BoardFacts'
<1> USE DEF BoardFacts, pyVars, gdbVars, bdVars
<1>1. CASE Python \/ Paced \/ CtrlC
  BY <1>1 DEF Python, DisableEcho, Send, Take, TimeOut, SendIntr, CloseSend, CloseTake,
     CloseGiveUp, Kill, Paced, CtrlC, Raise
<1>2. CASE GdbPlain \/ GdbTarget \/ GdbBreak \/ GdbDelete \/ GdbDetach \/ GdbQuit \/ GdbContinue
  BY <1>2 DEF GdbAnswers, GdbPlain, GdbTarget, GdbBreak, GdbDelete, GdbDetach, GdbQuit,
     GdbContinue
<1>3. CASE GdbInterrupted \/ BoardStops \/ LinkLost
  BY <1>3 DEF GdbInterrupted, BoardStops, LinkLost, Stopped, TypeOK, FlagTypes
<1>4. CASE UNCHANGED vars
  BY <1>4 DEF vars
<1> QED BY <1>1, <1>2, <1>3, <1>4 DEF Next, Python, Gdb

LEMMA GdbKeepsEarly ==
    ASSUME TypeOK, Early, Gdb \/ BoardStops \/ LinkLost
    PROVE  Early'
<1>1. toGdb # <<>> => Head(toGdb).op \in SetupOps /\ OpsIn(Tail(toGdb), SetupOps)
  BY TailOps DEF Early, TypeOK, GdbTypes
<1>2. CASE GdbPlain
  BY <1>1, <1>2 DEF Early, GdbPlain, GdbAnswers
<1>3. CASE GdbTarget \/ GdbBreak \/ GdbContinue \/ GdbDelete \/ GdbDetach \/ GdbQuit
  BY <1>1, <1>3 DEF GdbTarget, GdbBreak, GdbContinue, GdbDelete, GdbDetach, GdbQuit, GdbAnswers,
     SetupOps
<1>4. CASE GdbInterrupted
  <2>1. ~attached' /\ gdb' = "idle" /\ toGdb' = IF toGdb = <<>> THEN <<>> ELSE Tail(toGdb)
    BY <1>4 DEF Early, GdbInterrupted, Stopped
  <2>2. OpsIn(toGdb', SetupOps)
    BY <1>1, <2>1 DEF OpsIn
  <2> QED BY <2>1, <2>2 DEF Early
<1>5. CASE BoardStops \/ LinkLost
  BY <1>5 DEF Early, BoardStops, LinkLost, Stopped
<1> QED BY <1>2, <1>3, <1>4, <1>5, Zenon DEF Gdb

LEMMA NextEarly ==
    ASSUME TypeOK, [Next]_vars, Release
    PROVE  /\ pc' \in {"spawn", "init"} => Early' /\ OpsIn(todo', SetupOps)
           /\ pc' = "killing" => cutShort' \/ Early'
<1> USE DEF pyVars, gdbVars, bdVars
<1>1. CASE DisableEcho
  BY <1>1 DEF DisableEcho, Release, Early
<1>2. CASE Send
  <2>1. CASE pc = "init"
    <3>1. Early /\ OpsIn(todo, SetupOps) /\ todo \in Seq(Commands) /\ toGdb \in Seq(Commands)
      BY <2>1 DEF Release, TypeOK, PcTypes, GdbTypes
    <3>2. Head(todo).op \in SetupOps /\ Head(todo) \in Commands
      BY <1>2, <3>1, TailOps DEF Send
    <3>3. OpsIn(Append(toGdb, Head(todo)), SetupOps)
      BY <3>1, <3>2, AppendProperties DEF OpsIn, Early
    <3> QED BY <1>2, <2>1, <3>1, <3>3 DEF Send, Early
  <2> QED BY <1>2, <2>1 DEF Send
<1>3. CASE Take
  <2>1. CASE pc = "init" /\ pc' = "init"
    <3>1. Early /\ OpsIn(todo, SetupOps) /\ todo \in Seq(Commands)
      BY <2>1 DEF Release, TypeOK, PcTypes
    <3>2. todo' = Rest /\ Rest # <<>>
      BY <1>3, <2>1 DEF Take, NextPiece
    <3>3. OpsIn(todo', SetupOps)
      <4>1. CASE awaiting.op = "start"
        BY <3>1, <3>2, <4>1 DEF Rest
      <4>2. CASE awaiting.op # "start" /\ todo # <<>>
        BY <3>1, <3>2, <4>2, TailOps DEF Rest
      <4>3. CASE awaiting.op # "start" /\ todo = <<>>
        <5>1. Len(Tail(todo)) = 0
          BY <4>3
        <5> QED BY <3>2, <4>3, <5>1 DEF Rest, OpsIn
      <4> QED BY <4>1, <4>2, <4>3
    <3> QED BY <1>3, <2>1, <3>1, <3>3 DEF Take, Early
  <2>2. CASE pc' \notin {"spawn", "init", "killing"}
    BY <2>2
  <2>3. pc' \in {"connect", "loop", "handler", "pace", "closing"} \/ pc' = pc
    BY <1>3 DEF Take, NextPiece
  <2> QED BY <1>3, <2>1, <2>2, <2>3 DEF Take
<1>4. CASE TimeOut
  BY <1>4 DEF TimeOut, Raise, Unsettled, Release, Early
<1>8. CASE CtrlC
  <2>1. CASE pc' = "killing"
    <3>1. pc \in {"spawn", "init"} \/ cutShort'
      BY <1>8, <2>1 DEF CtrlC, Raise, Unsettled, TypeOK, FlagTypes
    <3> QED BY <1>8, <2>1, <3>1 DEF CtrlC, Raise, Release, Early
  <2> QED BY <1>8, <2>1 DEF CtrlC, Raise
<1>5. CASE SendIntr \/ CloseSend \/ CloseTake \/ CloseGiveUp \/ Kill \/ Paced
  BY <1>5 DEF SendIntr, CloseSend, CloseTake, CloseGiveUp, Kill, Paced
<1>6. CASE Gdb \/ BoardStops \/ LinkLost
  <2>1. UNCHANGED <<pc, todo, cutShort>>
    BY <1>6 DEF Gdb, GdbPlain, GdbTarget, GdbBreak, GdbContinue, GdbDelete, GdbDetach, GdbQuit,
       GdbAnswers, GdbInterrupted, BoardStops, LinkLost, Stopped
  <2> QED BY <1>6, <2>1, GdbKeepsEarly DEF Release
<1>7. CASE UNCHANGED vars
  BY <1>7 DEF vars, Release, Early
<1> QED BY <1>1, <1>2, <1>3, <1>4, <1>5, <1>6, <1>7, <1>8 DEF Next, Python

LEMMA NextPlain ==
    ASSUME TypeOK, Core, [Next]_vars, Release
    PROVE  pc' \in Working \union {"spawn"} => Plain'
<1> USE DEF pyVars, gdbVars, bdVars
<1>a. todo \in Seq(Commands) /\ toGdb \in Seq(Commands) /\ (pc \in Working \union {"spawn"} => Plain)
  BY DEF TypeOK, PcTypes, GdbTypes, Release
<1>1. CASE DisableEcho
  BY <1>1, <1>a DEF DisableEcho, Plain, Cmd, CloseOps
<1>2. CASE Send
  BY <1>2, <1>a, TailOps DEF Send, Plain, Working
<1>3. CASE Take
  <2>1. Plain /\ pc \in Working
    BY <1>3, <1>a DEF Take, Working
  <2>2. gdb' # "gone" /\ awaiting'.op \notin CloseOps
    BY <1>3, <2>1 DEF Take, Plain, Nothing, Cmd, CloseOps
  <2>3. CASE todo' = Rest
    <3>1. awaiting.op # "start" => todo # <<>>
      BY <1>3, <2>1 DEF Take, Core, Script
    <3>2. OpsNotIn(todo', CloseOps)
      BY <2>1, <2>3, <3>1, <1>a, TailOps DEF Rest, Plain
    <3> QED BY <2>2, <3>2 DEF Plain
  <2>4. CASE pc' # "closing" /\ \E r : pc' = NextPiece(r).pc /\ todo' = NextPiece(r).todo
    <3>1. PICK r : pc' = NextPiece(r).pc /\ todo' = NextPiece(r).todo
      BY <2>4
    <3>2. OpsNotIn(<<>>, CloseOps)
      BY DEF OpsNotIn
    <3>3. OpsNotIn(todo', CloseOps)
      BY <1>3, <2>4, <3>1, <3>2, ScriptOps DEF Take, NextPiece
    <3> QED BY <2>2, <3>3 DEF Plain
  <2> QED BY <1>3, <2>3, <2>4 DEF Take, Working
<1>4. CASE TimeOut \/ CtrlC
  BY <1>4 DEF TimeOut, CtrlC, Raise, Working
<1>5. CASE SendIntr \/ CloseSend \/ CloseTake \/ CloseGiveUp \/ Kill
  BY <1>5 DEF SendIntr, CloseSend, CloseTake, CloseGiveUp, Kill, Working
<1>6. CASE Paced
  BY <1>6, <1>a, ScriptOps DEF Paced, Plain, Working
<1>7. CASE GdbQuit
  <2>1. UNCHANGED pc /\ toGdb # <<>> /\ Head(toGdb).op = "quit"
    BY <1>7 DEF GdbQuit, GdbAnswers
  <2>2. CASE pc \in Working
    <3>1. toGdb = <<awaiting>>
      BY <2>1, <2>2 DEF Core, InStep, Quiet
    <3>2. awaiting.op = "quit"
      BY <2>1, <3>1
    <3> QED BY <2>2, <3>2, <1>a DEF Plain, CloseOps
  <2>3. CASE pc = "spawn"
    BY <2>1, <2>3 DEF Core, Spawned, Quiet, Cmd
  <2> QED BY <2>1, <2>2, <2>3
<1>8. CASE GdbPlain \/ GdbTarget \/ GdbBreak \/ GdbContinue \/ GdbDelete \/ GdbDetach
  BY <1>8, <1>a DEF GdbPlain, GdbTarget, GdbBreak, GdbContinue, GdbDelete, GdbDetach, GdbAnswers,
     Plain
<1>9. CASE GdbInterrupted \/ BoardStops \/ LinkLost
  BY <1>9, <1>a DEF GdbInterrupted, BoardStops, LinkLost, Stopped, Plain
<1>10. CASE UNCHANGED vars
  BY <1>10, <1>a DEF vars, Plain
<1> QED BY <1>1, <1>2, <1>3, <1>4, <1>5, <1>6, <1>7, <1>8, <1>9, <1>10 DEF Next, Python, Gdb

\* close() begins: at most one prompt is under way.
LEMMA BeginClosing ==
    ASSUME TypeOK, TypeOK', todo' = CloseScript, awaiting' = Nothing, ~intr', gdb' # "gone",
           \/ toGdb' = <<>> /\ Len(fromGdb') + Bit(gdb' = "inferior") <= 1
           \/ /\ toGdb' # <<>> /\ toGdb' = <<Head(toGdb')>> /\ Head(toGdb').op \notin CloseOps
              /\ fromGdb' = <<>> /\ gdb' = "idle"
    PROVE  Closing'
<1>1. Len(todo') = 3
  BY DEF CloseScript
<1>2. CloseScript \in Seq(Commands)
  BY ScriptTypes
<1>3. CASE toGdb' = <<>> /\ Len(fromGdb') + Bit(gdb' = "inferior") <= 1
  <2>1. Left' = CloseScript
    BY <1>2, <1>3, ConcatEmptySeq DEF Left
  <2>2. Prompts' <= 2
    BY <1>1, <1>3 DEF Prompts, Waited, Bit, TypeOK, GdbTypes
  <2> QED BY <2>1, <2>2 DEF Closing
<1>4. CASE /\ toGdb' # <<>> /\ toGdb' = <<Head(toGdb')>> /\ Head(toGdb').op \notin CloseOps
           /\ fromGdb' = <<>> /\ gdb' = "idle"
  <2>1. Left' = <<Head(toGdb')>> \o CloseScript
    BY <1>4 DEF Left
  <2>2. Prompts' <= 1
    BY <1>1, <1>4 DEF Prompts, Waited, Bit
  <2> QED BY <1>4, <2>1, <2>2 DEF Closing
<1> QED BY <1>3, <1>4

\* What the one command under way is, when the tool is still at work.
LEMMA UnderWay ==
    ASSUME TypeOK, Core, Plain, pc \in Working
    PROVE  /\ ~intr /\ gdb # "gone"
           /\ \/ toGdb = <<>> /\ Len(fromGdb) + Bit(gdb = "inferior") <= 1
              \/ /\ toGdb # <<>> /\ toGdb = <<Head(toGdb)>> /\ Head(toGdb).op \notin CloseOps
                 /\ fromGdb = <<>> /\ gdb = "idle"
<1>1. ~intr /\ gdb # "gone" /\ InStep /\ awaiting.op \notin CloseOps
  BY DEF Core, Plain
<1>2. CASE Quiet(<<>>, <<>>)
  BY <1>1, <1>2 DEF Quiet, Bit
<1>3. CASE gdb = "idle" /\ Quiet(<<awaiting>>, <<>>)
  BY <1>1, <1>3 DEF Quiet
<1>4. CASE gdb = "idle" /\ \E r \in Replies : Quiet(<<>>, <<r>>)
  <2>1. toGdb = <<>> /\ Len(fromGdb) = 1
    BY <1>4 DEF Quiet
  <2> QED BY <1>1, <1>4, <2>1 DEF Bit
<1> QED BY <1>1, <1>2, <1>3, <1>4 DEF InStep

\* The disjuncts of Closing by the command gdb acts on next.
LEMMA ClosingHead ==
    ASSUME TypeOK, Closing, toGdb # <<>>
    PROVE  LET c == Head(toGdb) IN
           /\ c \in Commands /\ gdb # "gone"
           /\ Tail(toGdb) \in Seq(Commands) /\ Tail(toGdb) \o todo = Tail(Left)
           /\ \/ c.op = "delete" /\ Left = CloseScript /\ Prompts <= 2
              \/ c.op \notin CloseOps /\ Tail(Left) = CloseScript /\ Prompts <= 1
              \/ /\ c.op = "detach" /\ Left = Tail(CloseScript) /\ Prompts <= 3
                 /\ gdb = "idle" /\ ~intr
              \/ /\ c.op = "quit" /\ Tail(Left) = <<>> /\ gdb = "idle" /\ ~intr /\ ~attached
<1> DEFINE c == Head(toGdb)
<1>1. toGdb \in Seq(Commands) /\ todo \in Seq(Commands) /\ c \in Commands
  BY TailOps DEF TypeOK, PcTypes, GdbTypes
<1>2. Tail(toGdb) \o todo = Tail(Left) /\ c = Head(Left) /\ Left # <<>>
  BY <1>1, LeftTail DEF Left
<1>3. Tail(toGdb) \in Seq(Commands)
  BY <1>1, TailOps
<1>4. CASE Left = CloseScript
  <2>1. c.op = "delete"
    BY <1>2, <1>4 DEF CloseScript, Cmd
  <2>2. Tail(CloseScript) # CloseScript /\ CloseScript # <<>> /\ CloseScript # <<Cmd("quit", 0)>>
    BY DEF CloseScript, Cmd
  <2> QED BY <1>1, <1>2, <1>3, <1>4, <2>1, <2>2 DEF Closing, CloseOps
<1>5. CASE Left = <<c>> \o CloseScript /\ c.op \notin CloseOps /\ Prompts <= 1 /\ gdb # "gone"
  <2>1. CloseScript \in Seq(Commands)
    BY ScriptTypes
  <2>2. Tail(<<c>> \o CloseScript) = Tail(<<c>>) \o CloseScript
    BY <1>1, <2>1, LeftTail
  <2>3. Tail(<<c>> \o CloseScript) = CloseScript
    BY <2>1, <2>2, ConcatEmptySeq
  <2> QED BY <1>1, <1>2, <1>3, <1>5, <2>3
<1>6. CASE /\ Left = Tail(CloseScript) /\ gdb = "idle" /\ ~intr /\ Prompts <= 3
  <2>1. c.op = "detach"
    BY <1>2, <1>6 DEF CloseScript, Cmd
  <2> QED BY <1>1, <1>2, <1>3, <1>6, <2>1
<1>7. CASE /\ Left = <<Cmd("quit", 0)>> /\ gdb = "idle" /\ ~intr /\ ~attached
  <2>1. c.op = "quit" /\ Tail(Left) = <<>>
    BY <1>2, <1>7 DEF Cmd
  <2> QED BY <1>1, <1>2, <1>3, <1>7, <2>1
<1> QED BY <1>2, <1>4, <1>5, <1>6, <1>7 DEF Closing

\* gdb acts on a command of Python.
LEMMA GdbKeepsClosing ==
    ASSUME TypeOK, TypeOK', Closing, NEW ops, GdbAnswers(ops),
           gdb' \in {"idle", "inferior", "gone"},
           gdb' = "gone" <=> Head(toGdb).op = "quit",
           gdb' = "inferior" => Head(toGdb).op \notin CloseOps,
           Len(fromGdb') + Bit(gdb' = "inferior") <= Len(fromGdb) + 1,
           Head(toGdb).op = "detach" => ~attached',
           Head(toGdb).op = "quit" => attached' = attached
    PROVE  Closing'
<1> DEFINE c == Head(toGdb)
<1>1. /\ toGdb # <<>> /\ gdb = "idle" /\ ~intr' /\ ~intr /\ toGdb' = Tail(toGdb)
      /\ todo' = todo /\ awaiting' = awaiting
  BY DEF GdbAnswers, pyVars
<1>2. Left' = Tail(Left)
  BY <1>1, ClosingHead DEF Left
<1>3. Prompts' <= Prompts + 1 /\ Prompts \in Int /\ Prompts' \in Int
  BY <1>1 DEF Prompts, Waited, Bit, TypeOK, PcTypes, GdbTypes
<1>4. CASE c.op = "delete" /\ Left = CloseScript /\ Prompts <= 2
  BY <1>1, <1>2, <1>3, <1>4 DEF Closing, CloseOps
<1>5. CASE c.op \notin CloseOps /\ Tail(Left) = CloseScript /\ Prompts <= 1
  BY <1>1, <1>2, <1>3, <1>5 DEF Closing, CloseOps
<1>6. CASE c.op = "detach" /\ Left = Tail(CloseScript)
  <2>1. Tail(Tail(CloseScript)) = <<Cmd("quit", 0)>>
    BY DEF CloseScript
  <2> QED BY <1>1, <1>2, <1>6, <2>1 DEF Closing, CloseOps
<1>7. CASE c.op = "quit" /\ Tail(Left) = <<>> /\ ~attached
  BY <1>1, <1>2, <1>7 DEF Closing
<1> QED BY <1>1, <1>4, <1>5, <1>6, <1>7, ClosingHead

\* The running program stops, or the cable is pulled.
LEMMA BoardKeepsClosing ==
    ASSUME TypeOK, TypeOK', BoardFacts, Closing, BoardStops \/ LinkLost
    PROVE  Closing'
<1>1. /\ UNCHANGED <<todo, awaiting, toGdb, intr>> /\ (~attached => ~attached')
      /\ \/ UNCHANGED <<gdb, fromGdb>>
         \/ gdb = "inferior" /\ gdb' = "idle" /\ \E r : fromGdb' = Append(fromGdb, r)
  BY DEF BoardStops, LinkLost, Stopped, Answer, pyVars
<1>2. Left' = Left
  BY <1>1 DEF Left
<1>3. Prompts' <= Prompts /\ Prompts \in Int /\ Prompts' \in Int
  BY <1>1 DEF Prompts, Waited, Bit, TypeOK, PcTypes, GdbTypes
<1> QED BY <1>1, <1>2, <1>3 DEF Closing

\* SIGINT: it may cost one command, but never detach or quit.
LEMMA InterruptKeepsClosing ==
    ASSUME TypeOK, TypeOK', Closing, GdbInterrupted
    PROVE  Closing'
<1>1. intr /\ ~intr' /\ UNCHANGED <<todo, awaiting>> /\ gdb' = "idle" /\ gdb # "gone"
  BY DEF GdbInterrupted, Stopped, pyVars, TypeOK, FlagTypes
<1>2. Prompts' <= Prompts /\ Prompts \in Int /\ Prompts' \in Int
  <2>1. CASE gdb = "inferior"
    BY <1>1, <2>1 DEF GdbInterrupted, Stopped, Answer, Prompts, Waited, Bit, TypeOK, PcTypes, GdbTypes
  <2>2. CASE gdb = "idle"
    BY <1>1, <2>2 DEF GdbInterrupted, Stopped, Answer, Prompts, Waited, Bit, TypeOK, PcTypes, GdbTypes
  <2> QED BY <1>1, <2>1, <2>2 DEF GdbInterrupted, Stopped
<1>3. CASE toGdb' = toGdb
  <2>1. Left' = Left
    BY <1>1, <1>3 DEF Left
  <2> QED BY <1>1, <1>2, <1>3, <2>1 DEF Closing
<1>4. CASE toGdb # <<>> /\ toGdb' = Tail(toGdb)
  <2>1. Left' = Tail(Left)
    BY <1>1, <1>4, ClosingHead DEF Left
  <2> QED BY SMTT(30), <1>1, <1>2, <1>4, <2>1, ClosingHead DEF Closing
<1> QED BY <1>3, <1>4 DEF GdbInterrupted, Stopped

LEMMA NextClosing ==
    ASSUME TypeOK, TypeOK', Core, [Next]_vars, Release
    PROVE  /\ pc' = "closing" => todo' = CloseScript /\ awaiting' = Nothing /\ ~intr'
           /\ pc' \in {"closing", "intr", "closed"} => cutShort' \/ Closing'
<1> USE DEF pyVars, gdbVars, bdVars
<1>a. /\ toGdb \in Seq(Commands) /\ todo \in Seq(Commands) /\ fromGdb \in Seq(Replies)
      /\ cutShort \in BOOLEAN
  BY DEF TypeOK, PcTypes, GdbTypes, FlagTypes
<1>b. ASSUME NEW pcs, Raise(pcs)
      PROVE  /\ pc' = "closing" => todo' = CloseScript /\ awaiting' = Nothing /\ ~intr'
             /\ pc' \in {"closing", "intr", "closed"} => cutShort' \/ Closing'
  <2>1. CASE Unsettled
    <3>1. pc \in Working /\ Plain
      BY <2>1 DEF Unsettled, Working, Release
    <3>2. /\ todo' = CloseScript /\ awaiting' = Nothing
          /\ UNCHANGED <<intr, gdb, toGdb, fromGdb>>
      BY <1>b, <2>1 DEF Raise
    <3>3. Closing' /\ ~intr'
      BY <3>1, <3>2, UnderWay, BeginClosing
    <3> QED BY <3>2, <3>3
  <2> QED BY <1>b, <2>1 DEF Raise
<1>1. CASE DisableEcho \/ Send \/ Paced
  BY <1>1 DEF DisableEcho, Send, Paced
<1>2. CASE Take
  <2>1. pc \in Working /\ Plain
    BY <1>2 DEF Take, Working, Release
  <2>2. toGdb = <<>> /\ gdb # "gone" /\ ~intr /\ Len(fromGdb) + Bit(gdb = "inferior") <= 1
    BY <1>2, <2>1, UnderWay DEF Take
  <2>3. Len(fromGdb') + Bit(gdb' = "inferior") <= 1 /\ UNCHANGED <<intr, gdb, toGdb>>
    BY <1>2, <2>2, <1>a DEF Take, Bit
  <2>4. CASE pc' = "closing"
    <3>1. todo' = CloseScript /\ awaiting' = Nothing
      BY <1>2, <2>1, <2>4 DEF Take, NextPiece
    <3> QED BY <2>2, <2>3, <2>4, <3>1, BeginClosing
  <2>5. CASE pc' # "closing"
    <3>1. pc' \in {"connect", "loop", "handler", "pace"} \/ pc' = pc
      BY <1>2, <2>5 DEF Take, NextPiece
    <3> QED BY <1>2, <2>5, <3>1 DEF Take
  <2> QED BY <2>4, <2>5
<1>3. CASE TimeOut \/ CtrlC
  BY <1>3, <1>b DEF TimeOut, CtrlC
<1>4. CASE SendIntr
  <2>1. /\ todo = CloseScript /\ awaiting = Nothing /\ ~intr /\ (cutShort \/ Closing)
        /\ pc' = "intr" /\ awaiting' # Nothing /\ intr' = (gdb # "gone")
        /\ UNCHANGED <<todo, toGdb, fromGdb, gdb, attached, cutShort>>
    BY <1>4 DEF SendIntr, Release, Nothing, Cmd
  <2>2. CASE Closing
    <3>1. Len(todo) = 3 /\ Len(Left) = Len(toGdb) + 3
      BY <2>1, <1>a DEF CloseScript, Left
    <3>2. Left # <<>> /\ Left # Tail(CloseScript) /\ Left # <<Cmd("quit", 0)>>
      <4>1. Len(<<>>) = 0 /\ Len(Tail(CloseScript)) = 2 /\ Len(<<Cmd("quit", 0)>>) = 1
        BY DEF CloseScript
      <4>2. Len(Left) # 0 /\ Len(Left) # 1 /\ Len(Left) # 2
        BY <3>1, <1>a
      <4> QED BY <4>1, <4>2, Zenon
    <3>3. gdb # "gone" => Left' = Left /\ Prompts' = Prompts
      <4> SUFFICES ASSUME gdb # "gone" PROVE Left' = Left /\ Prompts' = Prompts
        OBVIOUS
      <4>1. Bit(intr') = 1 /\ Bit(intr) = 0 /\ Bit(awaiting' # Nothing) = 1
            /\ Bit(awaiting # Nothing) = 0
        BY <2>1 DEF Bit
      <4>2. Left' = Left
        BY <2>1 DEF Left
      <4> QED BY <2>1, <4>1, <4>2, <1>a DEF Prompts, Waited, Bit
    <3> QED BY <2>1, <2>2, <3>2, <3>3 DEF Closing
  <2> QED BY <2>1, <2>2
<1>5. CASE CloseSend
  <2>1. Left' = Left /\ todo # <<>> /\ Head(todo) \in Commands
    BY <1>5, <1>a, LeftKept, TailOps DEF CloseSend, Left
  <2>2. awaiting = Nothing /\ awaiting' # Nothing /\ UNCHANGED <<fromGdb, intr, gdb>>
    BY <1>5, <2>1 DEF CloseSend, Commands, Nothing, Cmd
  <2>3. Len(todo') = Len(todo) - 1
    BY <1>5, <2>1, <1>a, HeadTailProperties DEF CloseSend
  <2>4. Prompts' = Prompts
    BY <2>2, <2>3, <1>a DEF Prompts, Waited, Bit
  <2>5. toGdb # <<>> => toGdb' # <<>> /\ Head(toGdb') = Head(toGdb)
    BY <1>5, <2>1, <1>a, AppendProperties DEF CloseSend
  <2> QED BY <1>5, <2>1, <2>4, <2>5 DEF CloseSend, Closing, Release
<1>6. CASE CloseTake
  <2>1. /\ awaiting # Nothing /\ awaiting' = Nothing
        /\ UNCHANGED <<pc, todo, toGdb, intr, gdb, attached, cutShort>>
        /\ \/ Len(fromGdb') = Len(fromGdb) - 1
           \/ gdb = "gone"
    BY <1>6, <1>a, HeadTailProperties DEF CloseTake
  <2>2. Left' = Left /\ (gdb = "gone" \/ Prompts' = Prompts)
    BY <2>1, <1>a DEF Left, Prompts, Waited, Bit
  <2> QED BY <1>6, <2>1, <2>2 DEF CloseTake, Closing, Release
<1>7. CASE CloseGiveUp \/ Kill
  BY <1>7 DEF CloseGiveUp, Kill
<1>8. CASE Gdb \/ BoardStops \/ LinkLost
  <2>1. UNCHANGED <<pc, todo, awaiting, cutShort>>
    BY <1>8 DEF Gdb, GdbPlain, GdbTarget, GdbBreak, GdbContinue, GdbDelete, GdbDetach, GdbQuit,
       GdbAnswers, GdbInterrupted, BoardStops, LinkLost, Stopped
  <2>2. CASE BoardStops \/ LinkLost
    <3>1. pc = "closing" => ~intr'
      BY <2>2 DEF Release, BoardStops, LinkLost
    <3> QED BY <2>1, <2>2, <3>1, BoardKeepsClosing DEF Release
  <2>3. CASE GdbInterrupted
    <3>1. pc # "closing"
      BY <2>3 DEF Release, GdbInterrupted
    <3> QED BY <2>1, <2>3, <3>1, InterruptKeepsClosing DEF Release
  <2>4. ASSUME Closing, ~GdbInterrupted, Gdb PROVE Closing'
    <3>a. ASSUME NEW r, Answer(r) PROVE Len(fromGdb') = Len(fromGdb) + 1
      BY <3>a, <1>a DEF Answer
    <3>b. ASSUME NEW ops, GdbAnswers(ops)
          PROVE  gdb = "idle" /\ Head(toGdb).op \in ops
      BY <3>b DEF GdbAnswers
    <3>c. ASSUME NEW ops, GdbAnswers(ops), ops \cap {"detach", "quit"} = {},
                 UNCHANGED gdb, NEW r, Answer(r)
          PROVE  Closing'
      <4>1. /\ gdb' = "idle" /\ Head(toGdb).op \in ops
            /\ Len(fromGdb') + Bit(gdb' = "inferior") <= Len(fromGdb) + 1
        BY <3>a, <3>b, <3>c, <1>a DEF Bit
      <4> QED BY <2>4, <3>c, <4>1, GdbKeepsClosing
    <3>1. CASE GdbPlain
      BY <3>1, <3>c DEF GdbPlain
    <3>2. CASE GdbTarget
      BY <3>2, <3>c DEF GdbTarget
    <3>3. CASE GdbBreak
      BY <3>3, <3>c DEF GdbBreak
    <3>4. CASE GdbContinue
      <4>1. CASE attached
        <5>1. /\ gdb' = "inferior" /\ Head(toGdb).op = "continue" /\ GdbAnswers({"continue"})
              /\ Len(fromGdb') + Bit(gdb' = "inferior") <= Len(fromGdb) + 1
          BY <3>4, <3>b, <4>1, <1>a DEF GdbContinue, Bit
        <5> QED BY <2>4, <5>1, GdbKeepsClosing DEF CloseOps
      <4>2. CASE ~attached
        BY <3>4, <4>2, <3>c DEF GdbContinue
      <4> QED BY <4>1, <4>2
    <3>5. CASE GdbDelete
      BY <3>5, <3>c DEF GdbDelete
    <3>6. CASE GdbDetach
      <4>1. /\ gdb' = "idle" /\ ~attached' /\ Head(toGdb).op = "detach" /\ GdbAnswers({"detach"})
            /\ Len(fromGdb') + Bit(gdb' = "inferior") <= Len(fromGdb) + 1
        BY <3>6, <3>a, <3>b, <1>a DEF GdbDetach, Bit
      <4> QED BY <2>4, <4>1, GdbKeepsClosing
    <3>7. CASE GdbQuit
      <4>1. /\ gdb' = "gone" /\ UNCHANGED attached /\ Head(toGdb).op = "quit"
            /\ GdbAnswers({"quit"})
            /\ Len(fromGdb') + Bit(gdb' = "inferior") <= Len(fromGdb) + 1
        BY <3>7, <3>b, <1>a DEF GdbQuit, Bit
      <4> QED BY <2>4, <4>1, GdbKeepsClosing
    <3> QED BY <2>4, <3>1, <3>2, <3>3, <3>4, <3>5, <3>6, <3>7 DEF Gdb
  <2>5. Gdb /\ ~GdbInterrupted /\ pc = "closing" => ~intr'
    BY <2>1 DEF Release, Gdb, GdbPlain, GdbTarget, GdbBreak, GdbContinue, GdbDelete, GdbDetach,
       GdbQuit, GdbAnswers
  <2> QED BY <1>8, <2>1, <2>2, <2>3, <2>4, <2>5 DEF Release
<1>9. CASE UNCHANGED vars
  <2>1. Closing => Closing'
    BY <1>9 DEF vars, Closing, Left, Prompts, Waited
  <2> QED BY <1>9, <2>1 DEF vars, Release
<1> QED BY <1>1, <1>2, <1>3, <1>4, <1>5, <1>6, <1>7, <1>8, <1>9 DEF Next, Python

LEMMA NextEnded ==
    ASSUME TypeOK, [Next]_vars, Release
    PROVE  pc' = "ended" => cutShort' \/ (board' = "running" /\ inserted' = {} /\ gdb' = "gone")
<1> USE DEF pyVars, gdbVars, bdVars
<1>a. todo \in Seq(Commands) /\ fromGdb \in Seq(Replies) /\ toGdb \in Seq(Commands)
  BY DEF TypeOK, PcTypes, GdbTypes
<1>1. CASE Kill
  <2>1. cutShort' = cutShort /\ board' = board /\ inserted' = inserted /\ gdb' = "gone"
    BY <1>1 DEF Kill
  <2>2. CASE pc = "killing"
    BY <2>1, <2>2 DEF Release, Early, BoardFacts
  <2>3. CASE pc = "closed" /\ awaiting = Nothing /\ todo = <<>> /\ Closing
    <3>1. Prompts >= 4
      BY <2>3, <1>a DEF Prompts, Waited, Bit
    <3>2. ~attached /\ gdb # "inferior"
      BY <2>3, <3>1, <1>a DEF Closing, Prompts, Waited, Bit
    <3> QED BY <2>1, <2>3, <3>2 DEF Release, BoardFacts
  <2> QED BY <1>1, <2>1, <2>2, <2>3 DEF Kill, Release
<1>2. CASE pc' = "ended" /\ ~Kill
  <2>1. pc = "ended"
    BY <1>2 DEF Next, vars, Python, Gdb, DisableEcho, Send, Take, NextPiece, TimeOut, CtrlC, Raise,
       SendIntr, CloseSend, CloseTake, CloseGiveUp, Paced, GdbPlain, GdbTarget, GdbBreak,
       GdbContinue, GdbDelete, GdbDetach, GdbQuit, GdbAnswers, GdbInterrupted, BoardStops,
       LinkLost, Stopped
  <2>2. CASE cutShort
    BY <1>2, <2>1, <2>2 DEF Next, vars, Python, Gdb, DisableEcho, Send, Take, TimeOut, CtrlC, Raise,
       SendIntr, CloseSend, CloseTake, CloseGiveUp, Paced, GdbPlain, GdbTarget, GdbBreak,
       GdbContinue, GdbDelete, GdbDetach, GdbQuit, GdbAnswers, GdbInterrupted, BoardStops,
       LinkLost, Stopped
  <2>3. CASE ~cutShort
    <3>1. board = "running" /\ inserted = {} /\ gdb = "gone"
      BY <2>1, <2>3 DEF Release
    <3> QED BY <1>2, <2>1, <3>1 DEF Next, vars, Python, Gdb, DisableEcho, Send, Take, TimeOut, CtrlC,
       Raise, SendIntr, CloseSend, CloseTake, CloseGiveUp, Paced, GdbPlain, GdbTarget, GdbBreak,
       GdbContinue, GdbDelete, GdbDetach, GdbQuit, GdbAnswers, GdbInterrupted, BoardStops,
       LinkLost, Stopped
  <2> QED BY <2>2, <2>3
<1> QED BY <1>1, <1>2

LEMMA Released == Spec => []Release
<1>1. Init => Release
  BY ScriptOps DEF Init, Release, BoardFacts, Early, Plain, Working, OpsIn, SetupOps, CloseOps,
     Nothing, Cmd
<1>2. IInv /\ IInv' /\ Release /\ [Next]_vars => Release'
  <2> SUFFICES ASSUME TypeOK, TypeOK', Core, Release, [Next]_vars PROVE Release'
    BY DEF IInv
  <2>1. pc' # "ended" => BoardFacts'
    <3>1. pc = "ended" => pc' = "ended"
      BY DEF Next, vars, pyVars, Python, Gdb, DisableEcho, Send, Take, TimeOut, CtrlC, Raise,
         SendIntr, CloseSend, CloseTake, CloseGiveUp, Kill, Paced, GdbPlain, GdbTarget, GdbBreak,
         GdbContinue, GdbDelete, GdbDetach, GdbQuit, GdbAnswers, GdbInterrupted, BoardStops,
         LinkLost, Stopped
    <3> QED BY <3>1, NextBoardFacts DEF Release
  <2> QED BY <2>1, NextEarly, NextPlain, NextClosing, NextEnded DEF Release
<1> QED BY <1>1, <1>2, Inductive, PTL DEF Spec

\* Unless close() is cut short, by a silence of ten seconds or a Ctrl+C of its
\* own, the tool ends with the board running and no comparator set, whichever
\* prompts close() took for the answers of its commands (GdbSession.close).
THEOREM BoardIsLeftRunning == Spec => []BoardIsReleased
<1>1. Release => BoardIsReleased
  BY DEF Release, BoardIsReleased
<1> QED BY <1>1, Released, PTL
=============================================================================
