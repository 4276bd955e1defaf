----------------------------- MODULE GdbSession -----------------------------
(***************************************************************************)
(* tools/_gdb_trace_common.py: GdbSession, the wrapper every trace tool    *)
(* puts around an interactive gdb, together with the loop those tools run  *)
(* on it.  Three actors share one board:                                   *)
(*   - Python, which writes commands to a pseudo terminal and matches each *)
(*     call of expect_exact with the FIRST prompt that comes back, whoever *)
(*     printed it;                                                         *)
(*   - gdb (external), which takes the commands one by one, answers each   *)
(*     with one prompt, and can be interrupted out of band;                *)
(*   - the board, running or halted, with the comparators gdb puts into    *)
(*     it each time the program runs.                                      *)
(* A command may be answered late or never, the link may be lost, and the  *)
(* user presses Ctrl+C whenever he likes.  Only Python gets the Ctrl+C of  *)
(* the terminal: gdb runs in a session of its own.                         *)
(***************************************************************************)
EXTENDS Naturals, Sequences

CONSTANTS NLines,        \* the lines of the tool's breakpoint table
          NReads,        \* the commands one handler sends
          MaxStops       \* bound: stops of the board

ASSUME BoundsAssumption ==
    NLines \in Nat \ {0} /\ NReads \in Nat \ {0} /\ MaxStops \in Nat

VARIABLES
    pc,         \* where Python is
    todo,       \* the commands the current piece of Python still sends
    awaiting,   \* the command whose prompt Python waits for, or Nothing
    last,       \* the last command answered, and the command the answer is of
    echo,       \* does the pty echo what Python writes?
    toGdb,      \* commands written and not yet taken by gdb
    fromGdb,    \* answers, each up to its prompt, not yet read by Python
    intr,       \* has sendintr() been delivered and not yet been acted on?
    gdb,        \* "idle" (at its prompt), "inferior" (program runs), "gone"
    attached,   \* is gdb attached to the board?
    table,      \* gdb's list of breakpoints
    board,      \* "running" or "halted"
    inserted,   \* the comparators set in the board
    stale,      \* lines at which the ELF is not the source (fixed by Init)
    link,       \* is the cable in?
    stops,      \* count of the stops
    cutShort    \* has close() met a silent gdb, or a Ctrl+C?

pyVars  == <<pc, todo, awaiting, last>>
gdbVars == <<toGdb, fromGdb, intr, gdb, attached, table>>
bdVars  == <<board, inserted, link>>
vars    == <<pyVars, echo, gdbVars, bdVars, stale, stops, cutShort>>

Lines == 1..NLines

Cmd(op, n) == [op |-> op, n |-> n]
Commands ==
    [op : {"start", "prompt", "options", "target", "continue", "intr", "delete",
           "detach", "quit"}, n : {0}]
    \union [op : {"break", "verify"}, n : Lines]
    \union [op : {"read"}, n : Nat]
Nothing == Cmd("none", 0)

Reply(c, what, n) == [of |-> c, what |-> what, n |-> n]
Replies ==
    [of : Commands \union {Cmd("echo", 0)},
     what : {"done", "value", "error", "line", "remote", "breakpoint", "norun", "hit",
             "signal", "exited", "quit", "closed"},
     n : Nat]

-----------------------------------------------------------------------------
(* What Python sends, piece by piece.                                      *)

\* GdbSession.__init__ from line 200 on.
SetupScript == <<Cmd("prompt", 0), Cmd("options", 0)>>

\* connect(), then load_partition_layout()'s reads.
ConnectScript == <<Cmd("target", 0), Cmd("read", 0)>>

\* set_checked_breakpoint_by_line for each line: break, then info line.
ArmScript ==
    [i \in 1..(2 * NLines) |->
        IF i % 2 = 1 THEN Cmd("break", (i + 1) \div 2) ELSE Cmd("verify", i \div 2)]

HandlerScript == [i \in 1..NReads |-> Cmd("read", i)]

\* close(): after sendintr(), three commands.
CloseScript == <<Cmd("delete", 0), Cmd("detach", 0), Cmd("quit", 0)>>

\* Inside the tool's try block, whose finally clause calls close().
Unsettled == pc \in {"connect", "loop", "handler", "pace"}

-----------------------------------------------------------------------------
Init ==
    /\ pc = "spawn" /\ todo = SetupScript /\ last = [cmd |-> Nothing, of |-> Nothing]
    /\ awaiting = Nothing
    /\ echo = TRUE
    /\ toGdb = <<Cmd("start", 0)>> /\ fromGdb = <<>> /\ intr = FALSE
    /\ gdb = "idle" /\ attached = FALSE /\ table = {}
    /\ board = "running" /\ inserted = {} /\ link \in BOOLEAN
    /\ stale \in SUBSET Lines
    /\ stops = 0 /\ cutShort = FALSE

(***************************************************************************)
(* Python.                                                                 *)
(***************************************************************************)
\* A bug: the echo is left on.
EchoLeftOn == TRUE

\* What setecho(False) leaves of the echo.
EchoAfterSetup == FALSE

\* __init__ 198-199: the echo goes first, then the wait for gdb's own prompt.
DisableEcho ==
    /\ pc = "spawn"
    /\ echo' = EchoAfterSetup
    /\ pc' = "init" /\ awaiting' = Cmd("start", 0)
    /\ UNCHANGED <<todo, last, gdbVars, bdVars, stale, stops, cutShort>>

\* sendline.  The echo of "set prompt (foo) " holds the new prompt itself.
Send ==
    /\ pc \in {"init", "connect", "loop", "handler"}
    /\ awaiting = Nothing /\ todo # <<>>
    /\ toGdb' = Append(toGdb, Head(todo))
    /\ fromGdb' = IF echo /\ Head(todo).op = "prompt"
                    THEN Append(fromGdb, Reply(Cmd("echo", 0), "done", 0))
                    ELSE fromGdb
    /\ awaiting' = Head(todo)
    /\ UNCHANGED <<pc, todo, last, echo, intr, gdb, attached, table, bdVars, stale,
                   stops, cutShort>>

\* A bug: the line a breakpoint resolved to is not compared.
RefusedUnverified(c, r) ==
    \/ c.op = "target" /\ r.what # "remote"
    \/ c.op = "break"  /\ r.what # "breakpoint"
    \/ c.op = "read"   /\ r.what # "value"

\* Is the answer one that makes the caller die() or raise?
Refused(c, r) ==
    \/ c.op = "target" /\ r.what # "remote"
    \/ c.op = "break"  /\ r.what # "breakpoint"
    \/ c.op = "verify" /\ (r.what # "line" \/ r.n # c.n)
    \/ c.op = "read"   /\ r.what # "value"

\* What the piece of Python does after its last command.
NextPiece(r) ==
    CASE pc = "init"    -> [pc |-> "connect", todo |-> ConnectScript \o ArmScript]
      [] pc = "connect" -> [pc |-> "loop",    todo |-> <<Cmd("continue", 0)>>]
      [] pc = "handler" -> [pc |-> "pace",    todo |-> <<>>]
      [] pc = "loop"    ->
            CASE r.what = "hit"    -> [pc |-> "handler", todo |-> HandlerScript]
              [] r.what = "exited" -> [pc |-> "closing", todo |-> CloseScript]
              [] OTHER             -> [pc |-> "loop",    todo |-> <<Cmd("continue", 0)>>]

Rest == IF awaiting.op = "start" THEN todo ELSE Tail(todo)

\* expect_exact(PROMPT) returns: everything up to the first prompt is taken
\* for the answer.
Take ==
    /\ pc \in {"init", "connect", "loop", "handler"}
    /\ awaiting # Nothing /\ fromGdb # <<>>
    /\ LET r == Head(fromGdb) IN
        /\ last' = [cmd |-> awaiting, of |-> r.of]
        /\ IF Refused(awaiting, r)
             THEN pc' = "closing" /\ todo' = CloseScript
             ELSE IF Rest # <<>>
               THEN pc' = pc /\ todo' = Rest
               ELSE pc' = NextPiece(r).pc /\ todo' = NextPiece(r).todo
    /\ fromGdb' = Tail(fromGdb)
    /\ awaiting' = Nothing
    /\ UNCHANGED <<echo, toGdb, intr, gdb, attached, table, bdVars, stale, stops,
                   cutShort>>

\* pace() returns: Enter, or the timer of --auto.
Paced ==
    /\ pc = "pace"
    /\ pc' = "loop" /\ todo' = <<Cmd("continue", 0)>>
    /\ UNCHANGED <<awaiting, last, echo, gdbVars, bdVars, stale, stops, cutShort>>

\* An exception of Python: TIMEOUT, or KeyboardInterrupt.  Inside the try
\* block the finally clause closes the session; in the constructor, which is
\* called before it, and in close() itself, which catches no
\* KeyboardInterrupt, Python ends and the pty closes under gdb.
Raise(pcs) ==
    /\ pc \in pcs
    /\ IF Unsettled
         THEN pc' = "closing" /\ todo' = CloseScript
         ELSE pc' = "killing" /\ todo' = <<>>
    /\ awaiting' = Nothing
    /\ UNCHANGED <<last, echo, gdbVars, bdVars, stale, stops>>

\* The timeout of cmd() and of connect(); continue_and_wait() has none.
TimeOut ==
    /\ awaiting # Nothing /\ awaiting.op # "continue" /\ fromGdb = <<>>
    /\ Raise({"init", "connect", "handler"})
    /\ UNCHANGED cutShort

CtrlC ==
    /\ Raise({"spawn", "init", "connect", "loop", "handler", "pace", "closing", "intr",
             "closed"})
    /\ cutShort' = (cutShort \/ pc \in {"closing", "intr", "closed"})

(***************************************************************************)
(* close(): sendintr() and a wait, then delete, detach and quit, each with *)
(* a wait for a prompt or the end of the file.  Any prompt will do, and    *)
(* every failure of a wait is swallowed.                                   *)
(***************************************************************************)
\* A bug: the commands follow the interrupt without a wait for its prompt.
SendIntrUnawaited ==
    /\ pc = "closing"
    /\ intr' = (gdb # "gone")
    /\ pc' = "intr" /\ awaiting' = Nothing
    /\ UNCHANGED <<todo, last, echo, toGdb, fromGdb, gdb, attached, table, bdVars, stale,
                   stops, cutShort>>

SendIntr ==
    /\ pc = "closing"
    /\ intr' = (gdb # "gone")
    /\ pc' = "intr" /\ awaiting' = Cmd("intr", 0)
    /\ UNCHANGED <<todo, last, echo, toGdb, fromGdb, gdb, attached, table, bdVars, stale,
                   stops, cutShort>>

CloseSend ==
    /\ pc \in {"intr", "closed"} /\ awaiting = Nothing /\ todo # <<>>
    /\ toGdb' = Append(toGdb, Head(todo))
    /\ awaiting' = Head(todo) /\ todo' = Tail(todo) /\ pc' = "closed"
    /\ UNCHANGED <<last, echo, fromGdb, intr, gdb, attached, table, bdVars, stale, stops,
                   cutShort>>

CloseTake ==
    /\ pc \in {"intr", "closed"} /\ awaiting # Nothing
    /\ \/ fromGdb # <<>> /\ fromGdb' = Tail(fromGdb)
       \/ fromGdb = <<>> /\ gdb = "gone" /\ UNCHANGED fromGdb        \* EOF
    /\ awaiting' = Nothing
    /\ UNCHANGED <<pc, todo, last, echo, toGdb, intr, gdb, attached, table, bdVars, stale,
                   stops, cutShort>>

\* A bug: a wait of close() has no limit.
CloseNeverGivesUp == FALSE

\* Ten seconds without a prompt.
CloseGiveUp ==
    /\ pc \in {"intr", "closed"} /\ awaiting # Nothing /\ fromGdb = <<>> /\ gdb # "gone"
    /\ awaiting' = Nothing /\ cutShort' = TRUE
    /\ UNCHANGED <<pc, todo, last, echo, gdbVars, bdVars, stale, stops>>

\* child.close(force=True), or the end of Python: what gdb has not done yet
\* is lost, and the board stays as it is.
Kill ==
    /\ \/ pc = "killing"
       \/ pc = "closed" /\ awaiting = Nothing /\ todo = <<>>
    /\ gdb' = "gone" /\ toGdb' = <<>> /\ intr' = FALSE
    /\ pc' = "ended" /\ todo' = <<>>
    /\ UNCHANGED <<awaiting, last, echo, fromGdb, attached, table, bdVars, stale, stops,
                   cutShort>>

(***************************************************************************)
(* gdb and the board (external).                                           *)
(***************************************************************************)
Answer(r) == fromGdb' = Append(fromGdb, r)

GdbAnswers(ops) ==
    /\ gdb = "idle" /\ ~intr /\ toGdb # <<>> /\ Head(toGdb).op \in ops
    /\ toGdb' = Tail(toGdb)
    /\ UNCHANGED <<pyVars, echo, intr, stale, link, cutShort>>

GdbPlain ==
    LET c == Head(toGdb) IN
    /\ GdbAnswers({"start", "prompt", "options", "read", "verify"})
    /\ Answer(Reply(c, CASE c.op = "read"   -> IF attached THEN "value" ELSE "error"
                         [] c.op = "verify" -> "line"
                         [] OTHER           -> "done",
                       IF c.op = "verify" /\ c.n \in stale THEN c.n + 1 ELSE c.n))
    /\ UNCHANGED <<gdb, attached, table, board, inserted, stops>>

\* The board halts when gdb attaches to it.
GdbTarget ==
    /\ GdbAnswers({"target"})
    /\ attached' = link
    /\ board' = IF link THEN "halted" ELSE board
    /\ Answer(Reply(Head(toGdb), IF link THEN "remote" ELSE "error", 0))
    /\ UNCHANGED <<gdb, table, inserted, stops>>

GdbBreak ==
    /\ GdbAnswers({"break"})
    /\ table' = table \union {Head(toGdb).n}
    /\ Answer(Reply(Head(toGdb), "breakpoint", Head(toGdb).n))
    /\ UNCHANGED <<gdb, attached, board, inserted, stops>>

\* Attached, the program runs with the comparators set and gdb prints nothing
\* until it stops; else "The program is not being run".
GdbContinue ==
    /\ GdbAnswers({"continue"})
    /\ IF attached
         THEN /\ gdb' = "inferior" /\ board' = "running" /\ inserted' = table
              /\ UNCHANGED <<fromGdb, stops>>
         ELSE /\ stops < MaxStops /\ stops' = stops + 1
              /\ Answer(Reply(Head(toGdb), "norun", 0))
              /\ UNCHANGED <<gdb, board, inserted>>
    /\ UNCHANGED <<attached, table>>

GdbDelete ==
    /\ GdbAnswers({"delete"})
    /\ table' = {}
    /\ Answer(Reply(Head(toGdb), "done", 0))
    /\ UNCHANGED <<gdb, attached, board, inserted, stops>>

GdbDetach ==
    /\ GdbAnswers({"detach"})
    /\ attached' = FALSE
    /\ board' = IF attached THEN "running" ELSE board
    /\ Answer(Reply(Head(toGdb), "done", 0))
    /\ UNCHANGED <<gdb, table, inserted, stops>>

GdbQuit ==
    /\ GdbAnswers({"quit"})
    /\ gdb' = "gone"
    /\ UNCHANGED <<fromGdb, attached, table, board, inserted, stops>>

\* The stop of a running program: the comparators are taken out again.
Stopped(what, n) ==
    /\ gdb = "inferior"
    /\ gdb' = "idle" /\ board' = "halted" /\ inserted' = {}
    /\ Answer(Reply(Cmd("continue", 0), what, n))
    /\ UNCHANGED <<pyVars, echo, toGdb, table, stale, cutShort>>

BoardStops ==
    /\ stops < MaxStops /\ stops' = stops + 1
    /\ \/ \E l \in inserted : Stopped("hit", l)
       \/ Stopped("signal", 0)
       \/ Stopped("exited", 0)
    /\ UNCHANGED <<intr, attached, link>>

\* SIGINT: a running program is stopped, a command under way is given up with
\* its one prompt, and at the prompt gdb says "Quit" and prompts again.
GdbInterrupted ==
    /\ intr /\ gdb # "gone" /\ intr' = FALSE
    /\ \/ Stopped("signal", 0)
       \/ /\ gdb = "idle"
          /\ toGdb' = IF toGdb = <<>> THEN <<>> ELSE Tail(toGdb)
          /\ Answer(Reply(IF toGdb = <<>> THEN Cmd("intr", 0) ELSE Head(toGdb), "quit", 0))
          /\ UNCHANGED <<pyVars, echo, gdb, table, board, inserted, stale, cutShort>>
    /\ UNCHANGED <<attached, link, stops>>

\* The cable is pulled: the board starts afresh, with no comparator set.
LinkLost ==
    /\ link /\ link' = FALSE
    /\ attached' = FALSE /\ board' = "running" /\ inserted' = {}
    /\ IF gdb = "inferior"
         THEN gdb' = "idle" /\ Answer(Reply(Cmd("continue", 0), "closed", 0))
         ELSE UNCHANGED <<gdb, fromGdb>>
    /\ UNCHANGED <<pyVars, echo, toGdb, intr, table, stale, stops, cutShort>>

-----------------------------------------------------------------------------
Python ==
    \/ DisableEcho \/ Send \/ Take \/ TimeOut
    \/ SendIntr \/ CloseSend \/ CloseTake \/ CloseGiveUp \/ Kill

Gdb ==
    \/ GdbPlain \/ GdbTarget \/ GdbBreak \/ GdbContinue \/ GdbDelete \/ GdbDetach
    \/ GdbQuit \/ GdbInterrupted

Next == Python \/ Paced \/ CtrlC \/ Gdb \/ BoardStops \/ LinkLost

\* Python runs; nothing is asked of gdb, the board, the cable or the user.
Fairness == WF_vars(Python)

Spec == Init /\ [][Next]_vars /\ Fairness

-----------------------------------------------------------------------------
PcTypes ==
    /\ pc \in {"spawn", "init", "connect", "loop", "handler", "pace", "closing", "intr",
               "closed", "killing", "ended"}
    /\ todo \in Seq(Commands)
    /\ awaiting \in Commands \union {Nothing}
    /\ last \in [cmd : Commands \union {Nothing},
                 of : Commands \union {Cmd("echo", 0), Nothing}]

GdbTypes ==
    /\ toGdb \in Seq(Commands) /\ fromGdb \in Seq(Replies)
    /\ gdb \in {"idle", "inferior", "gone"}
    /\ table \subseteq Lines /\ inserted \subseteq Lines /\ stale \subseteq Lines
    /\ board \in {"running", "halted"}

FlagTypes ==
    /\ echo \in BOOLEAN /\ intr \in BOOLEAN /\ attached \in BOOLEAN
    /\ link \in BOOLEAN /\ cutShort \in BOOLEAN

CountTypes == stops \in 0..MaxStops

\* The values of the variables.
TypeOK == PcTypes /\ GdbTypes /\ FlagTypes /\ CountTypes

\* Every answer Python acts on is the answer of the command it sent: no
\* command is ever one step behind (_gdb_trace_common.py 192-197).
AnswersInStep == last.of = last.cmd

\* Nothing is shown of an ELF that is not the source: no handler runs unless
\* every line of the table was verified (251-257).
NothingOnStaleElf == pc \in {"loop", "handler", "pace"} => stale = {}

\* After a Ctrl+C, a refusal or a time-out the tool leaves the board running
\* and without a breakpoint, whichever prompt of the past close() took for the
\* answer of its own commands (mk_auth_trace.md 116-118), unless close() itself
\* was cut short: by a silence of ten seconds, or by a Ctrl+C of its own.
BoardIsReleased ==
    pc = "ended" /\ ~cutShort => board = "running" /\ inserted = {}

\* The tool ends once it has begun to stop, whatever gdb does: close() waits
\* for nothing without a limit.
StopEnds == (pc \in {"closing", "killing"}) ~> (pc = "ended")
=============================================================================
