------------------------------- MODULE Device -------------------------------
(***************************************************************************)
(* The state the parts of the firmware share, and how its one thread and   *)
(* its interrupts interleave.                                              *)
(*                                                                         *)
(* The main loop (App_Run) is a single thread: pc says where it is between *)
(* two steps.  A step is a piece of code whose effect on shared state the  *)
(* panic interrupt can neither see half done nor tell apart from earlier   *)
(* or later; the interrupt may come between any two steps except inside a  *)
(* critical section (Masked).  Local variables keep their value across an  *)
(* interrupt; everything static is wiped by it.                            *)
(*                                                                         *)
(* Secrets are abstract.  A typed line is a master key, or one of the few  *)
(* other lines that the prompts tell apart.  A buffer of zero bytes is     *)
(* None for a key or a password and EmptyTable for a table: a zeroed table *)
(* is, byte for byte, the table without entries.                           *)
(***************************************************************************)
EXTENDS Naturals

CONSTANTS
  MasterKeys,  \* lines that satisfy the master key policy
  OtherLines,  \* lines that do not: a subset of PlainLines
  NulKey,      \* the key of zero bytes: no terminal can type it
  Salts,       \* salts a derivation can use
  Ids,         \* ids of the table, a subset of PlainLines
  Passwords,   \* passwords the generator can produce
  None,        \* zeroed, absent, nothing there
  MaxPanics,   \* bound on s_generation between two power losses
  PowerFails   \* whether the power can be cut

\* "enter" is a line without text; digits are ids, menu choices and lengths;
\* "long" fits no prompt
PlainLines == {"enter", "1", "2", "3", "q", "y", "long"}
Lines      == MasterKeys \cup OtherLines

ASSUME LinesAssumption == /\ OtherLines \subseteq PlainLines
                          /\ MasterKeys \cap PlainLines = {}
                          /\ NulKey \notin Lines
                          /\ None \notin Lines \cup {NulKey}
                          /\ Ids \subseteq PlainLines
ASSUME SaltsAssumption == \E s, r \in Salts : s # r
ASSUME MaxPanicsAssumption == MaxPanics \in Nat
ASSUME PowerFailsAssumption == PowerFails \in BOOLEAN

Tables      == [Ids -> Passwords \cup {None}]
EmptyTable  == [i \in Ids |-> None]
\* an absent table is told from every table, the empty one included
ASSUME NoTableAssumption == None \notin Tables

\* what one key derivation yields: auth value and cipher key
DerivedKeys == [mk : MasterKeys \cup {NulKey}, salt : Salts]

AppStates == {"INIT", "FIRST_MEET", "MK_AUTH", "MODE_SELECTION", "RETRIEVE", "GENERATE", "CHANGE_MK"}
Results   == {"ok", "wrong", "invalid", "cancelled", "storage", "noPartition"}

VARIABLES
  pc,        \* where the main thread is
  g,         \* g_state
  st,        \* App_Run: state
  ent,       \* App_Run: entered
  prev,      \* App_Run: prev_state
  rx,        \* the complete line in the receive buffer, None while there is none
  line,      \* the caller's copy of a taken line
  skey,      \* s_key
  authd,     \* s_authorized
  gen,       \* s_generation
  opgen,     \* s_op_generation, equal to the local generation of the operation
  derived,   \* salt, auth and enc of the running operation, a key copied by CopyKey
  result,    \* session_result_t of the running operation
  fm, ma, cm, rt, gn,  \* the statics of the five modes
  cell, pending, applied, answer, loaded,  \* the partition store
  screenGen  \* history: gen when the present login or change screen was entered

appVars  == <<g, st, ent, prev>>
sesVars  == <<skey, authd, gen, opgen>>
callVars == <<line, derived, result>>
modeVars == <<fm, ma, cm, rt, gn>>
storeVars == <<cell, pending, applied, answer, loaded>>
vars == <<pc, rx, screenGen, appVars, sesVars, callVars, modeVars, storeVars>>

Store == INSTANCE AtomicStore WITH Keys <- DerivedKeys

-----------------------------------------------------------------------------
(* The statics of the modes as their Wipe functions leave them. *)

FmWiped == [sub |-> "prompt", first |-> None]
CmWiped == [sub |-> "prompt", new |-> None, work |-> EmptyTable]
GnClear(r) == [r EXCEPT !.table = EmptyTable, !.pwd = None]

RtWiped == [sub |-> "show", table |-> EmptyTable]
GnReset == [sub |-> "promptId", table |-> EmptyTable, loaded |-> FALSE, wiped |-> FALSE,
            id |-> None, pwd |-> None]

\* RAM as the startup code leaves it, on a device that was never set up
Init == /\ pc = "top"
        /\ g = "INIT" /\ st = "INIT" /\ ent = FALSE /\ prev = "INIT"
        /\ rx = None /\ line = None
        /\ skey = None /\ authd = FALSE /\ gen = 0 /\ opgen = 0
        /\ derived = None /\ result = None
        /\ fm = FmWiped /\ ma = "prompt" /\ cm = CmWiped /\ rt = RtWiped /\ gn = GnReset
        /\ screenGen = 0
        /\ Store!Init

-----------------------------------------------------------------------------
(* The main thread. *)

Goto(label) == pc' = label

\* back to the top of the loop; the locals of the pass go out of scope
EndPass == /\ pc' = "top"
           /\ line' = None /\ derived' = None /\ result' = None

\* in the switch of App_Run, in a pass that just entered the state
Entering(s) == pc = "switch" /\ st = s /\ ent
\* in the Run function of a mode
Running(s) == st = s /\ (pc = "run" \/ (pc = "switch" /\ ~ent))

\* USART_Drv_TakeLine: the line is handed over and the receiver starts again
TakeLine == rx # None /\ line' = rx /\ rx' = None

\* a mode ended: App_Run sets g_state when the Run function has returned
Leave == Goto("leave")

-----------------------------------------------------------------------------
(* The environment. *)

\* mutant: no critical section
MaskNothing == FALSE

\* interrupts are disabled: SaveEntry's critical section
Masked == pc \in {"gnCommit", "gnWrite", "gnVerify"}

\* a line ended by Enter has been received; typing ahead of an unread line
\* finds the receiver stopped
Type == /\ rx = None
        /\ rx' \in Lines
        /\ UNCHANGED <<pc, screenGen, appVars, sesVars, callVars, modeVars, storeVars>>

WipeOnPanic ==
  /\ ~Masked
  /\ gen < MaxPanics
  /\ gen' = gen + 1 /\ authd' = FALSE /\ skey' = None
  /\ rt' = [rt EXCEPT !.table = EmptyTable]
  /\ fm' = FmWiped
  /\ ma' = "prompt"
  /\ cm' = CmWiped
  /\ gn' = [GnClear(gn) EXCEPT !.wiped = TRUE]
  /\ rx' = None
  /\ UNCHANGED <<pc, screenGen, st, ent, prev, opgen, callVars, storeVars>>

\* mutant: g_state is not reset
PanicWithoutReset == WipeOnPanic /\ UNCHANGED g

\* App_PanicHandler, in the EXTI interrupt
Panic == WipeOnPanic /\ g' = "INIT"

\* the power is cut: RAM is lost, the partition store is durable
PowerLoss ==
  /\ PowerFails
  /\ pc' = "top"
  /\ g' = "INIT" /\ st' = "INIT" /\ ent' = FALSE /\ prev' = "INIT"
  /\ rx' = None /\ line' = None
  /\ skey' = None /\ authd' = FALSE /\ gen' = 0 /\ opgen' = 0
  /\ derived' = None /\ result' = None
  /\ fm' = FmWiped /\ ma' = "prompt" /\ cm' = CmWiped /\ rt' = RtWiped /\ gn' = GnReset
  /\ screenGen' = 0
  /\ Store!PowerLoss
=============================================================================
