---------------------------- MODULE BoardMemory ----------------------------
(***************************************************************************)
(* What the board (TracedBoard) and the tools that look at it              *)
(* (TraceCommon) share: the constants, the two partitions, an entry, the   *)
(* digits of an id, and the breakpoints gdb is given.                      *)
(***************************************************************************)
EXTENDS Naturals, Sequences, FiniteSets

CONSTANTS
    None,         \* no value: a key wiped to zero, a dead local, Python's None
    Garbage,      \* the bytes of a local nothing was written to
    Keys,         \* master keys that satisfy the policy
    Entries,      \* PWD_TABLE_MAX_ENTRIES
    WindowSize,   \* entries a tool shows at once, WINDOW_SIZE
    Typed,        \* lines typed at the id prompt, sequences of characters
    Ids,          \* ids typed for a new entry, below Entries
    Threshold,    \* s_reject_threshold, and
    CharsetLen,   \* s_charset_len, of the charset chosen
    MaxDraw,      \* the largest value a draw can have
    Length,       \* s_length
    TableWords,   \* words of a partition's table
    MaxRuns,      \* bound: operations the user starts
    MaxPanics     \* bound: presses of the panic button

\* There is a key that satisfies the policy; a window shows a part of the table
\* (10 entries of 31); an id typed for an entry is one of the table; a table
\* has words; a line typed is a sequence of characters.
ASSUME BoardAssumption ==
    /\ Keys # {}
    /\ Entries \in Nat /\ WindowSize \in 1..Entries
    /\ Ids \subseteq 0..Entries - 1
    /\ TableWords \in Nat \ {0}
    /\ Typed \subseteq Seq(STRING)

\* g_state.
AppStates ==
    {"INIT", "FIRST_MEET", "MK_AUTH", "MODE_SELECTION", "CHANGE_MK", "RETRIEVE", "GENERATE"}

\* No value is no state, no number, no key and none that is derived from a key.
ASSUME NoneAssumption == None \notin AppStates \union Nat \union Keys \union (Keys \X Nat)

Sectors == {2, 3}
Blank == [name |-> 0, pwd |-> <<>>]
Digits == {"0", "1", "2", "3"}
Digit == [c \in Digits |-> CHOOSE n \in 0..3 : <<"0", "1", "2", "3">>[n + 1] = c]

\* The second check of ReadSlot.  The CRC of a table that is not whole never fits.
ValidateCrc(p) == p.words = TableWords

(* Breakpoints: a line, and the condition gdb was given for it.            *)

Breakpoint(loc) == [loc |-> loc, st |-> None, sector |-> None]
OnlyIn(loc, st) == [Breakpoint(loc) EXCEPT !.st = st]
=============================================================================
