---------------------------- MODULE TracedBoard ----------------------------
(***************************************************************************)
(* The board as tools/*_trace*.py see it: the firmware's memory, and the   *)
(* lines their breakpoint tables name as the places where the core can     *)
(* stop.  The state is one record m, which is what gdb reads; the core is  *)
(* about to run the line m.loc, and stops there when a breakpoint whose    *)
(* condition holds is armed on it.  The panic interrupt comes between any  *)
(* two lines at which it is not masked, but never while the core is        *)
(* halted.  The modes themselves, with their finer steps, are modelled in  *)
(* Runeit; here a mode goes from one line of the tables to the next.       *)
(***************************************************************************)
EXTENDS BoardMemory, SequencesExt

VARIABLES m, halted, stepping, armed

boardVars == <<m, halted, stepping, armed>>

BlankTable == [i \in 0..Entries - 1 |-> Blank]

Erased == [magic |-> "erased", version |-> 0, auth |-> None, table |-> BlankTable, words |-> 0]

\* ReadSlot's two checks.
Valid(p) == p.magic = "magic" /\ ValidateCrc(p)

\* Partition_Store_Init: the newest valid slot, A on a tie, 0 for none.
Newest(flash) ==
    IF Valid(flash[2]) /\ (Valid(flash[3]) => flash[2].version >= flash[3].version)
      THEN 2
      ELSE IF Valid(flash[3]) THEN 3 ELSE 0

\* The memory after a reset, HandleInit's choice of the first screen included.
Boot(flash, runs, panics) ==
    [g_state |-> IF Newest(flash) = 0 THEN "FIRST_MEET" ELSE "MK_AUTH",
     s_authorized |-> FALSE, s_key |-> None, s_active |-> Newest(flash), flash |-> flash,
     loc |-> "idle", mode |-> None, s_new |-> None, line |-> None, table |-> BlankTable,
     mk |-> None, salt |-> None, derived |-> None, result |-> None, target |-> None,
     cancelled |-> FALSE, id |-> 0, name |-> 0, rounds |-> 0, value |-> 0, pwd |-> <<>>,
     printed |-> None, runs |-> runs, panics |-> panics]

StateNeedsSession(st) == st \notin {"INIT", "FIRST_MEET", "MK_AUTH"}

-----------------------------------------------------------------------------
(* A step of the core, from one line to the next.                          *)

Stops(x) ==
    \E b \in armed :
        /\ b.loc = x.loc
        /\ b.st \in {None, x.g_state}
        /\ b.sector \in {None, x.target}

Runs(loc) == ~halted /\ m.loc = loc

\* The core goes on until it is at x.loc.  A "next" steps over calls, so that
\* it does not end inside the write of a commit.
Goes(x) ==
    /\ m' = x
    /\ halted' = (Stops(x) \/ (stepping /\ x.loc # "flash72"))
    /\ UNCHANGED <<stepping, armed>>

\* A mode's handler returns to App_Run; what was local to it is gone, and so
\* are the buffers it wipes.
Returns(x) ==
    Goes([x EXCEPT !.loc = "idle", !.mode = None, !.mk = None, !.salt = None,
                   !.derived = None, !.result = None, !.target = None, !.line = None,
                   !.printed = None, !.cancelled = FALSE, !.value = 0])

\* The user does something at a screen of the state st.
Starts(st) ==
    /\ Runs("idle") /\ m.g_state = st
    /\ StateNeedsSession(st) => m.s_authorized
    /\ m.runs < MaxRuns

Started(st) == [m EXCEPT !.g_state = st, !.mode = st, !.runs = @ + 1]

(***************************************************************************)
(* The main loop and the login: app.c, session.c 126-164.                  *)
(***************************************************************************)
\* HandleInit, also after the guard of App_Run found no session.
InitRuns ==
    /\ Runs("idle")
    /\ m.g_state = "INIT" \/ (StateNeedsSession(m.g_state) /\ ~m.s_authorized)
    /\ Goes([m EXCEPT !.g_state = IF m.s_active = 0 THEN "FIRST_MEET" ELSE "MK_AUTH"])

LoginLine ==
    /\ Starts("MK_AUTH")
    /\ \E k \in Keys : Goes([Started("MK_AUTH") EXCEPT !.loc = "auth", !.mk = k])

\* To the end of Kdf_DeriveKeys, or out of it when the derivation is given up.
\* A panic before the generation is read leaves no trace in it.
Authenticate ==
    /\ Runs("auth")
    /\ LET salt == m.flash[m.s_active].auth[2] IN
        \/ \E seen \in {FALSE, m.cancelled} :
             Goes([m EXCEPT !.loc = "kdf78", !.salt = salt, !.derived = <<m.mk, salt>>,
                            !.cancelled = seen])
        \/ /\ m.cancelled
           /\ Goes([m EXCEPT !.loc = "session161", !.salt = salt, !.derived = Garbage,
                             !.result = "CANCELLED"])

\* The comparison, and OpenIfCurrent.
Compare ==
    /\ Runs("kdf78") /\ m.mode = "MK_AUTH"
    /\ LET at == [m EXCEPT !.loc = "session161"] IN
        IF m.derived # m.flash[m.s_active].auth
          THEN Goes([at EXCEPT !.result = "WRONG_KEY"])
          ELSE IF m.cancelled
            THEN Goes([at EXCEPT !.result = "CANCELLED"])
            ELSE Goes([at EXCEPT !.result = "OK", !.s_key = m.derived, !.s_authorized = TRUE])

LoginReturns ==
    /\ Runs("session161")
    /\ IF m.result = "OK" THEN Goes([m EXCEPT !.loc = "app167"]) ELSE Returns(m)

\* app.c:167 and app.c:153: whatever happened in between, the menu is next.
EnterMenu ==
    /\ Runs("app167") \/ Runs("app153")
    /\ Returns([m EXCEPT !.g_state = "MODE_SELECTION"])

(***************************************************************************)
(* Session_SetNewKey and the two modes that call it.                       *)
(***************************************************************************)
\* Both entries of the key, up to the comparison of the second one.
Confirm(loc, st) ==
    \E k \in Keys, c \in Keys \union {None} :
        Goes([Started(st) EXCEPT !.loc = loc, !.s_new = k, !.line = c])

FirstMeetLines == Starts("FIRST_MEET") /\ Confirm("first63", "FIRST_MEET")

ChangeLines ==
    /\ Starts("MODE_SELECTION") \/ Starts("CHANGE_MK")
    /\ Confirm("change87", "CHANGE_MK")

ChangeCancelled ==
    /\ Starts("MODE_SELECTION")
    /\ Goes([Started("CHANGE_MK") EXCEPT !.loc = "app211"])

EntriesMatch(x) == x.line = x.s_new /\ x.s_new # None

FirstMeetConfirm ==
    /\ Runs("first63")
    /\ IF EntriesMatch(m) THEN Goes([m EXCEPT !.loc = "setNewKey"])
                          ELSE Returns([m EXCEPT !.s_new = None])

\* Session_LoadTable fails when a panic has closed the session.  (One that comes
\* inside it may leave it to succeed; then setNewKey refuses the wiped key, and
\* the mode ends as after a failure.)
ChangeConfirm ==
    /\ Runs("change87")
    /\ IF ~EntriesMatch(m) THEN Returns([m EXCEPT !.s_new = None])
       ELSE IF m.s_key = None THEN Goes([m EXCEPT !.loc = "app211"])
       ELSE Goes([m EXCEPT !.loc = "change66", !.table = m.flash[m.s_active].table])

ChangeApply == Runs("change66") /\ Goes([m EXCEPT !.loc = "setNewKey"])

\* The policy check, a fresh salt, and the generation.  A key that a panic
\* wiped no longer satisfies the policy.
SetNewKey ==
    /\ Runs("setNewKey")
    /\ IF m.s_new = None
         THEN IF m.mode = "CHANGE_MK" THEN Goes([m EXCEPT !.loc = "app211"]) ELSE Returns(m)
         ELSE Goes([m EXCEPT !.loc = "deriving", !.cancelled = FALSE, !.salt = m.runs,
                             !.mk = m.s_new])

DeriveNew ==
    /\ Runs("deriving")
    /\ \/ Goes([m EXCEPT !.loc = "kdf78", !.derived = <<m.mk, m.salt>>])
       \/ /\ m.cancelled
          /\ Goes([m EXCEPT !.loc = "session202", !.derived = Garbage,
                            !.result = "CANCELLED"])

CommitTarget(x) == IF x.s_active = 2 THEN 3 ELSE 2

NewVersion(x) == IF x.s_active = 0 THEN 1 ELSE x.flash[x.s_active].version + 1

\* Partition_Store_Commit as far as it has come: the header, then the words.
Writing(x, owner, words) ==
    [magic |-> "magic", version |-> NewVersion(x), auth |-> owner,
     table |-> x.table, words |-> words]

\* The generation is read once more, then the inactive slot is erased and
\* written, header first, as far as the word a breakpoint could count to.
CommitBegins(word) ==
    /\ Runs("kdf78") /\ m.mode # "MK_AUTH"
    /\ IF m.cancelled
         THEN Goes([m EXCEPT !.loc = "session202", !.result = "CANCELLED"])
         ELSE LET t == CommitTarget(m) IN
              Goes([m EXCEPT !.loc = "flash72", !.target = t,
                             !.flash[t] = Writing(m, m.derived, word + 1)])

\* The rest of the words, the read-back, and OpenIfCurrent.  A write or an
\* erase that failed is seen by the read-back, and the old slot stays active.
CommitEnds ==
    /\ Runs("flash72") /\ m.mode # "GENERATE"
    /\ \/ Goes([m EXCEPT !.loc = "session202", !.result = "STORAGE_ERROR",
                         !.flash[m.target] = [@ EXCEPT !.words = 0]])
       \/ LET done == [m EXCEPT !.loc = "session202", !.s_active = m.target,
                                !.flash[m.target] = [@ EXCEPT !.words = TableWords]] IN
          IF m.cancelled
            THEN Goes([done EXCEPT !.result = "CANCELLED"])
            ELSE Goes([done EXCEPT !.result = "OK", !.s_key = m.derived,
                                   !.s_authorized = TRUE])

SetReturns ==
    /\ Runs("session202")
    /\ LET wiped == [m EXCEPT !.s_new = None, !.table = BlankTable] IN
       CASE m.mode = "CHANGE_MK" -> Goes([wiped EXCEPT !.loc = "app211"])
         [] m.mode = "FIRST_MEET" /\ m.result = "OK" -> Goes([wiped EXCEPT !.loc = "app153"])
         [] OTHER -> Returns(wiped)

\* app.c:211, reached on every end of the mode.
ChangeDone ==
    /\ Runs("app211")
    /\ Returns([m EXCEPT !.g_state = "MODE_SELECTION", !.s_new = None, !.table = BlankTable])

(***************************************************************************)
(* mode_retrieve.c.                                                        *)
(***************************************************************************)
RetrieveChosen ==
    /\ Starts("MODE_SELECTION")
    /\ Goes([Started("RETRIEVE") EXCEPT !.loc = "retEnter"])

\* Session_LoadTable copies the key and then decrypts: a panic in between stops
\* it no more, and one that comes later empties the table it has filled.
RetrieveLoads ==
    /\ Runs("retEnter")
    /\ \/ m.s_key = None /\ Returns([m EXCEPT !.g_state = "INIT"])
       \/ /\ m.s_key # None \/ m.cancelled
          /\ \E t \in {m.flash[m.s_active].table} \union
                     (IF m.cancelled THEN {BlankTable} ELSE {}) :
               Goes([m EXCEPT !.loc = "ret34", !.table = t])

RetrieveEntered == Runs("ret34") /\ Returns(m)

RetrieveLine ==
    /\ Starts("RETRIEVE")
    /\ \E l \in Typed : Goes([Started("RETRIEVE") EXCEPT !.loc = "ret80", !.line = l])

Leaves(line) == line = <<>> \/ line[1] \in {"q", "Q"}

\* ParseId: spaces, then one or two digits and nothing else; Entries if not.
ParseId(line) ==
    LET spaces == CHOOSE n \in 0..Len(line) :
                    /\ \A i \in 1..n : line[i] = " "
                    /\ n < Len(line) => line[n + 1] # " "
        number == SubSeq(line, spaces + 1, Len(line))
    IN  IF Len(number) \in {1, 2} /\ \A i \in 1..Len(number) : number[i] \in Digits
          THEN FoldLeft(LAMBDA v, c : 10 * v + Digit[c], 0, number)
          ELSE Entries

RetrieveTakes ==
    /\ Runs("ret80")
    /\ IF Leaves(m.line)
         THEN Returns([m EXCEPT !.g_state = "MODE_SELECTION", !.table = BlankTable])
         ELSE Goes([m EXCEPT !.loc = "printed",
                    !.printed = IF ParseId(m.line) < Entries THEN m.table[ParseId(m.line)]
                                                             ELSE None])

\* A panic may still come between ShowEntry and line 88.
RetrievePrinted == Runs("printed") /\ Goes([m EXCEPT !.loc = "ret88"])

RetrieveShown == Runs("ret88") /\ Returns(m)

(***************************************************************************)
(* mode_generate.c, from the last prompt on.  The run's number stands for  *)
(* the name typed.  A panic empties the pool and the samples, so that the  *)
(* mode ends at the next line.                                             *)
(***************************************************************************)
GenerateLines ==
    /\ Starts("MODE_SELECTION")
    /\ \E i \in Ids :
        Goes([Started("GENERATE") EXCEPT
                !.loc = "gen370", !.id = i, !.name = m.runs + 1, !.rounds = 1, !.pwd = <<>>,
                !.table = m.flash[m.s_active].table])

Wiped == m.cancelled

\* A round that fails ends the mode, and a panic ends it at the next line.
GenerateGivenUp ==
    /\ Runs("gen370") \/ Runs("gen386") \/ (Runs("gen216") /\ Wiped)
    /\ \E st \in {m.g_state, "MODE_SELECTION"} :
        /\ m.loc = "gen216" => st = m.g_state
        /\ ~Wiped => st = "MODE_SELECTION"
        /\ Returns([m EXCEPT !.table = BlankTable, !.pwd = <<>>, !.g_state = st])

AbsorbTemp == Runs("gen370") /\ ~Wiped /\ Goes([m EXCEPT !.loc = "gen386"])

\* ProduceChars: the next draw, or another round for want of bits.
Draws(x) ==
    IF Len(x.pwd) = Length
      THEN Goes([x EXCEPT !.loc = "gen424"])
      ELSE \/ \E v \in 0..MaxDraw : Goes([x EXCEPT !.loc = "gen216", !.value = v])
           \/ x.rounds < 2 /\ Goes([x EXCEPT !.loc = "gen370", !.rounds = @ + 1])

AbsorbLight == Runs("gen386") /\ ~Wiped /\ Draws(m)

MapChar ==
    /\ Runs("gen216") /\ ~Wiped
    /\ Draws(IF m.value < Threshold
               THEN [m EXCEPT !.pwd = Append(@, m.value % CharsetLen)] ELSE m)

\* Session_Save, with the interrupts masked from before this line to line 428.
SaveBegins(word) ==
    /\ Runs("gen424")
    /\ LET t  == CommitTarget(m)
           to == [m EXCEPT !.table[m.id] = [name |-> m.name, pwd |-> m.pwd]]
       IN  Goes([to EXCEPT !.loc = "flash72", !.target = t,
                           !.flash[t] = Writing(to, m.flash[m.s_active].auth, word + 1)])

SaveEnds ==
    /\ Runs("flash72") /\ m.mode = "GENERATE"
    /\ LET at == [m EXCEPT !.loc = "gen428"] IN
        \/ Goes([at EXCEPT !.s_active = m.target, !.result = "saved",
                           !.flash[m.target] = [@ EXCEPT !.words = TableWords]])
        \/ Goes([at EXCEPT !.result = "failed", !.flash[m.target] = [@ EXCEPT !.words = 0]])

GenerateReturns ==
    /\ Runs("gen428")
    /\ Returns([m EXCEPT !.g_state = "MODE_SELECTION", !.table = BlankTable, !.pwd = <<>>])

(***************************************************************************)
(* The panic interrupt, and the loss of the power.                         *)
(***************************************************************************)
Masked == m.mode = "GENERATE" /\ m.loc \in {"gen424", "flash72", "gen428"}

Panic ==
    /\ ~halted /\ ~Masked /\ m.panics < MaxPanics
    /\ m' = [m EXCEPT !.g_state = "INIT", !.s_authorized = FALSE, !.s_key = None,
                      !.s_new = None, !.table = BlankTable, !.pwd = <<>>,
                      !.cancelled = (m.loc # "idle"), !.panics = @ + 1]
    /\ UNCHANGED <<halted, stepping, armed>>

\* The cable is the board's supply: it boots, and the comparators are gone.
Unplug ==
    /\ m' = Boot(m.flash, m.runs, m.panics)
    /\ halted' = FALSE /\ stepping' = FALSE /\ armed' = {}

-----------------------------------------------------------------------------
MainLoop == InitRuns \/ LoginLine \/ Authenticate \/ Compare \/ LoginReturns \/ EnterMenu

SetKey(word) ==
    \/ FirstMeetLines \/ FirstMeetConfirm \/ ChangeLines \/ ChangeCancelled
    \/ ChangeConfirm \/ ChangeApply \/ SetNewKey \/ DeriveNew \/ CommitBegins(word)
    \/ CommitEnds \/ SetReturns \/ ChangeDone

Retrieve ==
    RetrieveChosen \/ RetrieveLoads \/ RetrieveEntered \/ RetrieveLine \/ RetrieveTakes
    \/ RetrievePrinted \/ RetrieveShown

Generate(word) ==
    \/ GenerateLines \/ GenerateGivenUp \/ AbsorbTemp \/ AbsorbLight \/ MapChar
    \/ SaveBegins(word) \/ SaveEnds \/ GenerateReturns
=============================================================================
