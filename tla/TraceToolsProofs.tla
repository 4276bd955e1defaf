-------------------------- MODULE TraceToolsProofs --------------------------
(***************************************************************************)
(* What the screens of the trace tools promise, proved of TraceTools for   *)
(* any number of runs and panics, any keys, entries and power-loss words,  *)
(* and every tool.  The inductive invariant IInv has three parts: BoardInv *)
(* says what the memory holds at each line of the firmware, Control what   *)
(* the breakpoints and a "next" let the core do, and ToolInv what each     *)
(* dictionary holds at the lines its handlers stop at.                     *)
(***************************************************************************)
EXTENDS TraceTools, WellFoundedInduction, TLAPS

(* The strengthening, part 1: the board.                                    *)

\* What a key derives, one for each salt.
Auths == Keys \X Nat

Fields ==
  {"g_state", "s_authorized", "s_key", "s_active", "flash", "loc", "mode", "s_new", "line",
   "table", "mk", "salt", "derived", "result", "target", "cancelled", "id", "name", "rounds",
   "value", "pwd", "printed", "runs", "panics"}

\* A table, and a partition, whose names were typed in the first n runs.
IsTable(t, n) == DOMAIN t = 0..Entries - 1 /\ \A i \in 0..Entries - 1 : t[i].name \in 0..n

IsSlot(p, n) ==
  /\ DOMAIN p = {"magic", "version", "auth", "table", "words"}
  /\ p.version \in Nat /\ p.auth \in Auths \cup {None} /\ IsTable(p.table, n)
  /\ p.magic = "magic" => p.auth \in Auths

\* The types of the fields.
Types ==
  /\ DOMAIN m = Fields /\ DOMAIN m.flash = Sectors
  /\ \A s \in Sectors : IsSlot(m.flash[s], m.runs)
  /\ IsTable(m.table, m.runs)
  /\ m.s_active \in {0} \cup Sectors
  /\ m.runs \in Nat
  /\ m.s_new \in Keys \cup {None}
  /\ m.s_authorized \in BOOLEAN /\ m.cancelled \in BOOLEAN

\* The lines of each mode.  A panic changes the state under a mode, to INIT.
Places ==
  /\ m.loc \in {"auth", "session161", "app167"} => m.mode = "MK_AUTH"
  /\ m.loc \in {"first63", "app153"} => m.mode = "FIRST_MEET"
  /\ m.loc \in {"change87", "change66", "app211"} => m.mode = "CHANGE_MK"
  /\ m.loc \in {"setNewKey", "deriving", "session202"} => m.mode \in {"FIRST_MEET", "CHANGE_MK"}
  /\ m.loc = "kdf78" => m.mode \in {"MK_AUTH", "FIRST_MEET", "CHANGE_MK"}
  /\ m.loc = "flash72" => m.mode \in {"FIRST_MEET", "CHANGE_MK", "GENERATE"}
  /\ m.loc \in {"retEnter", "ret34", "ret80", "printed", "ret88"} => m.mode = "RETRIEVE"
  /\ m.loc \in {"gen370", "gen386", "gen216", "gen424", "gen428"} => m.mode = "GENERATE"
  /\ m.loc # "idle" => m.g_state \in {m.mode, "INIT"}

\* The lines from the two entries of a new key to the end of its commit.
KeyLines == {"change87", "change66", "setNewKey", "deriving", "kdf78", "flash72"}

\* A session is open with the key of the active partition; only the first key
\* is set without one; a panic that a mode has not yet seen has closed it.
Sessions ==
  /\ m.s_authorized <=> m.s_key # None
  /\ m.s_key # None => m.s_active # 0 /\ m.s_key = m.flash[m.s_active].auth
  /\ m.s_active # 0 => m.flash[m.s_active].auth \in Auths
  /\ m.s_active = 0 => ~ Valid(m.flash[3])
  /\ m.cancelled => m.s_key = None /\ m.g_state = "INIT" /\ m.loc # "idle"
  /\ m.g_state \in {"MK_AUTH", "RETRIEVE"} => m.s_active # 0
  /\ m.loc # "idle" /\ m.mode # "FIRST_MEET" => m.s_active # 0
  /\ m.g_state = "CHANGE_MK" /\ m.loc \in KeyLines => m.s_key # None

\* What a derivation has computed, and what OK means of it.
Keying ==
  /\ m.loc = "auth" => m.mk \in Keys
  /\ m.loc = "deriving" => m.mk \in Keys /\ m.salt \in Nat
  /\ m.loc = "kdf78" => m.derived \in Auths /\ m.derived = <<m.mk, m.salt>>
  /\ m.loc = "session161" =>
       /\ m.derived \in {<<m.mk, m.salt>>, Garbage}
       /\ m.result = "OK" => m.derived = m.flash[m.s_active].auth
  /\ m.loc = "session202" /\ m.result = "OK" =>
       m.s_active # 0 /\ m.derived = m.flash[m.s_active].auth
  /\ m.loc \in {"first63", "change87"} /\ m.g_state # "INIT" => m.s_new \in Keys

\* The image that is being written: newer than the active one, under the key
\* derived or, of a save, under the same key and with the entry in it.
Committing ==
  m.loc = "flash72" =>
    /\ m.target = CommitTarget(m)
    /\ m.flash[m.target].version = NewVersion(m) /\ m.flash[m.target].magic = "magic"
    /\ IF m.mode = "GENERATE"
         THEN /\ m.flash[m.target].auth = m.flash[m.s_active].auth
              /\ m.flash[m.target].table[m.id] = [name |-> m.name, pwd |-> m.pwd]
         ELSE m.derived \in Auths /\ m.flash[m.target].auth = m.derived

\* The name typed in a run is in no partition before the run's save, and in the
\* active one after it if and only if it succeeded.
Naming ==
  /\ m.loc \in {"gen370", "gen386", "gen216", "gen424"} =>
       /\ m.name = m.runs /\ m.id \in 0..Entries - 1
       /\ \A s \in Sectors, i \in 0..Entries - 1 : m.flash[s].table[i].name < m.runs
  /\ m.loc = "flash72" /\ m.mode = "GENERATE" =>
       /\ m.name = m.runs /\ m.id \in 0..Entries - 1
       /\ \A i \in 0..Entries - 1 : m.flash[m.s_active].table[i].name < m.runs
  /\ m.loc = "gen428" =>
       /\ m.id \in 0..Entries - 1
       /\ m.result = "saved" =>
            m.flash[m.s_active].table[m.id] = [name |-> m.name, pwd |-> m.pwd]
       /\ m.result # "saved" => m.flash[m.s_active].table[m.id].name < m.name

\* The table of a retrieval is that of the active partition, or from the input on
\* the blank one a panic left, and the entry printed is the one of the id.
Reading ==
  /\ m.g_state = "RETRIEVE" /\ m.loc # "retEnter" => m.table = m.flash[m.s_active].table
  /\ m.g_state = "INIT" /\ m.loc \in {"ret80", "printed", "ret88"} => m.table = BlankTable
  /\ m.g_state = "INIT" /\ m.loc = "retEnter" => m.s_key = None
  /\ m.loc \in {"ret80", "printed", "ret88"} => m.line \in Typed
  /\ m.loc \in {"printed", "ret88"} =>
       /\ ParseId(m.line) >= Entries => m.printed = None
       /\ ParseId(m.line) < Entries /\ m.g_state = "RETRIEVE" =>
            m.printed = m.table[ParseId(m.line)]

BoardInv == Types /\ Places /\ Sessions /\ Keying /\ Committing /\ Naming /\ Reading

-----------------------------------------------------------------------------
(* What each step of the board does to the record m, field by field.        *)


\* the step changes no field but these
Only(F) == DOMAIN m' = Fields /\ \A f \in Fields \ F : m'[f] = m[f]

From(from, to) == m.loc = from /\ m'.loc = to

\* a mode begins
Begins(st) ==
  m.loc = "idle" /\ m'.g_state = st /\ m'.mode = st /\ m'.runs = m.runs + 1

BeginsIn == {"loc", "g_state", "mode", "runs"}

\* a mode ends
Ends ==
  m'.loc = "idle" /\ m'.mode = None /\ m'.cancelled = FALSE

EndsIn == {"loc", "mode", "mk", "salt", "derived", "result", "target", "line", "printed",
           "cancelled", "value"}

\* two records with the fields of m that agree on each of them
LEMMA ReturnsDoes ==
  ASSUME NEW x, DOMAIN x = Fields, Returns(x)
  PROVE  /\ Ends /\ DOMAIN m' = Fields
         /\ \A f \in Fields \ EndsIn : m'[f] = x[f]
BY DEF Returns, Goes, Ends, EndsIn, Fields

LEMMA InitRunsDoes ==
  ASSUME DOMAIN m = Fields, InitRuns
  PROVE  /\ From("idle", "idle") /\ Only({"g_state"})
         /\ m'.g_state = IF m.s_active = 0 THEN "FIRST_MEET" ELSE "MK_AUTH"
BY DEF InitRuns, Runs, Goes, Only, From, Fields

LEMMA LoginLineDoes ==
  ASSUME DOMAIN m = Fields, LoginLine
  PROVE  /\ m.g_state = "MK_AUTH" /\ Begins("MK_AUTH") /\ m'.loc = "auth"
         /\ Only(BeginsIn \cup {"mk"}) /\ m'.mk \in Keys
BY DEF LoginLine, Starts, Started, Runs, Goes, Only, Begins, BeginsIn, Fields

LEMMA AuthenticateDoes ==
  ASSUME DOMAIN m = Fields, Authenticate
  PROVE  /\ m.loc = "auth" /\ m'.salt = m.flash[m.s_active].auth[2]
         /\ \/ /\ m'.loc = "kdf78" /\ Only({"loc", "salt", "derived", "cancelled"})
               /\ m'.derived = <<m.mk, m'.salt>> /\ m'.cancelled \in {FALSE, m.cancelled}
            \/ /\ m.cancelled /\ m'.loc = "session161" /\ Only({"loc", "salt", "derived", "result"})
               /\ m'.derived = Garbage /\ m'.result = "CANCELLED"
<1> DEFINE salt == m.flash[m.s_active].auth[2]
<1>1. m.loc = "auth"
  BY DEF Authenticate, Runs
<1>2. ASSUME NEW seen \in {FALSE, m.cancelled},
             Goes([m EXCEPT !.loc = "kdf78", !.salt = salt, !.derived = <<m.mk, salt>>,
                            !.cancelled = seen])
      PROVE  /\ m'.loc = "kdf78" /\ Only({"loc", "salt", "derived", "cancelled"})
             /\ m'.salt = salt /\ m'.derived = <<m.mk, m'.salt>> /\ m'.cancelled = seen
  <2> HIDE DEF salt
  <2> QED BY <1>2 DEF Goes, Only, Fields
<1>3. ASSUME Goes([m EXCEPT !.loc = "session161", !.salt = salt, !.derived = Garbage,
                            !.result = "CANCELLED"])
      PROVE  /\ m'.loc = "session161" /\ Only({"loc", "salt", "derived", "result"})
             /\ m'.salt = salt /\ m'.derived = Garbage /\ m'.result = "CANCELLED"
  <2> HIDE DEF salt
  <2> QED BY <1>3 DEF Goes, Only, Fields
<1> QED BY <1>1, <1>2, <1>3 DEF Authenticate

LEMMA CompareDoes ==
  ASSUME DOMAIN m = Fields, Compare
  PROVE  /\ From("kdf78", "session161") /\ m.mode = "MK_AUTH"
         /\ Only({"loc", "result", "s_key", "s_authorized"})
         /\ IF m.derived = m.flash[m.s_active].auth /\ ~ m.cancelled
              THEN m'.result = "OK" /\ m'.s_key = m.derived /\ m'.s_authorized = TRUE
              ELSE /\ m'.result \in {"WRONG_KEY", "CANCELLED"}
                   /\ m'.s_key = m.s_key /\ m'.s_authorized = m.s_authorized
<1>1. CASE m.derived # m.flash[m.s_active].auth
  BY <1>1 DEF Compare, Runs, Goes, Only, From, Fields
<1>2. CASE m.derived = m.flash[m.s_active].auth /\ m.cancelled
  BY <1>2 DEF Compare, Runs, Goes, Only, From, Fields
<1>3. CASE m.derived = m.flash[m.s_active].auth /\ ~ m.cancelled
  BY <1>3 DEF Compare, Runs, Goes, Only, From, Fields
<1> QED BY <1>1, <1>2, <1>3

LEMMA LoginReturnsDoes ==
  ASSUME DOMAIN m = Fields, LoginReturns
  PROVE  /\ m.loc = "session161"
         /\ IF m.result = "OK" THEN m'.loc = "app167" /\ Only({"loc"})
                               ELSE Ends /\ Only(EndsIn)
<1>1. CASE m.result = "OK"
  BY <1>1 DEF LoginReturns, Runs, Goes, Only, Fields
<1>2. CASE m.result # "OK"
  <2>1. m.loc = "session161" /\ Returns(m)
    BY <1>2 DEF LoginReturns, Runs
  <2> QED BY <1>2, <2>1, ReturnsDoes DEF Only
<1> QED BY <1>1, <1>2

LEMMA EnterMenuDoes ==
  ASSUME DOMAIN m = Fields, EnterMenu
  PROVE  /\ m.loc \in {"app167", "app153"} /\ Ends /\ Only(EndsIn \cup {"g_state"})
         /\ m'.g_state = "MODE_SELECTION"
<1> DEFINE x == [m EXCEPT !.g_state = "MODE_SELECTION"]
<1>1. m.loc \in {"app167", "app153"} /\ Returns(x)
  BY DEF EnterMenu, Runs
<1>2. DOMAIN x = Fields /\ x.g_state = "MODE_SELECTION" /\ \A f \in Fields \ {"g_state"} : x[f] = m[f]
  BY DEF Fields
<1> HIDE DEF x
<1> QED BY <1>1, <1>2, ReturnsDoes DEF Only, EndsIn, Fields

LEMMA ConfirmDoes ==
  ASSUME DOMAIN m = Fields, NEW loc, NEW st, m.loc = "idle", Confirm(loc, st)
  PROVE  /\ Begins(st) /\ m'.loc = loc
         /\ Only(BeginsIn \cup {"s_new", "line"})
         /\ m'.s_new \in Keys
BY DEF Confirm, Started, Goes, Only, Begins, BeginsIn, Fields

LEMMA FirstMeetLinesDoes ==
  ASSUME DOMAIN m = Fields, FirstMeetLines
  PROVE  /\ m.g_state = "FIRST_MEET" /\ Begins("FIRST_MEET") /\ m'.loc = "first63"
         /\ Only(BeginsIn \cup {"s_new", "line"}) /\ m'.s_new \in Keys
BY ConfirmDoes DEF FirstMeetLines, Starts, Runs

LEMMA ChangeLinesDoes ==
  ASSUME DOMAIN m = Fields, ChangeLines
  PROVE  /\ m.g_state \in {"MODE_SELECTION", "CHANGE_MK"} /\ m.s_authorized
         /\ Begins("CHANGE_MK") /\ m'.loc = "change87"
         /\ Only(BeginsIn \cup {"s_new", "line"}) /\ m'.s_new \in Keys
BY ConfirmDoes DEF ChangeLines, Starts, Runs, StateNeedsSession

LEMMA ChangeCancelledDoes ==
  ASSUME DOMAIN m = Fields, ChangeCancelled
  PROVE  /\ m.s_authorized /\ Begins("CHANGE_MK") /\ m'.loc = "app211" /\ Only(BeginsIn)
BY DEF ChangeCancelled, Starts, Started, Runs, StateNeedsSession, Goes, Only, Begins, BeginsIn, Fields

LEMMA FirstMeetConfirmDoes ==
  ASSUME DOMAIN m = Fields, FirstMeetConfirm
  PROVE  /\ m.loc = "first63"
         /\ IF EntriesMatch(m) THEN m'.loc = "setNewKey" /\ Only({"loc"})
                               ELSE Ends /\ Only(EndsIn \cup {"s_new"}) /\ m'.s_new = None
<1>1. CASE EntriesMatch(m)
  BY <1>1 DEF FirstMeetConfirm, Runs, Goes, Only, Fields
<1>2. CASE ~ EntriesMatch(m)
  <2> DEFINE x == [m EXCEPT !.s_new = None]
  <2>1. m.loc = "first63" /\ Returns(x)
    BY <1>2 DEF FirstMeetConfirm, Runs
  <2>2. DOMAIN x = Fields /\ x.s_new = None /\ \A f \in Fields \ {"s_new"} : x[f] = m[f]
    BY DEF Fields
  <2> HIDE DEF x
  <2> QED BY <1>2, <2>1, <2>2, ReturnsDoes DEF Only, EndsIn, Fields
<1> QED BY <1>1, <1>2

LEMMA ChangeConfirmDoes ==
  ASSUME DOMAIN m = Fields, ChangeConfirm
  PROVE  /\ m.loc = "change87"
         /\ \/ ~ EntriesMatch(m) /\ Ends /\ Only(EndsIn \cup {"s_new"}) /\ m'.s_new = None
            \/ EntriesMatch(m) /\ m.s_key = None /\ m'.loc = "app211" /\ Only({"loc"})
            \/ /\ EntriesMatch(m) /\ m.s_key # None /\ m'.loc = "change66"
               /\ Only({"loc", "table"}) /\ m'.table = m.flash[m.s_active].table
<1>1. CASE EntriesMatch(m) /\ m.s_key = None
  BY <1>1 DEF ChangeConfirm, Runs, Goes, Only, Fields
<1>2. CASE EntriesMatch(m) /\ m.s_key # None
  BY <1>2 DEF ChangeConfirm, Runs, Goes, Only, Fields
<1>3. CASE ~ EntriesMatch(m)
  <2> DEFINE x == [m EXCEPT !.s_new = None]
  <2>1. m.loc = "change87" /\ Returns(x)
    BY <1>3 DEF ChangeConfirm, Runs
  <2>2. DOMAIN x = Fields /\ x.s_new = None /\ \A f \in Fields \ {"s_new"} : x[f] = m[f]
    BY DEF Fields
  <2> HIDE DEF x
  <2> QED BY <1>3, <2>1, <2>2, ReturnsDoes DEF Only, EndsIn, Fields
<1> QED BY <1>1, <1>2, <1>3

LEMMA ChangeApplyDoes ==
  ASSUME DOMAIN m = Fields, ChangeApply
  PROVE  From("change66", "setNewKey") /\ Only({"loc"})
BY DEF ChangeApply, Runs, Goes, Only, From, Fields

LEMMA SetNewKeyDoes ==
  ASSUME DOMAIN m = Fields, SetNewKey
  PROVE  /\ m.loc = "setNewKey"
         /\ \/ m.s_new = None /\ m.mode = "CHANGE_MK" /\ m'.loc = "app211" /\ Only({"loc"})
            \/ m.s_new = None /\ Ends /\ Only(EndsIn)
            \/ /\ m.s_new # None /\ m'.loc = "deriving" /\ Only({"loc", "cancelled", "salt", "mk"})
               /\ m'.cancelled = FALSE /\ m'.salt = m.runs /\ m'.mk = m.s_new
<1>1. CASE m.s_new = None /\ m.mode = "CHANGE_MK"
  BY <1>1 DEF SetNewKey, Runs, Goes, Only, Fields
<1>2. CASE m.s_new = None /\ m.mode # "CHANGE_MK"
  <2>1. m.loc = "setNewKey" /\ Returns(m)
    BY <1>2 DEF SetNewKey, Runs
  <2> QED BY <1>2, <2>1, ReturnsDoes DEF Only
<1>3. CASE m.s_new # None
  BY <1>3 DEF SetNewKey, Runs, Goes, Only, Fields
<1> QED BY <1>1, <1>2, <1>3

LEMMA DeriveNewDoes ==
  ASSUME DOMAIN m = Fields, DeriveNew
  PROVE  /\ m.loc = "deriving"
         /\ \/ m'.loc = "kdf78" /\ Only({"loc", "derived"}) /\ m'.derived = <<m.mk, m.salt>>
            \/ /\ m.cancelled /\ m'.loc = "session202" /\ Only({"loc", "derived", "result"})
               /\ m'.result = "CANCELLED"
<1>1. CASE Goes([m EXCEPT !.loc = "kdf78", !.derived = <<m.mk, m.salt>>])
  BY <1>1 DEF DeriveNew, Runs, Goes, Only, Fields
<1>2. CASE /\ m.cancelled
           /\ Goes([m EXCEPT !.loc = "session202", !.derived = Garbage, !.result = "CANCELLED"])
  BY <1>2 DEF DeriveNew, Runs, Goes, Only, Fields
<1> QED BY <1>1, <1>2 DEF DeriveNew

LEMMA CommitBeginsDoes ==
  ASSUME DOMAIN m = Fields, NEW word, CommitBegins(word)
  PROVE  /\ m.loc = "kdf78" /\ m.mode # "MK_AUTH"
         /\ \/ /\ m.cancelled /\ m'.loc = "session202" /\ Only({"loc", "result"})
               /\ m'.result = "CANCELLED"
            \/ /\ ~ m.cancelled /\ m'.loc = "flash72" /\ Only({"loc", "target", "flash"})
               /\ m'.target = CommitTarget(m)
               /\ m'.flash = [m.flash EXCEPT ![m'.target] = Writing(m, m.derived, word + 1)]
<1>1. CASE m.cancelled
  BY <1>1 DEF CommitBegins, Runs, Goes, Only, Fields
<1>2. CASE ~ m.cancelled
  <2> DEFINE t == CommitTarget(m)
             p == Writing(m, m.derived, word + 1)
  <2>1. /\ m.loc = "kdf78" /\ m.mode # "MK_AUTH"
        /\ m' = [m EXCEPT !.loc = "flash72", !.target = t, !.flash[t] = p]
    BY <1>2, Zenon DEF CommitBegins, Runs, Goes
  <2> HIDE DEF t, p
  <2>2. /\ m'.loc = "flash72" /\ Only({"loc", "target", "flash"})
        /\ m'.target = t /\ m'.flash = [m.flash EXCEPT ![t] = p]
    BY <2>1 DEF Only, Fields
  <2> QED BY <1>2, <2>1, <2>2 DEF t, p
<1> QED BY <1>1, <1>2

LEMMA CommitEndsDoes ==
  ASSUME DOMAIN m = Fields, CommitEnds
  PROVE  /\ From("flash72", "session202") /\ m.mode # "GENERATE"
         /\ Only({"loc", "result", "flash", "s_active", "s_key", "s_authorized"})
         /\ \/ /\ m'.result = "STORAGE_ERROR"
               /\ m'.flash = [m.flash EXCEPT ![m.target] = [@ EXCEPT !.words = 0]]
               /\ UNCHANGED <<m.s_active, m.s_key, m.s_authorized>>
            \/ /\ m'.flash = [m.flash EXCEPT ![m.target] = [@ EXCEPT !.words = TableWords]]
               /\ m'.s_active = m.target
               /\ IF m.cancelled
                    THEN m'.result = "CANCELLED" /\ UNCHANGED <<m.s_key, m.s_authorized>>
                    ELSE m'.result = "OK" /\ m'.s_key = m.derived /\ m'.s_authorized = TRUE
<1> DEFINE failed == [m EXCEPT !.loc = "session202", !.result = "STORAGE_ERROR",
                               !.flash[m.target] = [@ EXCEPT !.words = 0]]
           done   == [m EXCEPT !.loc = "session202", !.s_active = m.target,
                               !.flash[m.target] = [@ EXCEPT !.words = TableWords]]
<1>1. m.loc = "flash72" /\ m.mode # "GENERATE"
  BY DEF CommitEnds, Runs
<1>2. CASE m' = failed
  BY <1>1, <1>2 DEF Only, From, Fields
<1>3. DOMAIN done = Fields /\ \A f \in Fields \ {"loc", "s_active", "flash"} : done[f] = m[f]
  BY DEF Fields
<1>4. /\ done.loc = "session202" /\ done.s_active = m.target
      /\ done.flash = [m.flash EXCEPT ![m.target] = [@ EXCEPT !.words = TableWords]]
  BY DEF Fields
<1>5. CASE m.cancelled /\ m' = [done EXCEPT !.result = "CANCELLED"]
  <2> HIDE DEF done
  <2> QED BY <1>1, <1>3, <1>4, <1>5 DEF Only, From, Fields
<1>6. CASE ~ m.cancelled /\ m' = [done EXCEPT !.result = "OK", !.s_key = m.derived, !.s_authorized = TRUE]
  <2> HIDE DEF done
  <2> QED BY <1>1, <1>3, <1>4, <1>6 DEF Only, From, Fields
<1> QED BY <1>2, <1>5, <1>6, Zenon DEF CommitEnds, Goes

LEMMA SetReturnsDoes ==
  ASSUME DOMAIN m = Fields, SetReturns
  PROVE  /\ m.loc = "session202" /\ m'.s_new = None /\ m'.table = BlankTable
         /\ \/ m.mode = "CHANGE_MK" /\ m'.loc = "app211" /\ Only({"loc", "s_new", "table"})
            \/ /\ m.mode = "FIRST_MEET" /\ m.result = "OK" /\ m'.loc = "app153"
               /\ Only({"loc", "s_new", "table"})
            \/ Ends /\ Only(EndsIn \cup {"s_new", "table"})
<1> DEFINE x == [m EXCEPT !.s_new = None, !.table = BlankTable]
<1>1. DOMAIN x = Fields /\ x.s_new = None /\ x.table = BlankTable /\ \A f \in Fields \ {"s_new", "table"} : x[f] = m[f]
  BY DEF Fields
<1>2. /\ m.loc = "session202"
      /\ \/ m.mode = "CHANGE_MK" /\ m' = [x EXCEPT !.loc = "app211"]
         \/ m.mode = "FIRST_MEET" /\ m.result = "OK" /\ m' = [x EXCEPT !.loc = "app153"]
         \/ Returns(x)
  BY Zenon DEF SetReturns, Runs, Goes
<1> HIDE DEF x
<1>3. CASE Returns(x)
  BY <1>1, <1>2, <1>3, ReturnsDoes DEF Only, EndsIn, Fields
<1>4. CASE m.mode = "CHANGE_MK" /\ m' = [x EXCEPT !.loc = "app211"]
  BY <1>1, <1>2, <1>4 DEF Only, Fields
<1>5. CASE m.mode = "FIRST_MEET" /\ m.result = "OK" /\ m' = [x EXCEPT !.loc = "app153"]
  BY <1>1, <1>2, <1>5 DEF Only, Fields
<1> QED BY <1>2, <1>3, <1>4, <1>5

LEMMA ChangeDoneDoes ==
  ASSUME DOMAIN m = Fields, ChangeDone
  PROVE  /\ m.loc = "app211" /\ Ends /\ Only(EndsIn \cup {"g_state", "s_new", "table"})
         /\ m'.g_state = "MODE_SELECTION" /\ m'.s_new = None /\ m'.table = BlankTable
<1> DEFINE x == [m EXCEPT !.g_state = "MODE_SELECTION", !.s_new = None, !.table = BlankTable]
<1>1. m.loc = "app211" /\ Returns(x)
  BY DEF ChangeDone, Runs
<1>2. /\ DOMAIN x = Fields /\ x.g_state = "MODE_SELECTION" /\ x.s_new = None /\ x.table = BlankTable
      /\ \A f \in Fields \ {"g_state", "s_new", "table"} : x[f] = m[f]
  BY DEF Fields
<1> HIDE DEF x
<1> QED BY <1>1, <1>2, ReturnsDoes DEF Only, EndsIn, Fields

LEMMA RetrieveChosenDoes ==
  ASSUME DOMAIN m = Fields, RetrieveChosen
  PROVE  /\ m.s_authorized /\ Begins("RETRIEVE") /\ m'.loc = "retEnter" /\ Only(BeginsIn)
BY DEF RetrieveChosen, Starts, Started, Runs, StateNeedsSession, Goes, Only, Begins, BeginsIn, Fields

LEMMA RetrieveLoadsDoes ==
  ASSUME DOMAIN m = Fields, RetrieveLoads
  PROVE  /\ m.loc = "retEnter"
         /\ \/ m.s_key = None /\ Ends /\ Only(EndsIn \cup {"g_state"}) /\ m'.g_state = "INIT"
            \/ /\ m'.loc = "ret34" /\ Only({"loc", "table"})
               /\ \/ m'.table = m.flash[m.s_active].table
                  \/ m.cancelled /\ m'.table = BlankTable
<1>1. ASSUME NEW t, Goes([m EXCEPT !.loc = "ret34", !.table = t])
      PROVE  m'.loc = "ret34" /\ Only({"loc", "table"}) /\ m'.table = t
  BY <1>1 DEF Goes, Only, Fields
<1>2. CASE m.s_key = None /\ Returns([m EXCEPT !.g_state = "INIT"])
  <2> DEFINE x == [m EXCEPT !.g_state = "INIT"]
  <2>1. m.loc = "retEnter" /\ Returns(x)
    BY <1>2 DEF RetrieveLoads, Runs
  <2>2. DOMAIN x = Fields /\ x.g_state = "INIT" /\ \A f \in Fields \ {"g_state"} : x[f] = m[f]
    BY DEF Fields
  <2> HIDE DEF x
  <2> QED BY <1>2, <2>1, <2>2, ReturnsDoes DEF Only, EndsIn, Fields
<1>3. CASE \E t \in {m.flash[m.s_active].table} \cup (IF m.cancelled THEN {BlankTable} ELSE {}) :
             Goes([m EXCEPT !.loc = "ret34", !.table = t])
  <2> HIDE DEF BlankTable
  <2>1. PICK t \in {m.flash[m.s_active].table} \cup (IF m.cancelled THEN {BlankTable} ELSE {}) :
               Goes([m EXCEPT !.loc = "ret34", !.table = t])
    BY <1>3
  <2>2. m.loc = "retEnter"
    BY DEF RetrieveLoads, Runs
  <2> QED BY <1>1, <2>1, <2>2
<1> QED BY <1>2, <1>3 DEF RetrieveLoads

LEMMA RetrieveEnteredDoes ==
  ASSUME DOMAIN m = Fields, RetrieveEntered
  PROVE  m.loc = "ret34" /\ Ends /\ Only(EndsIn)
BY ReturnsDoes DEF RetrieveEntered, Runs, Only

LEMMA RetrieveLineDoes ==
  ASSUME DOMAIN m = Fields, RetrieveLine
  PROVE  /\ m.g_state = "RETRIEVE" /\ m.s_authorized /\ Begins("RETRIEVE") /\ m'.loc = "ret80"
         /\ Only(BeginsIn \cup {"line"}) /\ m'.line \in Typed
BY DEF RetrieveLine, Starts, Started, Runs, StateNeedsSession, Goes, Only, Begins, BeginsIn, Fields

LEMMA RetrieveTakesDoes ==
  ASSUME DOMAIN m = Fields, RetrieveTakes
  PROVE  /\ m.loc = "ret80"
         /\ \/ /\ Leaves(m.line) /\ Ends /\ Only(EndsIn \cup {"g_state", "table"})
               /\ m'.g_state = "MODE_SELECTION" /\ m'.table = BlankTable
            \/ /\ ~ Leaves(m.line) /\ m'.loc = "printed" /\ Only({"loc", "printed"})
               /\ m'.printed = IF ParseId(m.line) < Entries THEN m.table[ParseId(m.line)] ELSE None
<1>1. CASE ~ Leaves(m.line)
  BY <1>1 DEF RetrieveTakes, Runs, Goes, Only, Fields
<1>2. CASE Leaves(m.line)
  <2> DEFINE x == [m EXCEPT !.g_state = "MODE_SELECTION", !.table = BlankTable]
  <2>1. m.loc = "ret80" /\ Returns(x)
    BY <1>2 DEF RetrieveTakes, Runs
  <2>2. /\ DOMAIN x = Fields /\ x.g_state = "MODE_SELECTION" /\ x.table = BlankTable
        /\ \A f \in Fields \ {"g_state", "table"} : x[f] = m[f]
    BY DEF Fields
  <2> HIDE DEF x
  <2> QED BY <1>2, <2>1, <2>2, ReturnsDoes DEF Only, EndsIn, Fields
<1> QED BY <1>1, <1>2

LEMMA RetrievePrintedDoes ==
  ASSUME DOMAIN m = Fields, RetrievePrinted
  PROVE  From("printed", "ret88") /\ Only({"loc"})
BY DEF RetrievePrinted, Runs, Goes, Only, From, Fields

LEMMA RetrieveShownDoes ==
  ASSUME DOMAIN m = Fields, RetrieveShown
  PROVE  m.loc = "ret88" /\ Ends /\ Only(EndsIn)
BY ReturnsDoes DEF RetrieveShown, Runs, Only

LEMMA GenerateLinesDoes ==
  ASSUME DOMAIN m = Fields, GenerateLines
  PROVE  /\ m.s_authorized /\ Begins("GENERATE") /\ m'.loc = "gen370"
         /\ Only(BeginsIn \cup {"id", "name", "rounds", "pwd", "table"})
         /\ m'.id \in Ids /\ m'.name = m.runs + 1 /\ m'.rounds = 1
         /\ m'.table = m.flash[m.s_active].table
BY DEF GenerateLines, Starts, Started, Runs, StateNeedsSession, Goes, Only, Begins, BeginsIn, Fields

LEMMA GenerateGivenUpDoes ==
  ASSUME DOMAIN m = Fields, GenerateGivenUp
  PROVE  /\ m.loc \in {"gen370", "gen386", "gen216"}
         /\ Ends /\ Only(EndsIn \cup {"g_state", "table", "pwd"}) /\ m'.table = BlankTable
         /\ m'.g_state \in {m.g_state, "MODE_SELECTION"}
         /\ ~ m.cancelled => m'.g_state = "MODE_SELECTION"
         /\ m.loc = "gen216" => m.cancelled
<1>1. /\ m.loc \in {"gen370", "gen386", "gen216"}
      /\ m.loc = "gen216" => m.cancelled
      /\ \E st \in {m.g_state, "MODE_SELECTION"} :
           /\ ~ m.cancelled => st = "MODE_SELECTION"
           /\ Returns([m EXCEPT !.table = BlankTable, !.pwd = <<>>, !.g_state = st])
  BY DEF GenerateGivenUp, Runs, Wiped
<1>2. PICK st \in {m.g_state, "MODE_SELECTION"} :
           /\ ~ m.cancelled => st = "MODE_SELECTION"
           /\ Returns([m EXCEPT !.table = BlankTable, !.pwd = <<>>, !.g_state = st])
  BY <1>1
<1> DEFINE x == [m EXCEPT !.table = BlankTable, !.pwd = <<>>, !.g_state = st]
<1>3. /\ DOMAIN x = Fields /\ x.g_state = st /\ x.table = BlankTable
      /\ \A f \in Fields \ {"g_state", "table", "pwd"} : x[f] = m[f]
  BY DEF Fields
<1>4. Returns(x)
  BY <1>2
<1> HIDE DEF x
<1> QED BY <1>1, <1>2, <1>3, <1>4, ReturnsDoes DEF Only, EndsIn, Fields

LEMMA AbsorbTempDoes ==
  ASSUME DOMAIN m = Fields, AbsorbTemp
  PROVE  From("gen370", "gen386") /\ ~ m.cancelled /\ Only({"loc"})
BY DEF AbsorbTemp, Runs, Wiped, Goes, Only, From, Fields

\* the step goes to the save, to a draw or to another round
Draw ==
  \/ m'.loc = "gen424" /\ m'.rounds = m.rounds
  \/ m'.loc = "gen216" /\ m'.value \in 0..MaxDraw /\ m'.rounds = m.rounds
  \/ m'.loc = "gen370" /\ m'.rounds = m.rounds + 1

LEMMA DrawsDoes ==
  ASSUME NEW x, DOMAIN x = Fields, Draws(x), x.rounds = m.rounds
  PROVE  Draw /\ DOMAIN m' = Fields /\ \A f \in Fields \ {"loc", "value", "rounds"} : m'[f] = x[f]
<1>1. CASE Goes([x EXCEPT !.loc = "gen424"])
  BY <1>1 DEF Goes, Draw, Fields
<1>2. ASSUME NEW v \in 0..MaxDraw, Goes([x EXCEPT !.loc = "gen216", !.value = v])
      PROVE  Draw /\ DOMAIN m' = Fields /\ \A f \in Fields \ {"loc", "value", "rounds"} : m'[f] = x[f]
  BY <1>2 DEF Goes, Draw, Fields
<1>3. CASE Goes([x EXCEPT !.loc = "gen370", !.rounds = @ + 1])
  BY <1>3 DEF Goes, Draw, Fields
<1> QED BY <1>1, <1>2, <1>3 DEF Draws

LEMMA AbsorbLightDoes ==
  ASSUME DOMAIN m = Fields, AbsorbLight
  PROVE  m.loc = "gen386" /\ ~ m.cancelled /\ Draw /\ Only({"loc", "value", "rounds"})
BY DrawsDoes DEF AbsorbLight, Runs, Wiped, Only

LEMMA MapCharDoes ==
  ASSUME DOMAIN m = Fields, MapChar
  PROVE  /\ m.loc = "gen216" /\ ~ m.cancelled /\ Draw /\ Only({"loc", "value", "rounds", "pwd"})
         /\ m'.pwd = IF m.value < Threshold THEN Append(m.pwd, m.value % CharsetLen) ELSE m.pwd
<1> DEFINE x == [m EXCEPT !.pwd = Append(@, m.value % CharsetLen)]
<1>1. m.loc = "gen216" /\ ~ m.cancelled /\ Draws(IF m.value < Threshold THEN x ELSE m)
  BY DEF MapChar, Runs, Wiped
<1>2. /\ DOMAIN x = Fields /\ x.pwd = Append(m.pwd, m.value % CharsetLen)
      /\ \A f \in Fields \ {"pwd"} : x[f] = m[f]
  BY DEF Fields
<1> HIDE DEF x
<1>3. x.rounds = m.rounds
  BY <1>2 DEF Fields
<1>4. CASE m.value < Threshold
  BY <1>1, <1>2, <1>3, <1>4, DrawsDoes DEF Only, Fields
<1>5. CASE ~ (m.value < Threshold)
  BY <1>1, <1>5, DrawsDoes DEF Only, Fields
<1> QED BY <1>4, <1>5

LEMMA SaveBeginsDoes ==
  ASSUME DOMAIN m = Fields, NEW word, SaveBegins(word)
  PROVE  /\ From("gen424", "flash72") /\ Only({"loc", "target", "flash", "table"})
         /\ m'.table = [m.table EXCEPT ![m.id] = [name |-> m.name, pwd |-> m.pwd]]
         /\ m'.target = CommitTarget(m)
         /\ m'.flash = [m.flash EXCEPT ![m'.target] =
                [magic |-> "magic", version |-> NewVersion(m), auth |-> m.flash[m.s_active].auth,
                 table |-> m'.table, words |-> word + 1]]
<1> DEFINE t == CommitTarget(m)
           owner == m.flash[m.s_active].auth
           to == [m EXCEPT !.table[m.id] = [name |-> m.name, pwd |-> m.pwd]]
<1>1. /\ m.loc = "gen424"
      /\ m' = [to EXCEPT !.loc = "flash72", !.target = t,
                         !.flash[t] = Writing(to, owner, word + 1)]
  BY Zenon DEF SaveBegins, Runs, Goes
<1>2. /\ DOMAIN to = Fields /\ to.table = [m.table EXCEPT ![m.id] = [name |-> m.name, pwd |-> m.pwd]]
      /\ \A f \in Fields \ {"table"} : to[f] = m[f]
  BY DEF Fields
<1>3. to.s_active = m.s_active /\ to.flash = m.flash
  BY <1>2 DEF Fields
<1> HIDE DEF to, owner, t
<1> DEFINE p == Writing(to, owner, word + 1)
<1>4. p = [magic |-> "magic", version |-> NewVersion(m), auth |-> owner,
           table |-> to.table, words |-> word + 1]
  BY <1>3 DEF Writing, NewVersion
<1> HIDE DEF p
<1>5. /\ DOMAIN m' = Fields /\ m'.loc = "flash72" /\ m'.target = t
      /\ m'.flash = [to.flash EXCEPT ![t] = p]
      /\ \A f \in Fields \ {"loc", "target", "flash"} : m'[f] = to[f]
  BY <1>1, <1>2, Zenon DEF p, Fields
<1>6. Only({"loc", "target", "flash", "table"}) /\ m'.table = to.table
  BY <1>2, <1>5 DEF Only, Fields
<1> QED BY <1>1, <1>2, <1>3, <1>4, <1>5, <1>6 DEF From, t, owner

LEMMA SaveEndsDoes ==
  ASSUME DOMAIN m = Fields, SaveEnds
  PROVE  /\ From("flash72", "gen428") /\ m.mode = "GENERATE"
         /\ Only({"loc", "result", "flash", "s_active"})
         /\ \/ /\ m'.result = "saved" /\ m'.s_active = m.target
               /\ m'.flash = [m.flash EXCEPT ![m.target] = [@ EXCEPT !.words = TableWords]]
            \/ /\ m'.result = "failed" /\ m'.s_active = m.s_active
               /\ m'.flash = [m.flash EXCEPT ![m.target] = [@ EXCEPT !.words = 0]]
<1> DEFINE at == [m EXCEPT !.loc = "gen428"]
<1>1. m.loc = "flash72" /\ m.mode = "GENERATE"
  BY DEF SaveEnds, Runs
<1>2. DOMAIN at = Fields /\ at.loc = "gen428" /\ \A f \in Fields \ {"loc"} : at[f] = m[f]
  BY DEF Fields
<1>3. at.flash = m.flash
  BY <1>2 DEF Fields
<1>4. CASE m' = [at EXCEPT !.s_active = m.target, !.result = "saved",
                           !.flash[m.target] = [@ EXCEPT !.words = TableWords]]
  <2> HIDE DEF at
  <2> QED BY <1>1, <1>2, <1>3, <1>4 DEF Only, From, Fields
<1>5. CASE m' = [at EXCEPT !.result = "failed", !.flash[m.target] = [@ EXCEPT !.words = 0]]
  <2> HIDE DEF at
  <2> QED BY <1>1, <1>2, <1>3, <1>5 DEF Only, From, Fields
<1> QED BY <1>4, <1>5, Zenon DEF SaveEnds, Goes

LEMMA GenerateReturnsDoes ==
  ASSUME DOMAIN m = Fields, GenerateReturns
  PROVE  /\ m.loc = "gen428" /\ Ends /\ Only(EndsIn \cup {"g_state", "table", "pwd"})
         /\ m'.g_state = "MODE_SELECTION" /\ m'.table = BlankTable
<1> DEFINE x == [m EXCEPT !.g_state = "MODE_SELECTION", !.table = BlankTable, !.pwd = <<>>]
<1>1. m.loc = "gen428" /\ Returns(x)
  BY DEF GenerateReturns, Runs
<1>2. /\ DOMAIN x = Fields /\ x.g_state = "MODE_SELECTION" /\ x.table = BlankTable
      /\ \A f \in Fields \ {"g_state", "table", "pwd"} : x[f] = m[f]
  BY DEF Fields
<1> HIDE DEF x
<1> QED BY <1>1, <1>2, ReturnsDoes DEF Only, EndsIn, Fields

LEMMA PanicDoes ==
  ASSUME DOMAIN m = Fields, Panic
  PROVE  /\ ~ halted /\ ~ Masked
         /\ Only({"g_state", "s_authorized", "s_key", "s_new", "table", "pwd", "cancelled", "panics"})
         /\ m'.g_state = "INIT" /\ m'.s_authorized = FALSE /\ m'.s_key = None /\ m'.s_new = None
         /\ m'.table = BlankTable /\ m'.cancelled = (m.loc # "idle")
BY DEF Panic, Only, Fields

-----------------------------------------------------------------------------
(* The id of a line typed.                                                  *)

LEMMA DigitType == ASSUME NEW c \in Digits PROVE Digit[c] \in 0..3
<1>1. \E n \in 0..3 : <<"0", "1", "2", "3">>[n + 1] = c
  <2>1. <<"0", "1", "2", "3">>[0 + 1] = "0" /\ <<"0", "1", "2", "3">>[1 + 1] = "1"
        /\ <<"0", "1", "2", "3">>[2 + 1] = "2" /\ <<"0", "1", "2", "3">>[3 + 1] = "3"
    OBVIOUS
  <2> QED BY <2>1 DEF Digits
<1> QED BY <1>1 DEF Digit

\* The largest number of a set, which a fold takes off last.
Top(r) == CHOOSE x \in r : \A y \in r : x >= y

LEMMA Tops == Top({1}) = 1 /\ Top({2}) = 2 /\ Top({1, 2}) = 2
BY DEF Top

\* The recursion of a fold over the digits of s.
Folds(g, s, n) ==
  g = [r \in SUBSET (1..n) |->
         IF r = {} THEN 0 ELSE 10 * g[r \ {Top(r)}] + Digit[s[Top(r)]]]

Decimal(s, n) == IF n = 1 THEN Digit[s[1]] ELSE 10 * Digit[s[1]] + Digit[s[2]]

\* The recursion has a solution, and every solution computes one or two digits.
LEMMA FoldsOfDigits ==
  ASSUME NEW s, NEW n \in {1, 2}, \A i \in 1..n : s[i] \in Digits
  PROVE  /\ \E g : Folds(g, s, n)
         /\ \A g : Folds(g, s, n) => g[1..n] = Decimal(s, n)
<1> DEFINE a == Digit[s[1]]
           b == Digit[s[2]]
<1>1. a \in Nat /\ (n = 2 => b \in Nat)
  BY DigitType
<1>2. CASE n = 1
  <2>1. SUBSET (1..n) = {{}, {1}} /\ 1..n = {1}
    BY <1>2
  <2> DEFINE g == [r \in SUBSET (1..n) |-> IF r = {} THEN 0 ELSE 10 * 0 + a]
  <2>2. g[{}] = 0 /\ {1} \ {1} = {} /\ {1} # {}
    BY <2>1
  <2>3. ASSUME NEW r \in SUBSET (1..n)
        PROVE  g[r] = IF r = {} THEN 0 ELSE 10 * g[r \ {Top(r)}] + Digit[s[Top(r)]]
    BY <2>1, <2>2, Tops
  <2>4. Folds(g, s, n)
    BY <2>3, Zenon DEF Folds
  <2>5. ASSUME NEW h, Folds(h, s, n) PROVE h[1..n] = Decimal(s, n)
    <3>1. h[{}] = 0
      BY <2>1, <2>5 DEF Folds
    <3>2. h[{1}] = 10 * h[{1} \ {1}] + Digit[s[1]]
      <4>1. h[{1}] = IF {1} = {} THEN 0 ELSE 10 * h[{1} \ {Top({1})}] + Digit[s[Top({1})]]
        BY <2>1, <2>5 DEF Folds
      <4> QED BY <4>1, Tops, <2>2
    <3> QED BY <1>1, <1>2, <2>1, <2>2, <3>1, <3>2 DEF Decimal
  <2> QED BY <2>4, <2>5
<1>3. CASE n = 2
  <2>1. SUBSET (1..n) = {{}, {1}, {2}, {1, 2}} /\ 1..n = {1, 2}
    BY <1>3
  <2>2. {1} \ {1} = {} /\ {2} \ {2} = {} /\ {1, 2} \ {2} = {1}
        /\ {1} # {} /\ {2} # {} /\ {1, 2} # {} /\ {1} # {2} /\ {1} # {1, 2} /\ {2} # {1, 2}
    OBVIOUS
  <2> DEFINE g == [r \in SUBSET (1..n) |->
                     IF r = {} THEN 0 ELSE IF r = {1} THEN 10 * 0 + a
                     ELSE IF r = {2} THEN 10 * 0 + b ELSE 10 * (10 * 0 + a) + b]
  <2>3. g[{}] = 0 /\ g[{1}] = 10 * 0 + a /\ g[{2}] = 10 * 0 + b /\ g[{1, 2}] = 10 * (10 * 0 + a) + b
    BY <2>1, <2>2
  <2>4. ASSUME NEW r \in SUBSET (1..n)
        PROVE  g[r] = IF r = {} THEN 0 ELSE 10 * g[r \ {Top(r)}] + Digit[s[Top(r)]]
    <3> HIDE DEF g
    <3>1. CASE r = {}
      BY <2>3, <3>1
    <3>2. CASE r = {1}
      BY <2>2, <2>3, <3>2, Tops
    <3>3. CASE r = {2}
      BY <2>2, <2>3, <3>3, Tops
    <3>4. CASE r = {1, 2}
      <4>1. r \ {Top(r)} = {1} /\ Top(r) = 2 /\ r # {}
        BY <2>2, <3>4, Tops
      <4> QED BY <2>3, <3>4, <4>1
    <3> QED BY <2>1, <3>1, <3>2, <3>3, <3>4
  <2>5. Folds(g, s, n)
    BY <2>4, Zenon DEF Folds
  <2>6. ASSUME NEW h, Folds(h, s, n) PROVE h[1..n] = Decimal(s, n)
    <3>1. h[{}] = 0
      BY <2>1, <2>6 DEF Folds
    <3>2. h[{1}] = 10 * h[{1} \ {1}] + Digit[s[1]]
      <4>1. h[{1}] = IF {1} = {} THEN 0 ELSE 10 * h[{1} \ {Top({1})}] + Digit[s[Top({1})]]
        BY <2>1, <2>6 DEF Folds
      <4> QED BY <4>1, Tops, <2>2
    <3>3. h[{1, 2}] = 10 * h[{1, 2} \ {2}] + Digit[s[2]]
      <4>1. h[{1, 2}] = IF {1, 2} = {} THEN 0
                        ELSE 10 * h[{1, 2} \ {Top({1, 2})}] + Digit[s[Top({1, 2})]]
        BY <2>1, <2>6 DEF Folds
      <4> QED BY <4>1, Tops, <2>2
    <3>4. h[{1}] = a
      BY <1>1, <2>2, <3>1, <3>2
    <3>5. h[{1, 2}] = 10 * a + b
      BY <2>2, <3>3, <3>4
    <3> QED BY <1>3, <2>1, <3>5 DEF Decimal
  <2> QED BY <2>5, <2>6
<1> QED BY <1>2, <1>3

LEMMA NumberIs ==
  ASSUME NEW s, NEW n \in {1, 2}, DOMAIN s = 1..n, \A i \in 1..n : s[i] \in Digits
  PROVE  FoldLeft(LAMBDA v, c : 10 * v + Digit[c], 0, s) = Decimal(s, n)
<1> DEFINE p == CHOOSE g : Folds(g, s, n)
<1>1. FoldLeft(LAMBDA v, c : 10 * v + Digit[c], 0, s) = p[1..n]
  BY Zenon DEF FoldLeft, MapThenFoldSet, Max, Top, Folds
<1> QED BY <1>1, FoldsOfDigits

LEMMA DecimalType ==
  ASSUME NEW s, NEW n \in {1, 2}, \A i \in 1..n : s[i] \in Digits
  PROVE  Decimal(s, n) \in Nat
BY DigitType DEF Decimal

\* A set of numbers has a least one.
LEMMA Least ==
  ASSUME NEW S \in SUBSET Nat, S # {}
  PROVE  \E k \in S : \A x \in S : k <= x
<1> DEFINE R == OpToRel(<, Nat)
<1>1. IsWellFoundedOn(R, Nat)
  BY NatLessThanWellFounded
<1>2. ASSUME NEW x \in Nat, NEW y \in Nat, y < x PROVE <<y, x>> \in R
  BY <1>2 DEF OpToRel
<1> HIDE DEF R
<1>3. PICK k \in S : \A y \in S : ~ (<<y, k>> \in R)
  BY <1>1, WFMin, Zenon
<1>4. \A x \in S : ~ (x < k)
  BY <1>2, <1>3
<1> QED BY <1>3, <1>4

\* The place after the leading spaces.
LEMMA Spaces ==
  ASSUME NEW line, NEW len \in Nat
  PROVE  \E n \in 0..len :
            /\ \A i \in 1..n : line[i] = " "
            /\ n < len => line[n + 1] # " "
<1> DEFINE S == {i \in 1..len : line[i] # " "}
<1>1. \A i : i \in S <=> i \in 1..len /\ line[i] # " "
  BY Zenon
<1> HIDE DEF S
<1>2. ASSUME NEW x \in S PROVE x \in 1..len /\ line[x] # " "
  BY <1>1, Zenon
<1>3. CASE S = {}
  <2>1. len \in 0..len /\ ~ (len < len)
    OBVIOUS
  <2>2. \A i \in 1..len : line[i] = " "
    BY <1>1, <1>3
  <2> QED BY <2>1, <2>2
<1>4. CASE S # {}
  <2>0. S \subseteq Nat
    <3>1. \A x \in S : x \in 1..len
      BY <1>2
    <3>2. 1..len \subseteq Nat
      OBVIOUS
    <3> QED BY <3>1, <3>2, Zenon
  <2>1. PICK k \in S : \A j \in S : k <= j
    BY <1>4, <2>0, Least
  <2>2. k \in 1..len
    BY <1>2, <2>1, Zenon
  <2>6. line[k] # " "
    BY <1>2, <2>1, Zenon
  <2>3. PICK n \in 0..len : n + 1 = k
    <3>1. k - 1 \in 0..len /\ (k - 1) + 1 = k
      BY <2>2
    <3> QED BY <3>1
  <2>4. ASSUME NEW i \in 1..n PROVE line[i] = " "
    <3>1. i \in 1..len /\ ~ (k <= i)
      BY <2>2, <2>3
    <3>2. i \notin S
      BY <2>1, <3>1
    <3> QED BY <1>1, <3>1, <3>2
  <2>5. line[n + 1] # " "
    BY <2>3, <2>6, Zenon
  <2> QED BY <2>4, <2>5
<1> QED BY <1>3, <1>4

LEMMA ParseIdType == ASSUME NEW line \in Seq(STRING) PROVE ParseId(line) \in Nat
<1> DEFINE n == CHOOSE n \in 0..Len(line) :
                    /\ \A i \in 1..n : line[i] = " "
                    /\ n < Len(line) => line[n + 1] # " "
           number == SubSeq(line, n + 1, Len(line))
<1>1. n \in 0..Len(line)
  <2>1. Len(line) \in Nat
    OBVIOUS
  <2>2. \E k \in 0..Len(line) :
          /\ \A i \in 1..k : line[i] = " "
          /\ k < Len(line) => line[k + 1] # " "
    BY <2>1, Spaces
  <2> QED BY <2>2, Zenon
<1>2. ParseId(line) =
        IF Len(number) \in {1, 2} /\ \A i \in 1..Len(number) : number[i] \in Digits
          THEN FoldLeft(LAMBDA v, c : 10 * v + Digit[c], 0, number) ELSE Entries
  BY Zenon DEF ParseId
<1> HIDE DEF n
<1>3. number \in Seq(STRING)
  BY <1>1
<1> HIDE DEF number
<1>4. DOMAIN number = 1..Len(number)
  BY <1>3
<1> QED BY <1>2, <1>4, NumberIs, DecimalType, BoardAssumption

-----------------------------------------------------------------------------
(* Each step of the board keeps the invariant of the board.                 *)

LEMMA BlankIsTable == ASSUME NEW n \in Nat PROVE IsTable(BlankTable, n)
BY DEF IsTable, BlankTable, Blank

LEMMA TableLasts ==
  ASSUME NEW t, NEW n \in Nat, IsTable(t, n)
  PROVE  IsTable(t, n + 1) /\ \A i \in 0..Entries - 1 : t[i].name < n + 1
BY DEF IsTable

LEMMA SlotLasts ==
  ASSUME NEW p, NEW n \in Nat, IsSlot(p, n)
  PROVE  IsSlot(p, n + 1) /\ \A i \in 0..Entries - 1 : p.table[i].name < n + 1
BY TableLasts DEF IsSlot

\* A mode that ends leaves the session and the partitions alone.
LEMMA EndsInv ==
  ASSUME BoardInv, Ends, DOMAIN m' = Fields,
         m'.s_active = m.s_active, m'.flash = m.flash, m'.s_key = m.s_key,
         m'.s_authorized = m.s_authorized, m'.runs = m.runs,
         m'.table \in {m.table, BlankTable}, m'.s_new \in {m.s_new, None},
         m'.g_state \in {"MK_AUTH", "RETRIEVE"} => m.s_active # 0,
         m'.g_state = "RETRIEVE" => m'.table = m.flash[m.s_active].table
  PROVE  BoardInv'
<1>1. Types'
  BY BlankIsTable DEF BoardInv, Types, Ends
<1>2. Places' /\ Keying' /\ Committing' /\ Naming' /\ Reading'
  BY DEF Places, Keying, Committing, Naming, Reading, Ends
<1>3. Sessions'
  BY DEF BoardInv, Sessions, KeyLines, Ends
<1> QED BY <1>1, <1>2, <1>3 DEF BoardInv

\* A mode that begins counts a run, and leaves the session and the partitions alone.
LEMMA BeginsInv ==
  ASSUME BoardInv, NEW st, Begins(st), DOMAIN m' = Fields,
         m'.s_active = m.s_active, m'.flash = m.flash, m'.s_key = m.s_key,
         m'.s_authorized = m.s_authorized, m'.cancelled = m.cancelled,
         IsTable(m'.table, m'.runs), m'.s_new \in Keys \cup {None}, m'.loc # "idle",
         Places', Keying', Committing', Naming', Reading',
         st # "FIRST_MEET" => m.s_active # 0,
         st = "CHANGE_MK" /\ m'.loc \in KeyLines => m.s_key # None
  PROVE  BoardInv'
<1>1. Types'
  BY SlotLasts DEF BoardInv, Types, Begins
<1>2. Sessions'
  BY DEF BoardInv, Sessions, Begins
<1> QED BY <1>1, <1>2 DEF BoardInv

LEMMA InitRunsInv == ASSUME BoardInv, InitRuns PROVE BoardInv'
<1>0. DOMAIN m = Fields
  BY DEF BoardInv, Types
<1>1. From("idle", "idle") /\ Only({"g_state"})
      /\ m'.g_state = IF m.s_active = 0 THEN "FIRST_MEET" ELSE "MK_AUTH"
  BY <1>0, InitRunsDoes
<1>2. /\ m'.s_active = m.s_active /\ m'.flash = m.flash /\ m'.s_key = m.s_key
      /\ m'.s_authorized = m.s_authorized /\ m'.runs = m.runs /\ m'.table = m.table
      /\ m'.s_new = m.s_new /\ m'.cancelled = m.cancelled
  BY <1>1 DEF Only, Fields
<1>3. Types'
  BY <1>1, <1>2 DEF BoardInv, Types, Only
<1>4. Places' /\ Keying' /\ Committing' /\ Naming' /\ Reading'
  BY <1>1 DEF Places, Keying, Committing, Naming, Reading, From
<1>5. Sessions'
  BY <1>1, <1>2 DEF BoardInv, Sessions, From
<1> QED BY <1>3, <1>4, <1>5 DEF BoardInv

LEMMA LoginLineInv == ASSUME BoardInv, LoginLine PROVE BoardInv'
<1>1. /\ m.g_state = "MK_AUTH" /\ Begins("MK_AUTH") /\ m'.loc = "auth"
      /\ Only(BeginsIn \cup {"mk"}) /\ m'.mk \in Keys
  BY LoginLineDoes DEF BoardInv, Types
<1>2. IsTable(m.table, m.runs + 1)
  BY TableLasts DEF BoardInv, Types
<1>3. Places' /\ Keying' /\ Committing' /\ Naming' /\ Reading'
  BY <1>1 DEF Places, Keying, Committing, Naming, Reading, Begins
<1> QED BY <1>1, <1>2, <1>3, BeginsInv DEF BoardInv, Types, Sessions, Begins, BeginsIn, Only, Fields

LEMMA AuthenticateInv == ASSUME BoardInv, Authenticate PROVE BoardInv'
<1>1. /\ m.loc = "auth" /\ m'.salt = m.flash[m.s_active].auth[2]
      /\ \/ /\ m'.loc = "kdf78" /\ Only({"loc", "salt", "derived", "cancelled"})
            /\ m'.derived = <<m.mk, m'.salt>> /\ m'.cancelled \in {FALSE, m.cancelled}
         \/ /\ m.cancelled /\ m'.loc = "session161" /\ Only({"loc", "salt", "derived", "result"})
            /\ m'.derived = Garbage /\ m'.result = "CANCELLED"
  BY AuthenticateDoes DEF BoardInv, Types
<1>2. /\ DOMAIN m' = Fields /\ m'.s_active = m.s_active /\ m'.flash = m.flash /\ m'.s_key = m.s_key
      /\ m'.s_authorized = m.s_authorized /\ m'.runs = m.runs /\ m'.table = m.table
      /\ m'.s_new = m.s_new /\ m'.cancelled \in {FALSE, m.cancelled} /\ m'.mode = m.mode
      /\ m'.g_state = m.g_state /\ m'.mk = m.mk
  BY <1>1 DEF Only, Fields
<1>3. Types'
  BY <1>1, <1>2 DEF BoardInv, Types
<1>4. Places' /\ Committing' /\ Naming'
  BY <1>1, <1>2 DEF BoardInv, Places, Committing, Naming
<1>5. Sessions'
  BY <1>1, <1>2 DEF BoardInv, Sessions, KeyLines, Places
<1>6. Keying'
  <2>1. m.mk \in Keys /\ m'.salt \in Nat
    BY <1>1 DEF BoardInv, Sessions, Keying, Places, Auths
  <2>2. <<m.mk, m'.salt>> \in Auths
    BY <2>1 DEF Auths
  <2> QED BY <2>2, <1>1, <1>2 DEF Keying
<1>7. Reading'
  BY <1>1, <1>2 DEF BoardInv, Reading, Places
<1> QED BY <1>3, <1>4, <1>5, <1>6, <1>7 DEF BoardInv

LEMMA CompareInv == ASSUME BoardInv, Compare PROVE BoardInv'
<1>1. /\ From("kdf78", "session161") /\ m.mode = "MK_AUTH"
      /\ Only({"loc", "result", "s_key", "s_authorized"})
      /\ IF m.derived = m.flash[m.s_active].auth /\ ~ m.cancelled
           THEN m'.result = "OK" /\ m'.s_key = m.derived /\ m'.s_authorized = TRUE
           ELSE /\ m'.result \in {"WRONG_KEY", "CANCELLED"}
                /\ m'.s_key = m.s_key /\ m'.s_authorized = m.s_authorized
  BY CompareDoes DEF BoardInv, Types
<1>2. /\ DOMAIN m' = Fields /\ m'.s_active = m.s_active /\ m'.flash = m.flash
      /\ m'.runs = m.runs /\ m'.table = m.table
      /\ m'.s_new = m.s_new /\ m'.cancelled = m.cancelled /\ m'.mode = m.mode
      /\ m'.g_state = m.g_state /\ m'.mk = m.mk /\ m'.derived = m.derived /\ m'.salt = m.salt
  BY <1>1 DEF Only, Fields
<1>3. Types'
  BY <1>1, <1>2 DEF BoardInv, Types
<1>4. Places' /\ Committing' /\ Naming'
  BY <1>1, <1>2 DEF BoardInv, Places, Committing, Naming, From
<1>5. Sessions'
  <2>1. m.derived \in Auths /\ None \notin Auths
    BY <1>1, NoneAssumption DEF BoardInv, Keying, From, Auths
  <2> QED BY <2>1, <1>1, <1>2 DEF BoardInv, Sessions, Places, From, KeyLines
<1>6. Keying'
  BY <1>1, <1>2 DEF BoardInv, Keying, From
<1>7. Reading'
  BY <1>1, <1>2 DEF BoardInv, Reading, Places, From
<1> QED BY <1>3, <1>4, <1>5, <1>6, <1>7 DEF BoardInv

LEMMA LoginReturnsInv == ASSUME BoardInv, LoginReturns PROVE BoardInv'
<1>1. /\ m.loc = "session161"
      /\ IF m.result = "OK" THEN m'.loc = "app167" /\ Only({"loc"})
                            ELSE Ends /\ Only(EndsIn)
  BY LoginReturnsDoes DEF BoardInv, Types
<1>2. CASE m.result = "OK"
  <2>1. /\ m'.loc = "app167" /\ DOMAIN m' = Fields
        /\ \A f \in Fields \ {"loc"} : m'[f] = m[f]
    BY <1>1, <1>2 DEF Only
  <2>2. /\ m'.s_active = m.s_active /\ m'.flash = m.flash /\ m'.s_key = m.s_key
        /\ m'.s_authorized = m.s_authorized /\ m'.runs = m.runs /\ m'.table = m.table
        /\ m'.s_new = m.s_new /\ m'.cancelled = m.cancelled /\ m'.mode = m.mode
        /\ m'.g_state = m.g_state
    BY <2>1 DEF Fields
  <2> QED BY <1>1, <2>1, <2>2
          DEF BoardInv, Types, Places, Sessions, KeyLines, Keying, Committing, Naming, Reading
<1>3. CASE m.result # "OK"
  BY <1>1, <1>3, EndsInv DEF BoardInv, Sessions, Reading, Places, Only, EndsIn, Fields
<1> QED BY <1>2, <1>3

LEMMA EnterMenuInv == ASSUME BoardInv, EnterMenu PROVE BoardInv'
<1>1. /\ Ends /\ Only(EndsIn \cup {"g_state"}) /\ m'.g_state = "MODE_SELECTION"
  BY EnterMenuDoes DEF BoardInv, Types
<1> QED BY <1>1, EndsInv DEF Only, EndsIn, Fields

LEMMA FirstMeetLinesInv == ASSUME BoardInv, FirstMeetLines PROVE BoardInv'
<1>1. /\ m.g_state = "FIRST_MEET" /\ Begins("FIRST_MEET") /\ m'.loc = "first63"
      /\ Only(BeginsIn \cup {"s_new", "line"}) /\ m'.s_new \in Keys
  BY FirstMeetLinesDoes DEF BoardInv, Types
<1>2. IsTable(m.table, m.runs + 1)
  BY TableLasts DEF BoardInv, Types
<1>3. Places' /\ Keying' /\ Committing' /\ Naming' /\ Reading'
  BY <1>1 DEF Places, Keying, Committing, Naming, Reading, Begins
<1> QED BY <1>1, <1>2, <1>3, BeginsInv DEF Begins, BeginsIn, Only, Fields

LEMMA ChangeLinesInv == ASSUME BoardInv, ChangeLines PROVE BoardInv'
<1>1. /\ m.s_authorized /\ Begins("CHANGE_MK") /\ m'.loc = "change87"
      /\ Only(BeginsIn \cup {"s_new", "line"}) /\ m'.s_new \in Keys
  BY ChangeLinesDoes DEF BoardInv, Types
<1>2. IsTable(m.table, m.runs + 1) /\ m.s_active # 0 /\ m.s_key # None
  BY <1>1, TableLasts DEF BoardInv, Types, Sessions
<1>3. Places' /\ Keying' /\ Committing' /\ Naming' /\ Reading'
  BY <1>1 DEF Places, Keying, Committing, Naming, Reading, Begins
<1> QED BY <1>1, <1>2, <1>3, BeginsInv DEF Begins, BeginsIn, Only, Fields

LEMMA ChangeCancelledInv == ASSUME BoardInv, ChangeCancelled PROVE BoardInv'
<1>1. m.s_authorized /\ Begins("CHANGE_MK") /\ m'.loc = "app211" /\ Only(BeginsIn)
  BY ChangeCancelledDoes DEF BoardInv, Types
<1>2. IsTable(m.table, m.runs + 1) /\ m.s_active # 0 /\ m.s_new \in Keys \cup {None}
  BY <1>1, TableLasts DEF BoardInv, Types, Sessions
<1>3. Places' /\ Keying' /\ Committing' /\ Naming' /\ Reading'
  BY <1>1 DEF Places, Keying, Committing, Naming, Reading, Begins
<1> QED BY <1>1, <1>2, <1>3, BeginsInv DEF Begins, BeginsIn, Only, Fields, KeyLines

LEMMA FirstMeetConfirmInv == ASSUME BoardInv, FirstMeetConfirm PROVE BoardInv'
<1>1. /\ m.loc = "first63"
      /\ \/ m'.loc = "setNewKey" /\ Only({"loc"})
         \/ Ends /\ Only(EndsIn \cup {"s_new"}) /\ m'.s_new = None
  BY FirstMeetConfirmDoes DEF BoardInv, Types
<1>2. CASE m'.loc = "setNewKey" /\ Only({"loc"})
  <2>1. /\ m'.s_active = m.s_active /\ m'.flash = m.flash /\ m'.s_key = m.s_key
        /\ m'.s_authorized = m.s_authorized /\ m'.runs = m.runs /\ m'.table = m.table
        /\ m'.s_new = m.s_new /\ m'.cancelled = m.cancelled /\ m'.mode = m.mode
        /\ m'.g_state = m.g_state /\ DOMAIN m' = Fields
    BY <1>2 DEF Only, Fields
  <2> QED BY <1>1, <1>2, <2>1
          DEF BoardInv, Types, Places, Sessions, KeyLines, Keying, Committing, Naming, Reading
<1>3. CASE Ends /\ Only(EndsIn \cup {"s_new"}) /\ m'.s_new = None
  BY <1>1, <1>3, EndsInv DEF BoardInv, Sessions, Reading, Places, Only, EndsIn, Fields
<1> QED BY <1>1, <1>2, <1>3

LEMMA ChangeConfirmInv == ASSUME BoardInv, ChangeConfirm PROVE BoardInv'
<1>1. /\ m.loc = "change87"
      /\ \/ Ends /\ Only(EndsIn \cup {"s_new"}) /\ m'.s_new = None
         \/ m'.loc = "app211" /\ Only({"loc"})
         \/ /\ m.s_key # None /\ m'.loc = "change66"
            /\ Only({"loc", "table"}) /\ m'.table = m.flash[m.s_active].table
  BY ChangeConfirmDoes DEF BoardInv, Types
<1>2. ASSUME m'.loc \in {"app211", "change66"}, Only({"loc", "table"}),
             m'.table = m.table \/ (m.s_key # None /\ m'.table = m.flash[m.s_active].table)
      PROVE  BoardInv'
  <2>1. /\ m'.s_active = m.s_active /\ m'.flash = m.flash /\ m'.s_key = m.s_key
        /\ m'.s_authorized = m.s_authorized /\ m'.runs = m.runs
        /\ m'.s_new = m.s_new /\ m'.cancelled = m.cancelled /\ m'.mode = m.mode
        /\ m'.g_state = m.g_state /\ DOMAIN m' = Fields
    BY <1>2 DEF Only, Fields
  <2>2. IsTable(m'.table, m.runs)
    BY <1>2 DEF BoardInv, Types, Sessions, IsSlot
  <2> QED BY <1>1, <1>2, <2>1, <2>2
          DEF BoardInv, Types, Places, Sessions, KeyLines, Keying, Committing, Naming, Reading
<1>3. CASE Ends /\ Only(EndsIn \cup {"s_new"}) /\ m'.s_new = None
  BY <1>1, <1>3, EndsInv DEF BoardInv, Sessions, Reading, Places, Only, EndsIn, Fields
<1>4. Only({"loc"}) => Only({"loc", "table"}) /\ m'.table = m.table
  BY DEF Only, Fields
<1> QED BY <1>1, <1>2, <1>3, <1>4

LEMMA ChangeApplyInv == ASSUME BoardInv, ChangeApply PROVE BoardInv'
<1>1. From("change66", "setNewKey") /\ Only({"loc"})
  BY ChangeApplyDoes DEF BoardInv, Types
<1>2. /\ m'.s_active = m.s_active /\ m'.flash = m.flash /\ m'.s_key = m.s_key
      /\ m'.s_authorized = m.s_authorized /\ m'.runs = m.runs /\ m'.table = m.table
      /\ m'.s_new = m.s_new /\ m'.cancelled = m.cancelled /\ m'.mode = m.mode
      /\ m'.g_state = m.g_state /\ DOMAIN m' = Fields
  BY <1>1 DEF Only, Fields
<1> QED BY <1>1, <1>2
        DEF BoardInv, Types, Places, Sessions, KeyLines, Keying, Committing, Naming, Reading, From

LEMMA SetNewKeyInv == ASSUME BoardInv, SetNewKey PROVE BoardInv'
<1>1. /\ m.loc = "setNewKey"
      /\ \/ m.mode = "CHANGE_MK" /\ m'.loc = "app211" /\ Only({"loc"})
         \/ Ends /\ Only(EndsIn)
         \/ /\ m.s_new # None /\ m'.loc = "deriving" /\ Only({"loc", "cancelled", "salt", "mk"})
            /\ m'.cancelled = FALSE /\ m'.salt = m.runs /\ m'.mk = m.s_new
  BY SetNewKeyDoes DEF BoardInv, Types
<1>2. CASE m.mode = "CHANGE_MK" /\ m'.loc = "app211" /\ Only({"loc"})
  <2>1. /\ m'.s_active = m.s_active /\ m'.flash = m.flash /\ m'.s_key = m.s_key
        /\ m'.s_authorized = m.s_authorized /\ m'.runs = m.runs /\ m'.table = m.table
        /\ m'.s_new = m.s_new /\ m'.cancelled = m.cancelled /\ m'.mode = m.mode
        /\ m'.g_state = m.g_state /\ DOMAIN m' = Fields
    BY <1>2 DEF Only, Fields
  <2> QED BY <1>1, <1>2, <2>1
          DEF BoardInv, Types, Places, Sessions, KeyLines, Keying, Committing, Naming, Reading
<1>3. CASE Ends /\ Only(EndsIn)
  BY <1>1, <1>3, EndsInv DEF BoardInv, Sessions, Reading, Places, Only, EndsIn, Fields
<1>4. CASE /\ m.s_new # None /\ m'.loc = "deriving" /\ Only({"loc", "cancelled", "salt", "mk"})
           /\ m'.cancelled = FALSE /\ m'.salt = m.runs /\ m'.mk = m.s_new
  <2>1. /\ m'.s_active = m.s_active /\ m'.flash = m.flash /\ m'.s_key = m.s_key
        /\ m'.s_authorized = m.s_authorized /\ m'.runs = m.runs /\ m'.table = m.table
        /\ m'.s_new = m.s_new /\ m'.mode = m.mode
        /\ m'.g_state = m.g_state /\ DOMAIN m' = Fields
    BY <1>4 DEF Only, Fields
  <2> QED BY <1>1, <1>4, <2>1
          DEF BoardInv, Types, Places, Sessions, KeyLines, Keying, Committing, Naming, Reading
<1> QED BY <1>1, <1>2, <1>3, <1>4

LEMMA DeriveNewInv == ASSUME BoardInv, DeriveNew PROVE BoardInv'
<1>1. /\ m.loc = "deriving"
      /\ \/ m'.loc = "kdf78" /\ Only({"loc", "derived"}) /\ m'.derived = <<m.mk, m.salt>>
         \/ /\ m.cancelled /\ m'.loc = "session202" /\ Only({"loc", "derived", "result"})
            /\ m'.result = "CANCELLED"
  BY DeriveNewDoes DEF BoardInv, Types
<1>2. /\ m'.s_active = m.s_active /\ m'.flash = m.flash /\ m'.s_key = m.s_key
      /\ m'.s_authorized = m.s_authorized /\ m'.runs = m.runs /\ m'.table = m.table
      /\ m'.s_new = m.s_new /\ m'.cancelled = m.cancelled /\ m'.mode = m.mode
      /\ m'.g_state = m.g_state /\ m'.mk = m.mk /\ m'.salt = m.salt /\ DOMAIN m' = Fields
  BY <1>1 DEF Only, Fields
<1>3. <<m.mk, m.salt>> \in Auths
  BY <1>1 DEF BoardInv, Keying, Auths
<1> QED BY <1>1, <1>2, <1>3
        DEF BoardInv, Types, Places, Sessions, KeyLines, Keying, Committing, Naming, Reading

LEMMA SetReturnsInv == ASSUME BoardInv, SetReturns PROVE BoardInv'
<1>1. /\ m.loc = "session202" /\ m'.s_new = None /\ m'.table = BlankTable
      /\ \/ /\ <<m.mode, m'.loc>> \in {<<"CHANGE_MK", "app211">>, <<"FIRST_MEET", "app153">>}
            /\ Only({"loc", "s_new", "table"})
         \/ Ends /\ Only(EndsIn \cup {"s_new", "table"})
  BY SetReturnsDoes DEF BoardInv, Types
<1>2. CASE /\ <<m.mode, m'.loc>> \in {<<"CHANGE_MK", "app211">>, <<"FIRST_MEET", "app153">>}
           /\ Only({"loc", "s_new", "table"})
  <2>1. /\ m'.s_active = m.s_active /\ m'.flash = m.flash /\ m'.s_key = m.s_key
        /\ m'.s_authorized = m.s_authorized /\ m'.runs = m.runs
        /\ m'.cancelled = m.cancelled /\ m'.mode = m.mode
        /\ m'.g_state = m.g_state /\ DOMAIN m' = Fields
    BY <1>2 DEF Only, Fields
  <2>2. IsTable(m'.table, m.runs)
    BY <1>1, BlankIsTable DEF BoardInv, Types
  <2> QED BY <1>1, <1>2, <2>1, <2>2
          DEF BoardInv, Types, Places, Sessions, KeyLines, Keying, Committing, Naming, Reading
<1>3. CASE Ends /\ Only(EndsIn \cup {"s_new", "table"})
  BY <1>1, <1>3, EndsInv DEF BoardInv, Sessions, Reading, Places, Only, EndsIn, Fields
<1> QED BY <1>1, <1>2, <1>3

LEMMA ChangeDoneInv == ASSUME BoardInv, ChangeDone PROVE BoardInv'
<1>1. /\ Ends /\ Only(EndsIn \cup {"g_state", "s_new", "table"})
      /\ m'.g_state = "MODE_SELECTION" /\ m'.s_new = None /\ m'.table = BlankTable
  BY ChangeDoneDoes DEF BoardInv, Types
<1> QED BY <1>1, EndsInv DEF Only, EndsIn, Fields

LEMMA RetrieveChosenInv == ASSUME BoardInv, RetrieveChosen PROVE BoardInv'
<1>1. m.s_authorized /\ Begins("RETRIEVE") /\ m'.loc = "retEnter" /\ Only(BeginsIn)
  BY RetrieveChosenDoes DEF BoardInv, Types
<1>2. IsTable(m.table, m.runs + 1) /\ m.s_active # 0 /\ m.s_new \in Keys \cup {None}
  BY <1>1, TableLasts DEF BoardInv, Types, Sessions
<1>3. Places' /\ Keying' /\ Committing' /\ Naming' /\ Reading'
  BY <1>1 DEF Places, Keying, Committing, Naming, Reading, Begins
<1>4. /\ m'.s_active = m.s_active /\ m'.flash = m.flash /\ m'.s_key = m.s_key
      /\ m'.s_authorized = m.s_authorized /\ m'.cancelled = m.cancelled /\ m'.table = m.table
      /\ m'.s_new = m.s_new /\ DOMAIN m' = Fields
  BY <1>1 DEF BeginsIn, Only, Fields
<1> QED BY <1>1, <1>2, <1>3, <1>4, BeginsInv DEF Begins

LEMMA RetrieveLoadsInv == ASSUME BoardInv, RetrieveLoads PROVE BoardInv'
<1>1. /\ m.loc = "retEnter"
      /\ \/ Ends /\ Only(EndsIn \cup {"g_state"}) /\ m'.g_state = "INIT"
         \/ /\ m'.loc = "ret34" /\ Only({"loc", "table"})
            /\ \/ m'.table = m.flash[m.s_active].table
               \/ m.cancelled /\ m'.table = BlankTable
  BY RetrieveLoadsDoes DEF BoardInv, Types
<1>2. CASE Ends /\ Only(EndsIn \cup {"g_state"}) /\ m'.g_state = "INIT"
  BY <1>2, EndsInv DEF Only, EndsIn, Fields
<1>3. CASE /\ m'.loc = "ret34" /\ Only({"loc", "table"})
           /\ \/ m'.table = m.flash[m.s_active].table
              \/ m.cancelled /\ m'.table = BlankTable
  <2>1. /\ m'.s_active = m.s_active /\ m'.flash = m.flash /\ m'.s_key = m.s_key
        /\ m'.s_authorized = m.s_authorized /\ m'.runs = m.runs
        /\ m'.s_new = m.s_new /\ m'.cancelled = m.cancelled /\ m'.mode = m.mode
        /\ m'.g_state = m.g_state /\ DOMAIN m' = Fields
    BY <1>3 DEF Only, Fields
  <2>2. IsTable(m'.table, m.runs)
    <3>1. m.s_active \in Sectors /\ m.runs \in Nat
      BY <1>1 DEF BoardInv, Types, Places, Sessions
    <3> HIDE DEF BlankTable
    <3> QED BY <1>3, <3>1, BlankIsTable DEF BoardInv, Types, IsSlot
  <2>3. m.g_state = "RETRIEVE" => m'.table = m.flash[m.s_active].table
    BY <1>3 DEF BoardInv, Sessions
  <2> HIDE DEF BlankTable
  <2> QED BY <1>1, <1>3, <2>1, <2>2, <2>3
          DEF BoardInv, Types, Places, Sessions, KeyLines, Keying, Committing, Naming, Reading
<1> QED BY <1>1, <1>2, <1>3

LEMMA RetrieveEnteredInv == ASSUME BoardInv, RetrieveEntered PROVE BoardInv'
<1>1. m.loc = "ret34" /\ Ends /\ Only(EndsIn)
  BY RetrieveEnteredDoes DEF BoardInv, Types
<1> QED BY <1>1, EndsInv DEF BoardInv, Sessions, Reading, Only, EndsIn, Fields

LEMMA RetrieveLineInv == ASSUME BoardInv, RetrieveLine PROVE BoardInv'
<1>1. /\ m.loc = "idle" /\ m.g_state = "RETRIEVE" /\ m.s_authorized /\ Begins("RETRIEVE")
      /\ m'.loc = "ret80" /\ Only(BeginsIn \cup {"line"}) /\ m'.line \in Typed
  BY RetrieveLineDoes DEF BoardInv, Types, Begins
<1>2. IsTable(m.table, m.runs + 1) /\ m.s_active # 0 /\ m.s_new \in Keys \cup {None}
  BY <1>1, TableLasts DEF BoardInv, Types, Sessions
<1>3. /\ m'.s_active = m.s_active /\ m'.flash = m.flash /\ m'.s_key = m.s_key
      /\ m'.s_authorized = m.s_authorized /\ m'.cancelled = m.cancelled /\ m'.table = m.table
      /\ m'.s_new = m.s_new /\ DOMAIN m' = Fields
  BY <1>1 DEF BeginsIn, Only, Fields
<1>4. Places' /\ Keying' /\ Committing' /\ Naming' /\ Reading'
  BY <1>1, <1>3 DEF BoardInv, Places, Keying, Committing, Naming, Reading, Begins
<1> QED BY <1>1, <1>2, <1>3, <1>4, BeginsInv DEF Begins

LEMMA RetrieveTakesInv == ASSUME BoardInv, RetrieveTakes PROVE BoardInv'
<1>1. /\ m.loc = "ret80"
      /\ \/ /\ Ends /\ Only(EndsIn \cup {"g_state", "table"})
            /\ m'.g_state = "MODE_SELECTION" /\ m'.table = BlankTable
         \/ /\ m'.loc = "printed" /\ Only({"loc", "printed"})
            /\ m'.printed = IF ParseId(m.line) < Entries THEN m.table[ParseId(m.line)] ELSE None
  BY RetrieveTakesDoes DEF BoardInv, Types
<1>2. CASE /\ Ends /\ Only(EndsIn \cup {"g_state", "table"})
           /\ m'.g_state = "MODE_SELECTION" /\ m'.table = BlankTable
  BY <1>2, EndsInv DEF Only, EndsIn, Fields
<1>3. CASE /\ m'.loc = "printed" /\ Only({"loc", "printed"})
           /\ m'.printed = IF ParseId(m.line) < Entries THEN m.table[ParseId(m.line)] ELSE None
  <2>1. /\ m'.s_active = m.s_active /\ m'.flash = m.flash /\ m'.s_key = m.s_key
        /\ m'.s_authorized = m.s_authorized /\ m'.runs = m.runs /\ m'.table = m.table
        /\ m'.s_new = m.s_new /\ m'.cancelled = m.cancelled /\ m'.mode = m.mode
        /\ m'.g_state = m.g_state /\ m'.line = m.line /\ DOMAIN m' = Fields
    BY <1>3 DEF Only, Fields
  <2>2. m.line \in Typed
    BY <1>1 DEF BoardInv, Reading
  <2>3. ParseId(m.line) \in Nat
    BY <2>2, ParseIdType, BoardAssumption
  <2> HIDE DEF ParseId
  <2>4. Types' /\ Places' /\ Sessions' /\ Keying' /\ Committing' /\ Naming'
    BY <1>1, <1>3, <2>1 DEF BoardInv, Types, Places, Sessions, KeyLines, Keying, Committing, Naming
  <2>5. Reading'
    BY <1>1, <1>3, <2>1, <2>2, <2>3, BoardAssumption DEF BoardInv, Reading
  <2> QED BY <2>4, <2>5 DEF BoardInv
<1> QED BY <1>1, <1>2, <1>3

LEMMA RetrievePrintedInv == ASSUME BoardInv, RetrievePrinted PROVE BoardInv'
<1>1. From("printed", "ret88") /\ Only({"loc"})
  BY RetrievePrintedDoes DEF BoardInv, Types
<1>2. /\ m'.s_active = m.s_active /\ m'.flash = m.flash /\ m'.s_key = m.s_key
      /\ m'.s_authorized = m.s_authorized /\ m'.runs = m.runs /\ m'.table = m.table
      /\ m'.s_new = m.s_new /\ m'.cancelled = m.cancelled /\ m'.mode = m.mode
      /\ m'.g_state = m.g_state /\ m'.line = m.line /\ m'.printed = m.printed /\ DOMAIN m' = Fields
  BY <1>1 DEF Only, Fields
<1> QED BY <1>1, <1>2
        DEF BoardInv, Types, Places, Sessions, KeyLines, Keying, Committing, Naming, Reading, From

LEMMA RetrieveShownInv == ASSUME BoardInv, RetrieveShown PROVE BoardInv'
<1>1. m.loc = "ret88" /\ Ends /\ Only(EndsIn)
  BY RetrieveShownDoes DEF BoardInv, Types
<1> QED BY <1>1, EndsInv DEF BoardInv, Sessions, Reading, Only, EndsIn, Fields

LEMMA GenerateLinesInv == ASSUME BoardInv, GenerateLines PROVE BoardInv'
<1>1. /\ m.loc = "idle" /\ m.s_authorized /\ Begins("GENERATE") /\ m'.loc = "gen370"
      /\ Only(BeginsIn \cup {"id", "name", "rounds", "pwd", "table"})
      /\ m'.id \in Ids /\ m'.name = m.runs + 1
      /\ m'.table = m.flash[m.s_active].table
  BY GenerateLinesDoes DEF BoardInv, Types, Begins
<1>2. m.s_active \in Sectors /\ m.s_new \in Keys \cup {None} /\ m.runs \in Nat
  BY <1>1 DEF BoardInv, Types, Sessions
<1>3. /\ m'.s_active = m.s_active /\ m'.flash = m.flash /\ m'.s_key = m.s_key
      /\ m'.s_authorized = m.s_authorized /\ m'.cancelled = m.cancelled
      /\ m'.s_new = m.s_new /\ DOMAIN m' = Fields
  BY <1>1 DEF BeginsIn, Only, Fields
<1>4. /\ IsTable(m'.table, m.runs + 1)
      /\ \A s \in Sectors, i \in 0..Entries - 1 : m.flash[s].table[i].name < m.runs + 1
  BY <1>1, <1>2, SlotLasts DEF BoardInv, Types, IsSlot
<1>5. Naming'
  BY <1>1, <1>3, <1>4, BoardAssumption DEF Naming, Begins
<1>6. Places' /\ Keying' /\ Committing' /\ Reading'
  BY <1>1, <1>3 DEF Places, Keying, Committing, Reading, Begins
<1>7. IsTable(m'.table, m'.runs) /\ m'.loc # "idle" /\ m'.s_new \in Keys \cup {None}
  BY <1>1, <1>2, <1>3, <1>4 DEF Begins
<1> QED BY <1>1, <1>2, <1>3, <1>5, <1>6, <1>7, BeginsInv DEF Sectors

LEMMA GenerateGivenUpInv == ASSUME BoardInv, GenerateGivenUp PROVE BoardInv'
<1>1. /\ m.loc \in {"gen370", "gen386", "gen216"}
      /\ Ends /\ Only(EndsIn \cup {"g_state", "table", "pwd"}) /\ m'.table = BlankTable
      /\ m'.g_state \in {m.g_state, "MODE_SELECTION"}
  BY GenerateGivenUpDoes DEF BoardInv, Types
<1> QED BY <1>1, EndsInv DEF BoardInv, Places, Only, EndsIn, Fields

\* From one line of a generation to the next.
LEMMA GeneratingInv ==
  ASSUME BoardInv, m.loc \in {"gen370", "gen386", "gen216"},
         m'.loc \in {"gen370", "gen386", "gen216", "gen424"}, Only({"loc", "value", "rounds", "pwd"})
  PROVE  BoardInv'
<1>1. /\ m'.s_active = m.s_active /\ m'.flash = m.flash /\ m'.s_key = m.s_key
      /\ m'.s_authorized = m.s_authorized /\ m'.runs = m.runs /\ m'.table = m.table
      /\ m'.s_new = m.s_new /\ m'.cancelled = m.cancelled /\ m'.mode = m.mode
      /\ m'.g_state = m.g_state /\ m'.id = m.id /\ m'.name = m.name /\ DOMAIN m' = Fields
  BY DEF Only, Fields
<1> QED BY <1>1
        DEF BoardInv, Types, Places, Sessions, KeyLines, Keying, Committing, Naming, Reading

LEMMA AbsorbTempInv == ASSUME BoardInv, AbsorbTemp PROVE BoardInv'
BY AbsorbTempDoes, GeneratingInv DEF BoardInv, Types, Only, From, Fields

LEMMA AbsorbLightInv == ASSUME BoardInv, AbsorbLight PROVE BoardInv'
BY AbsorbLightDoes, GeneratingInv DEF BoardInv, Types, Only, Draw, Fields

LEMMA MapCharInv == ASSUME BoardInv, MapChar PROVE BoardInv'
BY MapCharDoes, GeneratingInv DEF BoardInv, Types, Only, Draw, Fields

LEMMA GenerateReturnsInv == ASSUME BoardInv, GenerateReturns PROVE BoardInv'
<1>1. /\ Ends /\ Only(EndsIn \cup {"g_state", "table", "pwd"})
      /\ m'.g_state = "MODE_SELECTION" /\ m'.table = BlankTable
  BY GenerateReturnsDoes DEF BoardInv, Types
<1> QED BY <1>1, EndsInv DEF Only, EndsIn, Fields

\* A word written to a partition, or an erase of its last one, changes nothing
\* else of it.
LEMMA SlotWords ==
  ASSUME NEW p, NEW n, IsSlot(p, n), NEW w
  PROVE  LET q == [p EXCEPT !.words = w]
         IN  /\ IsSlot(q, n) /\ q.words = w
             /\ q.magic = p.magic /\ q.version = p.version /\ q.auth = p.auth /\ q.table = p.table
BY DEF IsSlot

\* The end of a commit as the flash sees it.
LEMMA TargetWords ==
  ASSUME BoardInv, m.loc = "flash72",
         \E w : m'.flash = [m.flash EXCEPT ![m.target] = [@ EXCEPT !.words = w]]
  PROVE  /\ m.target \in Sectors /\ m.target # m.s_active
         /\ DOMAIN m'.flash = Sectors
         /\ \A s \in Sectors : s # m.target => m'.flash[s] = m.flash[s]
         /\ \A s \in Sectors : IsSlot(m'.flash[s], m.runs)
         /\ LET p == m.flash[m.target]
                q == m'.flash[m.target]
            IN  q.magic = p.magic /\ q.version = p.version /\ q.auth = p.auth /\ q.table = p.table
<1>1. m.target \in Sectors /\ m.target # m.s_active
  BY DEF BoardInv, Committing, CommitTarget, Sectors
<1>2. PICK w : m'.flash = [m.flash EXCEPT ![m.target] = [@ EXCEPT !.words = w]]
  OBVIOUS
<1>3. DOMAIN m.flash = Sectors /\ \A s \in Sectors : IsSlot(m.flash[s], m.runs)
  BY DEF BoardInv, Types
<1>4. /\ DOMAIN m'.flash = Sectors
      /\ m'.flash[m.target] = [m.flash[m.target] EXCEPT !.words = w]
      /\ \A s \in Sectors : s # m.target => m'.flash[s] = m.flash[s]
  BY <1>1, <1>2, <1>3, Zenon
<1> DEFINE p == m.flash[m.target]
           q == m'.flash[m.target]
<1>5. /\ IsSlot(q, m.runs)
      /\ q.magic = p.magic /\ q.version = p.version /\ q.auth = p.auth /\ q.table = p.table
  <2>1. IsSlot(p, m.runs) /\ q = [p EXCEPT !.words = w]
    BY <1>1, <1>3, <1>4
  <2> HIDE DEF p, q
  <2> QED BY <2>1, SlotWords
<1>6. \A s \in Sectors : IsSlot(m'.flash[s], m.runs)
  <2> TAKE s \in Sectors
  <2>1. CASE s = m.target
    BY <2>1, <1>5
  <2>2. CASE s # m.target
    BY <2>2, <1>3, <1>4
  <2> QED BY <2>1, <2>2
<1> QED BY <1>1, <1>4, <1>5, <1>6

LEMMA CommitBeginsInv == ASSUME BoardInv, NEW word, CommitBegins(word) PROVE BoardInv'
<1>0. /\ m.loc = "kdf78" /\ m.mode # "MK_AUTH"
      /\ \/ /\ m.cancelled /\ m'.loc = "session202" /\ Only({"loc", "result"})
            /\ m'.result = "CANCELLED"
         \/ /\ ~ m.cancelled /\ m'.loc = "flash72" /\ Only({"loc", "target", "flash"})
            /\ m'.target = CommitTarget(m)
            /\ m'.flash = [m.flash EXCEPT ![m'.target] = Writing(m, m.derived, word + 1)]
  BY CommitBeginsDoes DEF BoardInv, Types
<1>1. CASE /\ m.cancelled /\ m'.loc = "session202" /\ Only({"loc", "result"})
           /\ m'.result = "CANCELLED"
  <2>1. /\ m'.s_active = m.s_active /\ m'.flash = m.flash /\ m'.s_key = m.s_key
        /\ m'.s_authorized = m.s_authorized /\ m'.runs = m.runs /\ m'.table = m.table
        /\ m'.s_new = m.s_new /\ m'.cancelled = m.cancelled /\ m'.mode = m.mode
        /\ m'.g_state = m.g_state /\ DOMAIN m' = Fields
    BY <1>1 DEF Only, Fields
  <2> QED BY <1>0, <1>1, <2>1
          DEF BoardInv, Types, Places, Sessions, KeyLines, Keying, Committing, Naming, Reading
<1>2. CASE /\ ~ m.cancelled /\ m'.loc = "flash72" /\ Only({"loc", "target", "flash"})
           /\ m'.target = CommitTarget(m)
           /\ m'.flash = [m.flash EXCEPT ![m'.target] = Writing(m, m.derived, word + 1)]
  <2> DEFINE p == Writing(m, m.derived, word + 1)
  <2>1. /\ m'.s_active = m.s_active /\ m'.s_key = m.s_key
        /\ m'.s_authorized = m.s_authorized /\ m'.runs = m.runs /\ m'.table = m.table
        /\ m'.s_new = m.s_new /\ m'.cancelled = m.cancelled /\ m'.mode = m.mode
        /\ m'.g_state = m.g_state /\ m'.derived = m.derived /\ DOMAIN m' = Fields
    BY <1>2 DEF Only, Fields
  <2>2. m'.target \in Sectors /\ m'.target # m.s_active /\ (m.s_active = 0 => m'.target = 2)
    BY <1>2 DEF CommitTarget, Sectors
  <2>3. /\ p.version = NewVersion(m) /\ p.magic = "magic" /\ p.auth = m.derived /\ p.table = m.table
        /\ DOMAIN p = {"magic", "version", "auth", "table", "words"}
    BY DEF Writing
  <2>4. m.derived \in Auths
    BY <1>0 DEF BoardInv, Keying
  <2> HIDE DEF p
  <2>5. NewVersion(m) \in Nat
    BY DEF BoardInv, Types, IsSlot, NewVersion
  <2>6. IsSlot(p, m.runs)
    BY <2>3, <2>4, <2>5 DEF IsSlot, BoardInv, Types
  <2>7. /\ DOMAIN m'.flash = Sectors /\ m'.flash[m'.target] = p
        /\ \A s \in Sectors : s # m'.target => m'.flash[s] = m.flash[s]
    BY <1>2, <2>2 DEF p, BoardInv, Types
  <2>8. NewVersion(m') = NewVersion(m) /\ CommitTarget(m') = CommitTarget(m)
    BY <2>1, <2>2, <2>7 DEF NewVersion, CommitTarget, BoardInv, Types
  <2>9. Types'
    BY <2>1, <2>6, <2>7 DEF BoardInv, Types
  <2>10. Places' /\ Naming' /\ Keying'
    BY <1>0, <1>2, <2>1 DEF BoardInv, Places, Naming, Keying
  <2>11. Sessions'
    BY <1>0, <1>2, <2>1, <2>2, <2>7 DEF BoardInv, Types, Sessions, KeyLines, Sectors, Places
  <2>12. Committing'
    BY <1>0, <1>2, <2>1, <2>3, <2>4, <2>7, <2>8 DEF BoardInv, Places, Committing
  <2>13. Reading'
    BY <1>0, <1>2, <2>1 DEF BoardInv, Places, Reading
  <2> QED BY <2>9, <2>10, <2>11, <2>12, <2>13 DEF BoardInv
<1> QED BY <1>0, <1>1, <1>2

LEMMA CommitEndsInv == ASSUME BoardInv, CommitEnds PROVE BoardInv'
<1>1. /\ From("flash72", "session202") /\ m.mode # "GENERATE"
      /\ Only({"loc", "result", "flash", "s_active", "s_key", "s_authorized"})
      /\ \E w : m'.flash = [m.flash EXCEPT ![m.target] = [@ EXCEPT !.words = w]]
      /\ \/ /\ m'.result = "STORAGE_ERROR" /\ m'.s_active = m.s_active
            /\ m'.s_key = m.s_key /\ m'.s_authorized = m.s_authorized
         \/ /\ m'.s_active = m.target
            /\ IF m.cancelled
                 THEN /\ m'.result = "CANCELLED" /\ m'.s_key = m.s_key
                      /\ m'.s_authorized = m.s_authorized
                 ELSE m'.result = "OK" /\ m'.s_key = m.derived /\ m'.s_authorized = TRUE
  <2>1. DOMAIN m = Fields
    BY DEF BoardInv, Types
  <2> QED BY <2>1, CommitEndsDoes
<1>2. /\ m.target \in Sectors /\ m.target # m.s_active
      /\ DOMAIN m'.flash = Sectors
      /\ \A s \in Sectors : s # m.target => m'.flash[s] = m.flash[s]
      /\ \A s \in Sectors : IsSlot(m'.flash[s], m.runs)
      /\ m'.flash[m.target].auth = m.flash[m.target].auth
  BY <1>1, TargetWords DEF From
<1>3. /\ m'.runs = m.runs /\ m'.table = m.table /\ m'.s_new = m.s_new
      /\ m'.cancelled = m.cancelled /\ m'.mode = m.mode /\ m'.derived = m.derived
      /\ m'.g_state = m.g_state /\ DOMAIN m' = Fields
  BY <1>1 DEF Only, Fields
<1>4. /\ m.derived \in Auths /\ m.flash[m.target].auth = m.derived /\ None \notin Auths
      /\ m.s_active = 0 => m.target = 2
  BY <1>1, NoneAssumption DEF BoardInv, Committing, CommitTarget, From, Auths
<1>5. Types'
  BY <1>1, <1>2, <1>3 DEF BoardInv, Types
<1>6. Places' /\ Committing' /\ Naming'
  BY <1>1, <1>3 DEF BoardInv, Places, Committing, Naming, From
<1>7. Sessions'
  BY <1>1, <1>2, <1>3, <1>4 DEF BoardInv, Types, Sessions, KeyLines, Sectors, From
<1>8. Keying'
  BY <1>1, <1>2, <1>3, <1>4 DEF Keying, From, Sectors
<1>9. Reading'
  BY <1>1, <1>3 DEF BoardInv, Reading, Places, From
<1> QED BY <1>5, <1>6, <1>7, <1>8, <1>9 DEF BoardInv

LEMMA SaveBeginsInv == ASSUME BoardInv, NEW word, SaveBegins(word) PROVE BoardInv'
<1> DEFINE entry == [name |-> m.name, pwd |-> m.pwd]
           p == [magic |-> "magic", version |-> NewVersion(m), auth |-> m.flash[m.s_active].auth,
                 table |-> m'.table, words |-> word + 1]
<1>0. /\ From("gen424", "flash72") /\ Only({"loc", "target", "flash", "table"})
      /\ m'.table = [m.table EXCEPT ![m.id] = entry]
      /\ m'.target = CommitTarget(m)
      /\ m'.flash = [m.flash EXCEPT ![m'.target] = p]
  BY SaveBeginsDoes DEF BoardInv, Types
<1>1. /\ m'.s_active = m.s_active /\ m'.s_key = m.s_key
      /\ m'.s_authorized = m.s_authorized /\ m'.runs = m.runs /\ m'.id = m.id
      /\ m'.s_new = m.s_new /\ m'.cancelled = m.cancelled /\ m'.mode = m.mode
      /\ m'.g_state = m.g_state /\ m'.name = m.name /\ m'.pwd = m.pwd /\ DOMAIN m' = Fields
  BY <1>0 DEF Only, Fields
<1>2. /\ m'.target \in Sectors /\ m'.target # m.s_active /\ m.s_active \in Sectors
      /\ m.mode = "GENERATE"
  BY <1>0 DEF CommitTarget, Sectors, BoardInv, Types, Sessions, Places, From
<1>3. m.name = m.runs /\ m.id \in 0..Entries - 1 /\ m.runs \in Nat
  BY <1>0 DEF BoardInv, Types, Naming, From
<1>4. IsTable(m'.table, m.runs) /\ m'.table[m.id] = entry
  <2>1. IsTable(m.table, m.runs) /\ entry.name = m.runs
    BY <1>3 DEF BoardInv, Types
  <2> DEFINE t == m'.table
  <2>2. DOMAIN m.table = 0..Entries - 1 /\ \A i \in 0..Entries - 1 : m.table[i].name \in 0..m.runs
    BY <2>1 DEF IsTable
  <2> HIDE DEF entry
  <2>3. /\ DOMAIN t = 0..Entries - 1 /\ t[m.id] = entry
        /\ \A i \in 0..Entries - 1 : i # m.id => t[i] = m.table[i]
    BY <1>0, <1>3, <2>2, Zenon
  <2> HIDE DEF t
  <2>4. \A i \in 0..Entries - 1 : t[i].name \in 0..m.runs
    BY <1>3, <2>1, <2>2, <2>3
  <2> QED BY <2>3, <2>4 DEF IsTable, t
<1>5. /\ p.version = NewVersion(m) /\ p.magic = "magic" /\ p.auth = m.flash[m.s_active].auth
      /\ p.table = m'.table /\ DOMAIN p = {"magic", "version", "auth", "table", "words"}
  OBVIOUS
<1> HIDE DEF p
<1>6. NewVersion(m) \in Nat /\ m.flash[m.s_active].auth \in Auths
  BY <1>2 DEF BoardInv, Types, IsSlot, NewVersion, Sessions, Sectors
<1>7. IsSlot(p, m.runs)
  BY <1>4, <1>5, <1>6 DEF IsSlot
<1>8. /\ DOMAIN m'.flash = Sectors /\ m'.flash[m'.target] = p
      /\ \A s \in Sectors : s # m'.target => m'.flash[s] = m.flash[s]
  BY <1>0, <1>2 DEF BoardInv, Types
<1>9. NewVersion(m') = NewVersion(m) /\ CommitTarget(m') = CommitTarget(m)
  BY <1>1, <1>2, <1>8 DEF NewVersion, CommitTarget
<1>10. Types'
  BY <1>1, <1>4, <1>7, <1>8 DEF BoardInv, Types
<1>11. Places' /\ Keying'
  BY <1>0, <1>1, <1>2 DEF BoardInv, Places, Keying, From
<1>12. Sessions'
  BY <1>0, <1>1, <1>2, <1>8 DEF BoardInv, Types, Sessions, KeyLines, Sectors, Places, From
<1>13. Committing'
  <2>1. m'.flash[m'.target].table[m'.id] = [name |-> m'.name, pwd |-> m'.pwd]
    BY <1>1, <1>4, <1>5, <1>8
  <2>2. /\ m'.target = CommitTarget(m') /\ m'.flash[m'.target].version = NewVersion(m')
        /\ m'.flash[m'.target].magic = "magic"
        /\ m'.flash[m'.target].auth = m'.flash[m'.s_active].auth
    BY <1>0, <1>1, <1>2, <1>5, <1>8, <1>9
  <2> QED BY <1>1, <1>2, <2>1, <2>2 DEF Committing
<1>14. Naming'
  BY <1>0, <1>1, <1>2, <1>3, <1>8 DEF BoardInv, Naming, From
<1>15. Reading'
  BY <1>0, <1>1, <1>2 DEF BoardInv, Places, Reading, From
<1> QED BY <1>10, <1>11, <1>12, <1>13, <1>14, <1>15 DEF BoardInv

LEMMA SaveEndsInv == ASSUME BoardInv, SaveEnds PROVE BoardInv'
<1>1. /\ From("flash72", "gen428") /\ m.mode = "GENERATE"
      /\ Only({"loc", "result", "flash", "s_active"})
      /\ \E w : m'.flash = [m.flash EXCEPT ![m.target] = [@ EXCEPT !.words = w]]
      /\ \/ m'.result = "saved" /\ m'.s_active = m.target
         \/ m'.result = "failed" /\ m'.s_active = m.s_active
  <2>1. DOMAIN m = Fields
    BY DEF BoardInv, Types
  <2> QED BY <2>1, SaveEndsDoes
<1>2. /\ m.target \in Sectors /\ m.target # m.s_active
      /\ DOMAIN m'.flash = Sectors
      /\ \A s \in Sectors : s # m.target => m'.flash[s] = m.flash[s]
      /\ \A s \in Sectors : IsSlot(m'.flash[s], m.runs)
      /\ m'.flash[m.target].auth = m.flash[m.target].auth
      /\ m'.flash[m.target].table = m.flash[m.target].table
  BY <1>1, TargetWords DEF From
<1>3. /\ m'.runs = m.runs /\ m'.table = m.table /\ m'.s_new = m.s_new /\ m'.id = m.id
      /\ m'.cancelled = m.cancelled /\ m'.mode = m.mode /\ m'.name = m.name /\ m'.pwd = m.pwd
      /\ m'.g_state = m.g_state /\ m'.s_key = m.s_key /\ m'.s_authorized = m.s_authorized
      /\ DOMAIN m' = Fields
  BY <1>1 DEF Only, Fields
<1>4. /\ m.flash[m.target].auth = m.flash[m.s_active].auth
      /\ m.flash[m.target].table[m.id] = [name |-> m.name, pwd |-> m.pwd]
      /\ m.s_active \in Sectors
  BY <1>1 DEF BoardInv, Types, Sessions, Committing, From
<1>5. /\ m.id \in 0..Entries - 1 /\ m.name = m.runs
      /\ \A i \in 0..Entries - 1 : m.flash[m.s_active].table[i].name < m.runs
  BY <1>1 DEF BoardInv, Naming, From
<1>6. Types'
  BY <1>1, <1>2, <1>3 DEF BoardInv, Types
<1>7. Places' /\ Committing' /\ Keying'
  BY <1>1, <1>3 DEF BoardInv, Places, Committing, Keying, From
<1>8. Sessions'
  BY <1>1, <1>2, <1>3, <1>4 DEF BoardInv, Types, Sessions, KeyLines, Sectors, From
<1>9. Naming'
  BY <1>1, <1>2, <1>3, <1>4, <1>5 DEF Naming, From
<1>10. Reading'
  BY <1>1, <1>3 DEF BoardInv, Reading, Places, From
<1> QED BY <1>6, <1>7, <1>8, <1>9, <1>10 DEF BoardInv

LEMMA PanicInv == ASSUME BoardInv, Panic PROVE BoardInv'
<1>1. /\ ~ Masked
      /\ Only({"g_state", "s_authorized", "s_key", "s_new", "table", "pwd", "cancelled", "panics"})
      /\ m'.g_state = "INIT" /\ m'.s_authorized = FALSE /\ m'.s_key = None /\ m'.s_new = None
      /\ m'.table = BlankTable /\ m'.cancelled = (m.loc # "idle")
  BY PanicDoes DEF BoardInv, Types
<1>2. /\ m'.s_active = m.s_active /\ m'.flash = m.flash /\ m'.runs = m.runs /\ m'.loc = m.loc
      /\ m'.mode = m.mode /\ m'.mk = m.mk /\ m'.salt = m.salt /\ m'.derived = m.derived
      /\ m'.result = m.result /\ m'.target = m.target /\ m'.name = m.name /\ m'.id = m.id
      /\ m'.line = m.line /\ m'.printed = m.printed /\ DOMAIN m' = Fields
  BY <1>1 DEF Only, Fields
<1>3. Types'
  BY <1>1, <1>2, BlankIsTable DEF BoardInv, Types
<1>4. Places' /\ Sessions'
  BY <1>1, <1>2 DEF BoardInv, Places, Sessions
<1>5. Keying'
  BY <1>1, <1>2 DEF BoardInv, Keying
<1>6. Committing'
  BY <1>1, <1>2 DEF BoardInv, Committing, CommitTarget, NewVersion, Masked
<1>7. Naming'
  BY <1>1, <1>2 DEF BoardInv, Naming, Masked, Places
<1>8. Reading'
  BY <1>1, <1>2 DEF BoardInv, Reading
<1> QED BY <1>3, <1>4, <1>5, <1>6, <1>7, <1>8 DEF BoardInv

\* The memory after a reset keeps the invariant.
BootKeeps ==
  \A flash, panics : \A runs \in Nat :
    /\ m = Boot(flash, runs, panics)
    /\ DOMAIN flash = Sectors /\ \A s \in Sectors : IsSlot(flash[s], runs)
    => BoardInv

LEMMA BootInv == BootKeeps
<1> SUFFICES ASSUME NEW flash, NEW panics, NEW runs \in Nat, m = Boot(flash, runs, panics),
                    DOMAIN flash = Sectors, \A s \in Sectors : IsSlot(flash[s], runs)
             PROVE  BoardInv
  BY DEF BootKeeps
<1>0. Newest(flash) # 0 => flash[Newest(flash)].auth \in Auths
  BY DEF Newest, Valid, IsSlot, Sectors
<1>1. /\ DOMAIN m = Fields
      /\ m.g_state = IF Newest(flash) = 0 THEN "FIRST_MEET" ELSE "MK_AUTH"
      /\ m.s_authorized = FALSE /\ m.s_key = None /\ m.s_active = Newest(flash)
      /\ m.flash = flash /\ m.loc = "idle" /\ m.s_new = None /\ m.table = BlankTable
      /\ m.cancelled = FALSE /\ m.runs = runs
  BY DEF Boot, Fields
<1>2. Newest(flash) \in {0} \cup Sectors /\ (Newest(flash) = 0 => ~ Valid(flash[3]))
  BY DEF Newest, Sectors
<1>3. Types
  BY <1>1, <1>2, BlankIsTable DEF Types
<1>4. Places /\ Keying /\ Committing /\ Naming /\ Reading
  BY <1>1 DEF Places, Keying, Committing, Naming, Reading
<1>5. Sessions
  BY <1>0, <1>1, <1>2 DEF Sessions, KeyLines
<1> QED BY <1>3, <1>4, <1>5 DEF BoardInv

LEMMA BootInvNext == BootKeeps'
BY BootInv, PTL

\* Every step of the core keeps the invariant.
CoreStep(word) == MainLoop \/ SetKey(word) \/ Retrieve \/ Generate(word)

LEMMA CoreStepInv == ASSUME BoardInv, NEW word, CoreStep(word) PROVE BoardInv'
<1>1. CASE MainLoop
  BY <1>1, InitRunsInv, LoginLineInv, AuthenticateInv, CompareInv, LoginReturnsInv, EnterMenuInv
     DEF MainLoop
<1>2. CASE SetKey(word)
  BY <1>2, FirstMeetLinesInv, FirstMeetConfirmInv, ChangeLinesInv, ChangeCancelledInv,
     ChangeConfirmInv, ChangeApplyInv, SetNewKeyInv, DeriveNewInv, CommitBeginsInv, CommitEndsInv,
     SetReturnsInv, ChangeDoneInv DEF SetKey
<1>3. CASE Retrieve
  BY <1>3, RetrieveChosenInv, RetrieveLoadsInv, RetrieveEnteredInv, RetrieveLineInv,
     RetrieveTakesInv, RetrievePrintedInv, RetrieveShownInv DEF Retrieve
<1>4. CASE Generate(word)
  BY <1>4, GenerateLinesInv, GenerateGivenUpInv, AbsorbTempInv, AbsorbLightInv, MapCharInv,
     SaveBeginsInv, SaveEndsInv, GenerateReturnsInv DEF Generate
<1> QED BY <1>1, <1>2, <1>3, <1>4 DEF CoreStep

-----------------------------------------------------------------------------
(* The steps of the core from line to line.                                *)

\* Where the core goes from each line, and what of m changes on the way.
LoginMoves ==
  \/ From("idle", "idle")
  \/ Begins("MK_AUTH") /\ m'.loc = "auth"
  \/ From("auth", "kdf78") /\ Only({"loc", "salt", "derived", "cancelled"})
  \/ From("auth", "session161") /\ Only({"loc", "salt", "derived", "result"})
  \/ /\ From("kdf78", "session161") /\ m.mode = "MK_AUTH"
     /\ Only({"loc", "result", "s_key", "s_authorized"})
     /\ m'.result = "OK" <=> m.derived = m.flash[m.s_active].auth /\ ~ m.cancelled
  \/ From("session161", "app167") /\ m.result = "OK"
  \/ m.loc = "session161" /\ m.result # "OK" /\ Ends
  \/ m.loc \in {"app167", "app153"} /\ Ends

KeyMoves ==
  \/ Begins("FIRST_MEET") /\ m'.loc = "first63"
  \/ From("first63", "setNewKey") /\ EntriesMatch(m) /\ Only({"loc"})
  \/ m.loc = "first63" /\ ~ EntriesMatch(m) /\ Ends
  \/ Begins("CHANGE_MK") /\ m'.loc \in {"change87", "app211"}
  \/ /\ From("change87", "change66") /\ EntriesMatch(m) /\ m.s_key # None
  \/ From("change87", "app211") /\ EntriesMatch(m) /\ m.s_key = None
  \/ m.loc = "change87" /\ ~ EntriesMatch(m) /\ Ends
  \/ From("change66", "setNewKey") /\ Only({"loc"})
  \/ m.loc = "setNewKey" /\ (Ends \/ m'.loc = "app211")
  \/ From("setNewKey", "deriving") /\ Only({"loc", "cancelled", "salt", "mk"})
  \/ From("deriving", "kdf78") /\ Only({"loc", "derived"})
  \/ From("deriving", "session202") /\ m.cancelled /\ Only({"loc", "derived", "result"})
  \/ /\ From("kdf78", "session202") /\ m.mode # "MK_AUTH" /\ m.cancelled
     /\ Only({"loc", "result"})
  \/ /\ From("kdf78", "flash72") /\ m.mode # "MK_AUTH" /\ Only({"loc", "target", "flash"})
  \/ CommitEnds
  \/ m.loc = "session202" /\ (Ends \/ m'.loc \in {"app211", "app153"})
  \/ m.loc = "app211" /\ Ends

RetrieveMoves ==
  \/ Begins("RETRIEVE") /\ m'.loc \in {"retEnter", "ret80"}
  \/ m.loc \in {"retEnter", "ret34", "ret88"} /\ Ends
  \/ m.loc = "ret80" /\ Leaves(m.line) /\ Ends
  \/ From("retEnter", "ret34") /\ Only({"loc", "table"})
  \/ /\ From("ret80", "printed") /\ Only({"loc", "printed"})
     /\ m'.printed = IF ParseId(m.line) < Entries THEN m.table[ParseId(m.line)] ELSE None
  \/ From("printed", "ret88") /\ Only({"loc"})

GenerateMoves ==
  \/ Begins("GENERATE") /\ m'.loc = "gen370" /\ m'.rounds = 1
  \/ m.loc \in {"gen370", "gen386", "gen428"} /\ Ends
  \/ m.loc = "gen216" /\ m.cancelled /\ Ends
  \/ From("gen370", "gen386") /\ ~ m.cancelled /\ Only({"loc"})
  \/ m.loc = "gen386" /\ ~ m.cancelled /\ Draw /\ Only({"loc", "value", "rounds"})
  \/ /\ m.loc = "gen216" /\ ~ m.cancelled /\ Draw /\ Only({"loc", "value", "rounds", "pwd"})
     /\ m'.pwd = IF m.value < Threshold THEN Append(m.pwd, m.value % CharsetLen) ELSE m.pwd
  \/ From("gen424", "flash72") /\ Only({"loc", "target", "flash", "table"})
  \/ From("flash72", "gen428") /\ m.mode = "GENERATE" /\ Only({"loc", "result", "flash", "s_active"})

Moves == LoginMoves \/ KeyMoves \/ RetrieveMoves \/ GenerateMoves

LEMMA CoreMoves == ASSUME DOMAIN m = Fields, NEW word, CoreStep(word) PROVE Moves
<1>1. CASE MainLoop
  <2>1. CASE InitRuns
    BY <2>1, InitRunsDoes DEF Moves, LoginMoves
  <2>2. CASE LoginLine
    BY <2>2, LoginLineDoes DEF Moves, LoginMoves, Begins
  <2>3. CASE Authenticate
    BY <2>3, AuthenticateDoes DEF Moves, LoginMoves, From
  <2>4. CASE Compare
    BY <2>4, CompareDoes DEF Moves, LoginMoves
  <2>5. CASE LoginReturns
    BY <2>5, LoginReturnsDoes DEF Moves, LoginMoves, From
  <2>6. CASE EnterMenu
    BY <2>6, EnterMenuDoes DEF Moves, LoginMoves
  <2> QED BY <1>1, <2>1, <2>2, <2>3, <2>4, <2>5, <2>6 DEF MainLoop
<1>2. CASE SetKey(word)
  <2>1. CASE FirstMeetLines
    BY <2>1, FirstMeetLinesDoes DEF Moves, KeyMoves
  <2>2. CASE FirstMeetConfirm
    BY <2>2, FirstMeetConfirmDoes DEF Moves, KeyMoves, From
  <2>3. CASE ChangeLines \/ ChangeCancelled
    BY <2>3, ChangeLinesDoes, ChangeCancelledDoes DEF Moves, KeyMoves
  <2>4. CASE ChangeConfirm
    BY <2>4, ChangeConfirmDoes DEF Moves, KeyMoves, From
  <2>5. CASE ChangeApply
    BY <2>5, ChangeApplyDoes DEF Moves, KeyMoves
  <2>6. CASE SetNewKey
    BY <2>6, SetNewKeyDoes DEF Moves, KeyMoves, From
  <2>7. CASE DeriveNew
    BY <2>7, DeriveNewDoes DEF Moves, KeyMoves, From
  <2>8. CASE CommitBegins(word)
    BY <2>8, CommitBeginsDoes DEF Moves, KeyMoves, From
  <2>9. CASE CommitEnds
    BY <2>9 DEF Moves, KeyMoves
  <2>10. CASE SetReturns
    BY <2>10, SetReturnsDoes DEF Moves, KeyMoves
  <2>11. CASE ChangeDone
    BY <2>11, ChangeDoneDoes DEF Moves, KeyMoves
  <2> QED BY <1>2, <2>1, <2>2, <2>3, <2>4, <2>5, <2>6, <2>7, <2>8, <2>9, <2>10, <2>11 DEF SetKey
<1>3. CASE Retrieve
  <2>1. CASE RetrieveChosen \/ RetrieveLine
    BY <2>1, RetrieveChosenDoes, RetrieveLineDoes DEF Moves, RetrieveMoves
  <2>2. CASE RetrieveLoads \/ RetrieveEntered \/ RetrieveShown
    BY <2>2, RetrieveLoadsDoes, RetrieveEnteredDoes, RetrieveShownDoes DEF Moves, RetrieveMoves, From
  <2>3. CASE RetrieveTakes
    BY <2>3, RetrieveTakesDoes DEF Moves, RetrieveMoves, From
  <2>4. CASE RetrievePrinted
    BY <2>4, RetrievePrintedDoes DEF Moves, RetrieveMoves
  <2> QED BY <1>3, <2>1, <2>2, <2>3, <2>4 DEF Retrieve
<1>4. CASE Generate(word)
  <2>1. CASE GenerateLines
    BY <2>1, GenerateLinesDoes DEF Moves, GenerateMoves
  <2>2. CASE GenerateGivenUp \/ GenerateReturns
    BY <2>2, GenerateGivenUpDoes, GenerateReturnsDoes DEF Moves, GenerateMoves
  <2>3. CASE AbsorbTemp
    BY <2>3, AbsorbTempDoes DEF Moves, GenerateMoves
  <2>4. CASE AbsorbLight
    BY <2>4, AbsorbLightDoes DEF Moves, GenerateMoves
  <2>5. CASE MapChar
    BY <2>5, MapCharDoes DEF Moves, GenerateMoves
  <2>6. CASE SaveBegins(word)
    BY <2>6, SaveBeginsDoes DEF Moves, GenerateMoves
  <2>7. CASE SaveEnds
    BY <2>7, SaveEndsDoes DEF Moves, GenerateMoves
  <2> QED BY <1>4, <2>1, <2>2, <2>3, <2>4, <2>5, <2>6, <2>7 DEF Generate
<1> QED BY <1>1, <1>2, <1>3, <1>4 DEF CoreStep

\* The core stops at its next line if a breakpoint there asks for it, and at the
\* end of a "next".
CoreGoes ==
  /\ ~ halted /\ UNCHANGED <<stepping, armed>>
  /\ halted' = (Stops(m') \/ (stepping /\ m'.loc # "flash72"))

LEMMA GoesDoes == ASSUME NEW x, Goes(x), ~ halted PROVE CoreGoes
<1>1. m' = x /\ halted' = (Stops(x) \/ (stepping /\ x.loc # "flash72"))
  BY DEF Goes
<1> QED BY <1>1 DEF Goes, CoreGoes

LEMMA ReturnsGoes == ASSUME NEW x, Returns(x), ~ halted PROVE CoreGoes
BY GoesDoes DEF Returns

LEMMA DrawsGoes == ASSUME NEW x, Draws(x), ~ halted PROVE CoreGoes
BY GoesDoes DEF Draws

LEMMA StepGoes == ASSUME NEW word, CoreStep(word) PROVE CoreGoes
<1>1. CASE MainLoop
  <2>1. ASSUME InitRuns PROVE CoreGoes
    BY <2>1, GoesDoes DEF InitRuns, Runs
  <2>2. ASSUME LoginLine PROVE CoreGoes
    BY <2>2, GoesDoes DEF LoginLine, Starts, Runs
  <2>3. ASSUME Authenticate PROVE CoreGoes
    BY <2>3, GoesDoes DEF Authenticate, Runs
  <2>4. ASSUME Compare PROVE CoreGoes
    BY <2>4, GoesDoes DEF Compare, Runs
  <2>5. ASSUME LoginReturns \/ EnterMenu PROVE CoreGoes
    BY <2>5, GoesDoes, ReturnsGoes DEF LoginReturns, EnterMenu, Runs
  <2> QED BY <1>1, <2>1, <2>2, <2>3, <2>4, <2>5 DEF MainLoop
<1>2. CASE SetKey(word)
  <2>0. ASSUME NEW loc, NEW st, Confirm(loc, st), ~ halted PROVE CoreGoes
    BY <2>0, GoesDoes DEF Confirm
  <2>1. ASSUME FirstMeetLines \/ ChangeLines PROVE CoreGoes
    BY <2>0, <2>1 DEF FirstMeetLines, ChangeLines, Starts, Runs
  <2>2. ASSUME FirstMeetConfirm PROVE CoreGoes
    BY <2>2, GoesDoes, ReturnsGoes DEF FirstMeetConfirm, Runs
  <2>3. ASSUME ChangeCancelled PROVE CoreGoes
    BY <2>3, GoesDoes DEF ChangeCancelled, Starts, Runs
  <2>4. ASSUME ChangeConfirm PROVE CoreGoes
    BY <2>4, GoesDoes, ReturnsGoes DEF ChangeConfirm, Runs
  <2>5. ASSUME ChangeApply PROVE CoreGoes
    BY <2>5, GoesDoes DEF ChangeApply, Runs
  <2>6. ASSUME SetNewKey PROVE CoreGoes
    BY <2>6, GoesDoes, ReturnsGoes DEF SetNewKey, Runs
  <2>7. ASSUME DeriveNew PROVE CoreGoes
    BY <2>7, GoesDoes DEF DeriveNew, Runs
  <2>8. ASSUME CommitBegins(word) PROVE CoreGoes
    BY <2>8, GoesDoes DEF CommitBegins, Runs
  <2>9. ASSUME CommitEnds PROVE CoreGoes
    BY <2>9, GoesDoes DEF CommitEnds, Runs
  <2>10. ASSUME SetReturns \/ ChangeDone PROVE CoreGoes
    BY <2>10, GoesDoes, ReturnsGoes DEF SetReturns, ChangeDone, Runs
  <2> QED BY <1>2, <2>1, <2>2, <2>3, <2>4, <2>5, <2>6, <2>7, <2>8, <2>9, <2>10 DEF SetKey
<1>3. CASE Retrieve
  BY <1>3, GoesDoes, ReturnsGoes
     DEF Retrieve, RetrieveChosen, RetrieveLoads, RetrieveEntered, RetrieveLine, RetrieveTakes,
         RetrievePrinted, RetrieveShown, Starts, Runs
<1>4. CASE Generate(word)
  BY <1>4, GoesDoes, ReturnsGoes, DrawsGoes
     DEF Generate, GenerateLines, GenerateGivenUp, AbsorbTemp, AbsorbLight, MapChar, SaveBegins,
         SaveEnds, GenerateReturns, Starts, Runs
<1> QED BY <1>1, <1>2, <1>3, <1>4 DEF CoreStep

\* Only the panic button counts a panic.
LEMMA CorePanics == ASSUME DOMAIN m = Fields, NEW word, CoreStep(word) PROVE m'.panics = m.panics
<1>0. \A F : Only(F) /\ "panics" \notin F => m'.panics = m.panics
  BY DEF Only, Fields
<1>1. CASE MainLoop
  BY <1>0, <1>1, InitRunsDoes, LoginLineDoes, AuthenticateDoes, CompareDoes, LoginReturnsDoes, EnterMenuDoes
     DEF MainLoop, BeginsIn, EndsIn
<1>2. CASE SetKey(word)
  <2>1. CASE FirstMeetLines \/ FirstMeetConfirm \/ ChangeLines \/ ChangeCancelled
    BY <1>0, <2>1, FirstMeetLinesDoes, FirstMeetConfirmDoes, ChangeLinesDoes, ChangeCancelledDoes
       DEF BeginsIn, EndsIn
  <2>2. CASE ChangeConfirm \/ ChangeApply \/ SetNewKey \/ DeriveNew
    BY <1>0, <2>2, ChangeConfirmDoes, ChangeApplyDoes, SetNewKeyDoes, DeriveNewDoes DEF EndsIn
  <2>3. CASE CommitBegins(word) \/ CommitEnds
    BY <1>0, <2>3, CommitBeginsDoes, CommitEndsDoes
  <2>4. CASE SetReturns \/ ChangeDone
    BY <1>0, <2>4, SetReturnsDoes, ChangeDoneDoes DEF EndsIn
  <2> QED BY <1>2, <2>1, <2>2, <2>3, <2>4 DEF SetKey
<1>3. CASE Retrieve
  BY <1>0, <1>3, RetrieveChosenDoes, RetrieveLoadsDoes, RetrieveEnteredDoes, RetrieveLineDoes,
     RetrieveTakesDoes, RetrievePrintedDoes, RetrieveShownDoes
     DEF Retrieve, BeginsIn, EndsIn
<1>4. CASE Generate(word)
  BY <1>0, <1>4, GenerateLinesDoes, GenerateGivenUpDoes, AbsorbTempDoes, AbsorbLightDoes, MapCharDoes,
     SaveBeginsDoes, SaveEndsDoes, GenerateReturnsDoes
     DEF Generate, BeginsIn, EndsIn
<1> QED BY <1>1, <1>2, <1>3, <1>4 DEF CoreStep

-----------------------------------------------------------------------------
(* The strengthening, part 2: the tools.                                   *)

\* Some tools step over the assignment of g_state, the others over the save.
Assigners == {"mk_auth", "mk_auth_tui", "first_meet", "other_first_meet", "other_change_mk"}

Generators == {"generate", "generate_v2", "other_generate"}

\* The lines at which a tool steps over a call or an assignment.
StepLines ==
  {<<"mk_auth", "app167">>, <<"mk_auth_tui", "app167">>, <<"first_meet", "app153">>,
   <<"other_first_meet", "app153">>, <<"other_change_mk", "app211">>} \cup
  {<<t, "gen424">> : t \in Generators}

\* A breakpoint has been reached and its handler has not run.
Stopping == pc = "wait" /\ halted

\* The hand-over between gdb and the core: the breakpoints stay armed until the
\* power is cut, the core stands still in "wait" at a breakpoint only, and a
\* "next" ends on the line after the one it was given on.
Control ==
  /\ tool \in AllTools
  /\ stepping <=> pc = "stepping"
  /\ pc # "unplugged" => armed = Breakpoints(tool, d)
  /\ Stopping => Stops(m)
  /\ pc \in {"next", "pauseNext"} => <<tool, m.loc>> \in StepLines
  /\ pc = "stepping" =>
       \/ ~ halted /\ <<tool, m.loc>> \in StepLines
       \/ ~ halted /\ tool \in Generators /\ m.loc = "flash72" /\ m.mode = "GENERATE"
       \/ halted /\ tool \in Generators /\ m.loc = "gen428"
       \/ halted /\ tool \in Assigners /\ m.loc = "idle"
  /\ OnScreen /\ m.loc = "gen428" => tool \in Generators

\* Where the breakpoints of each tool stop the core.
StopsAt(x) ==
  \/ /\ tool \in {"mk_auth", "mk_auth_tui"}
     /\ x.loc \in {"auth", "session161", "app167"} \/ (x.loc = "kdf78" /\ x.g_state = "MK_AUTH")
  \/ tool = "first_meet" /\ x.loc \in {"first63", "kdf78", "session202", "app153"}
  \/ /\ tool = "change_mk"
     /\ x.loc \in {"change87", "change66", "kdf78", "session202", "app211"}
  \/ /\ tool = "power_loss"
     /\ \/ x.loc \in {"change87", "change66", "kdf78", "session202"}
        \/ x.loc = "flash72" /\ x.target = d.power_loss_sector
  \/ tool = "retrieve" /\ x.loc \in {"retEnter", "ret34", "ret80", "ret88"}
  \/ /\ tool \in {"generate", "generate_v2"}
     /\ x.loc \in {"gen370", "gen386", "gen216", "gen424"}
  \/ /\ tool = "other_first_meet"
     /\ \/ x.loc \in {"first63", "app153"}
        \/ x.loc \in {"kdf78", "session202"} /\ x.g_state = "FIRST_MEET"
  \/ /\ tool = "other_change_mk"
     /\ \/ x.loc \in {"change87", "change66", "app211"}
        \/ x.loc \in {"kdf78", "session202"} /\ x.g_state = "CHANGE_MK"
  \/ tool = "other_retrieve" /\ x.loc \in {"retEnter", "ret34", "ret88"}
  \/ tool = "other_generate" /\ x.loc \in {"gen370", "gen386", "gen424"}

\* The change tools: the target is that of the active partition when it was
\* fixed, and the word the power-loss test waits for is of one partition.
PowerFields == {"power_loss_sector", "power_loss_word"}

ChangeFields ==
  /\ DOMAIN d = DOMAIN ChangeMk!FreshState \cup (IF tool = "power_loss" THEN PowerFields ELSE {})
  /\ tool = "power_loss" => d.power_loss_sector \in Sectors

LEMMA ToolIs ==
  ASSUME tool \in AllTools
  PROVE  tool \in {"mk_auth", "mk_auth_tui", "first_meet", "change_mk", "power_loss", "retrieve",
                   "generate", "generate_v2", "other_first_meet", "other_change_mk",
                   "other_retrieve", "other_generate"}
BY DEF AllTools, OtherTools, OtherMode, ChangeTools

\* One breakpoint, and each of the forms it has.
Hit(b, x) == b.loc = x.loc /\ b.st \in {None, x.g_state} /\ b.sector \in {None, x.target}

LEMMA HitIs ==
  ASSUME NEW x, NEW l
  PROVE  /\ Hit(Breakpoint(l), x) <=> l = x.loc
         /\ \A st \in {"FIRST_MEET", "MK_AUTH", "CHANGE_MK"} :
              Hit(OnlyIn(l, st), x) <=> l = x.loc /\ st = x.g_state
         /\ \A s \in Nat : Hit([Breakpoint(l) EXCEPT !.sector = s], x) <=> l = x.loc /\ s = x.target
<1>1. Hit(Breakpoint(l), x) <=> l = x.loc
  BY DEF Hit, Breakpoint
<1>2. ASSUME NEW st \in {"FIRST_MEET", "MK_AUTH", "CHANGE_MK"}
      PROVE Hit(OnlyIn(l, st), x) <=> l = x.loc /\ st = x.g_state
  BY NoneAssumption DEF Hit, Breakpoint, OnlyIn, AppStates
<1>3. ASSUME NEW s \in Nat
      PROVE  Hit([Breakpoint(l) EXCEPT !.sector = s], x) <=> l = x.loc /\ s = x.target
  BY NoneAssumption DEF Hit, Breakpoint
<1> QED BY <1>1, <1>2, <1>3

LEMMA StopsIs ==
  ASSUME tool \in AllTools, armed = Breakpoints(tool, d), tool \in ChangeTools => ChangeFields, NEW x
  PROVE  Stops(x) <=> StopsAt(x)
<1>0. Stops(x) <=> \E b \in armed : Hit(b, x)
  BY DEF Stops, Hit
<1>a. \A l : Hit(Breakpoint(l), x) <=> l = x.loc
  BY HitIs
<1>b. \A l : \A st \in {"FIRST_MEET", "MK_AUTH", "CHANGE_MK"} :
        Hit(OnlyIn(l, st), x) <=> l = x.loc /\ st = x.g_state
  BY HitIs
<1>c. \A l : \A s \in Nat : Hit([Breakpoint(l) EXCEPT !.sector = s], x) <=> l = x.loc /\ s = x.target
  BY HitIs
<1>1. CASE tool = "mk_auth"
  <2>1. armed = {Breakpoint("auth"), OnlyIn("kdf78", "MK_AUTH"), Breakpoint("session161"), Breakpoint("app167")}
    <3>1. armed = Plain!Breakpoints
      BY <1>1 DEF Breakpoints, ChangeTools, OtherTools, OtherMode
    <3> QED BY <3>1 DEF Plain!Breakpoints, Breakpoint, Plain!Breakpoint, OnlyIn, Plain!OnlyIn
  <2>2. Stops(x) <=> x.loc \in {"auth", "session161", "app167"} \/ (x.loc = "kdf78" /\ x.g_state = "MK_AUTH")
    <3>1. Stops(x) <=>
            \/ Hit(Breakpoint("auth"), x)
            \/ Hit(OnlyIn("kdf78", "MK_AUTH"), x)
            \/ Hit(Breakpoint("session161"), x)
            \/ Hit(Breakpoint("app167"), x)
      BY <1>0, <2>1
    <3> QED BY <1>a, <1>b, <3>1
  <2> QED BY <1>1, <2>2 DEF StopsAt
<1>2. CASE tool = "mk_auth_tui"
  <2>1. armed = {Breakpoint("auth"), OnlyIn("kdf78", "MK_AUTH"), Breakpoint("session161"), Breakpoint("app167")}
    <3>1. armed = MkAuth!Breakpoints
      BY <1>2 DEF Breakpoints, ChangeTools, OtherTools, OtherMode
    <3> QED BY <3>1 DEF MkAuth!Breakpoints, Breakpoint, MkAuth!Breakpoint, OnlyIn, MkAuth!OnlyIn
  <2>2. Stops(x) <=> x.loc \in {"auth", "session161", "app167"} \/ (x.loc = "kdf78" /\ x.g_state = "MK_AUTH")
    <3>1. Stops(x) <=>
            \/ Hit(Breakpoint("auth"), x)
            \/ Hit(OnlyIn("kdf78", "MK_AUTH"), x)
            \/ Hit(Breakpoint("session161"), x)
            \/ Hit(Breakpoint("app167"), x)
      BY <1>0, <2>1
    <3> QED BY <1>a, <1>b, <3>1
  <2> QED BY <1>2, <2>2 DEF StopsAt
<1>3. CASE tool = "first_meet"
  <2>1. armed = {Breakpoint("first63"), Breakpoint("kdf78"), Breakpoint("session202"), Breakpoint("app153")}
    <3>1. armed = FirstMeet!Breakpoints
      BY <1>3 DEF Breakpoints, ChangeTools, OtherTools, OtherMode
    <3> QED BY <3>1 DEF FirstMeet!Breakpoints, Breakpoint, FirstMeet!Breakpoint
  <2>2. Stops(x) <=> x.loc \in {"first63", "kdf78", "session202", "app153"}
    <3>1. Stops(x) <=>
            \/ Hit(Breakpoint("first63"), x)
            \/ Hit(Breakpoint("kdf78"), x)
            \/ Hit(Breakpoint("session202"), x)
            \/ Hit(Breakpoint("app153"), x)
      BY <1>0, <2>1
    <3> QED BY <1>a, <3>1
  <2> QED BY <1>3, <2>2 DEF StopsAt
<1>4. CASE tool = "change_mk"
  <2>0. "power_loss_sector" \notin DOMAIN d
    BY <1>4 DEF ChangeTools, ChangeFields, ChangeMk!FreshState
  <2>1. armed = {Breakpoint("change87"), Breakpoint("change66"), Breakpoint("kdf78"),
                Breakpoint("session202"), Breakpoint("app211")}
    <3>1. armed = ChangeMk!Breakpoints(d)
      BY <1>4 DEF Breakpoints, ChangeTools, OtherTools, OtherMode
    <3> QED BY <2>0, <3>1 DEF ChangeMk!Breakpoints, Breakpoint, ChangeMk!Breakpoint
  <2>2. Stops(x) <=> x.loc \in {"change87", "change66", "kdf78", "session202", "app211"}
    <3>1. Stops(x) <=>
            \/ Hit(Breakpoint("change87"), x)
            \/ Hit(Breakpoint("change66"), x)
            \/ Hit(Breakpoint("kdf78"), x)
            \/ Hit(Breakpoint("session202"), x)
            \/ Hit(Breakpoint("app211"), x)
      BY <1>0, <2>1
    <3> QED BY <1>a, <3>1
  <2> QED BY <1>4, <2>2 DEF StopsAt
<1>5. CASE tool = "power_loss"
  <2>0. "power_loss_sector" \in DOMAIN d /\ d.power_loss_sector \in Nat
    BY <1>5 DEF ChangeTools, ChangeFields, PowerFields, Sectors
  <2>1. armed = {Breakpoint("change87"), Breakpoint("change66"), Breakpoint("kdf78"),
                Breakpoint("session202"),
                [Breakpoint("flash72") EXCEPT !.sector = d.power_loss_sector]}
    <3>1. armed = ChangeMk!Breakpoints(d)
      BY <1>5 DEF Breakpoints, ChangeTools, OtherTools, OtherMode
    <3> QED BY <2>0, <3>1 DEF ChangeMk!Breakpoints, Breakpoint, ChangeMk!Breakpoint
  <2>2. Stops(x) <=>
                    \/ x.loc \in {"change87", "change66", "kdf78", "session202"}
                    \/ x.loc = "flash72" /\ x.target = d.power_loss_sector
    <3>1. Stops(x) <=>
            \/ Hit(Breakpoint("change87"), x)
            \/ Hit(Breakpoint("change66"), x)
            \/ Hit(Breakpoint("kdf78"), x)
            \/ Hit(Breakpoint("session202"), x)
            \/ Hit([Breakpoint("flash72") EXCEPT !.sector = d.power_loss_sector], x)
      BY <1>0, <2>1
    <3> QED BY <1>a, <1>c, <2>0, <3>1
  <2> QED BY <1>5, <2>2 DEF StopsAt
<1>6. CASE tool = "retrieve"
  <2>1. armed = {Breakpoint("retEnter"), Breakpoint("ret34"), Breakpoint("ret80"), Breakpoint("ret88")}
    <3>1. armed = Retrieval!Breakpoints
      BY <1>6 DEF Breakpoints, ChangeTools, OtherTools, OtherMode
    <3> QED BY <3>1 DEF Retrieval!Breakpoints, Breakpoint, Retrieval!Breakpoint
  <2>2. Stops(x) <=> x.loc \in {"retEnter", "ret34", "ret80", "ret88"}
    <3>1. Stops(x) <=>
            \/ Hit(Breakpoint("retEnter"), x)
            \/ Hit(Breakpoint("ret34"), x)
            \/ Hit(Breakpoint("ret80"), x)
            \/ Hit(Breakpoint("ret88"), x)
      BY <1>0, <2>1
    <3> QED BY <1>a, <3>1
  <2> QED BY <1>6, <2>2 DEF StopsAt
<1>7. CASE tool = "generate"
  <2>1. armed = {Breakpoint("gen370"), Breakpoint("gen386"), Breakpoint("gen216"), Breakpoint("gen424")}
    <3>1. armed = Draft1!Breakpoints
      BY <1>7 DEF Breakpoints, ChangeTools, OtherTools, OtherMode
    <3> QED BY <3>1 DEF Draft1!Breakpoints, Breakpoint, Draft1!Breakpoint
  <2>2. Stops(x) <=> x.loc \in {"gen370", "gen386", "gen216", "gen424"}
    <3>1. Stops(x) <=>
            \/ Hit(Breakpoint("gen370"), x)
            \/ Hit(Breakpoint("gen386"), x)
            \/ Hit(Breakpoint("gen216"), x)
            \/ Hit(Breakpoint("gen424"), x)
      BY <1>0, <2>1
    <3> QED BY <1>a, <3>1
  <2> QED BY <1>7, <2>2 DEF StopsAt
<1>8. CASE tool = "generate_v2"
  <2>1. armed = {Breakpoint("gen370"), Breakpoint("gen386"), Breakpoint("gen216"), Breakpoint("gen424")}
    <3>1. armed = Draft2!Breakpoints
      BY <1>8 DEF Breakpoints, ChangeTools, OtherTools, OtherMode
    <3> QED BY <3>1 DEF Draft2!Breakpoints, Breakpoint, Draft2!Breakpoint
  <2>2. Stops(x) <=> x.loc \in {"gen370", "gen386", "gen216", "gen424"}
    <3>1. Stops(x) <=>
            \/ Hit(Breakpoint("gen370"), x)
            \/ Hit(Breakpoint("gen386"), x)
            \/ Hit(Breakpoint("gen216"), x)
            \/ Hit(Breakpoint("gen424"), x)
      BY <1>0, <2>1
    <3> QED BY <1>a, <3>1
  <2> QED BY <1>8, <2>2 DEF StopsAt
<1>9. CASE tool = "other_first_meet"
  <2>1. armed = {Breakpoint("first63"), OnlyIn("kdf78", "FIRST_MEET"),
                OnlyIn("session202", "FIRST_MEET"), Breakpoint("app153")}
    <3>1. armed = Other!SetupFirstMeet
      BY <1>9 DEF Breakpoints, ChangeTools, OtherTools, OtherMode, Other!Breakpoints
    <3> QED BY <3>1 DEF Other!SetupFirstMeet, Breakpoint, Other!Breakpoint, OnlyIn, Other!OnlyIn
  <2>2. Stops(x) <=>
                    \/ x.loc \in {"first63", "app153"}
                    \/ x.loc \in {"kdf78", "session202"} /\ x.g_state = "FIRST_MEET"
    <3>1. Stops(x) <=>
            \/ Hit(Breakpoint("first63"), x)
            \/ Hit(OnlyIn("kdf78", "FIRST_MEET"), x)
            \/ Hit(OnlyIn("session202", "FIRST_MEET"), x)
            \/ Hit(Breakpoint("app153"), x)
      BY <1>0, <2>1
    <3> QED BY <1>a, <1>b, <3>1
  <2> QED BY <1>9, <2>2 DEF StopsAt
<1>10. CASE tool = "other_change_mk"
  <2>1. armed = {Breakpoint("change87"), Breakpoint("change66"), OnlyIn("kdf78", "CHANGE_MK"),
                OnlyIn("session202", "CHANGE_MK"), Breakpoint("app211")}
    <3>1. armed = Other!SetupChangeMk
      BY <1>10 DEF Breakpoints, ChangeTools, OtherTools, OtherMode, Other!Breakpoints
    <3> QED BY <3>1 DEF Other!SetupChangeMk, Breakpoint, Other!Breakpoint, OnlyIn, Other!OnlyIn
  <2>2. Stops(x) <=>
                    \/ x.loc \in {"change87", "change66", "app211"}
                    \/ x.loc \in {"kdf78", "session202"} /\ x.g_state = "CHANGE_MK"
    <3>1. Stops(x) <=>
            \/ Hit(Breakpoint("change87"), x)
            \/ Hit(Breakpoint("change66"), x)
            \/ Hit(OnlyIn("kdf78", "CHANGE_MK"), x)
            \/ Hit(OnlyIn("session202", "CHANGE_MK"), x)
            \/ Hit(Breakpoint("app211"), x)
      BY <1>0, <2>1
    <3> QED BY <1>a, <1>b, <3>1
  <2> QED BY <1>10, <2>2 DEF StopsAt
<1>11. CASE tool = "other_retrieve"
  <2>1. armed = {Breakpoint("retEnter"), Breakpoint("ret34"), Breakpoint("ret88")}
    <3>1. armed = Other!SetupRetrieve
      BY <1>11 DEF Breakpoints, ChangeTools, OtherTools, OtherMode, Other!Breakpoints
    <3> QED BY <3>1 DEF Other!SetupRetrieve, Breakpoint, Other!Breakpoint
  <2>2. Stops(x) <=> x.loc \in {"retEnter", "ret34", "ret88"}
    <3>1. Stops(x) <=>
            \/ Hit(Breakpoint("retEnter"), x)
            \/ Hit(Breakpoint("ret34"), x)
            \/ Hit(Breakpoint("ret88"), x)
      BY <1>0, <2>1
    <3> QED BY <1>a, <3>1
  <2> QED BY <1>11, <2>2 DEF StopsAt
<1>12. CASE tool = "other_generate"
  <2>1. armed = {Breakpoint("gen370"), Breakpoint("gen386"), Breakpoint("gen424")}
    <3>1. armed = Other!SetupGenerate
      BY <1>12 DEF Breakpoints, ChangeTools, OtherTools, OtherMode, Other!Breakpoints
    <3> QED BY <3>1 DEF Other!SetupGenerate, Breakpoint, Other!Breakpoint
  <2>2. Stops(x) <=> x.loc \in {"gen370", "gen386", "gen424"}
    <3>1. Stops(x) <=>
            \/ Hit(Breakpoint("gen370"), x)
            \/ Hit(Breakpoint("gen386"), x)
            \/ Hit(Breakpoint("gen424"), x)
      BY <1>0, <2>1
    <3> QED BY <1>a, <3>1
  <2> QED BY <1>12, <2>2 DEF StopsAt
<1> QED BY ToolIs, <1>1, <1>2, <1>3, <1>4, <1>5, <1>6, <1>7, <1>8, <1>9, <1>10, <1>11, <1>12

-----------------------------------------------------------------------------
(* What the tools read.                                                    *)

\* Each tool reads the memory with the operators of TraceCommon.

LEMMA PlainReads ==
  ASSUME NEW x, NEW s, NEW t, NEW f, NEW g
  PROVE  /\ Plain!ReadPartitionHeader(x, s) = ReadPartitionHeader(x, s)
         /\ Plain!ReadEntries(x, s, t) = ReadEntries(x, s, t)
         /\ Plain!DumpBaseState(x) = DumpBaseState(x)
         /\ Plain!HeaderLine(f) = HeaderLine(f)
         /\ Plain!Updated(f, g) = Updated(f, g)
<1>1. Plain!ReadPartitionHeader(x, s) = ReadPartitionHeader(x, s)
  BY DEF ReadPartitionHeader, HeaderStatus, Plain!ReadPartitionHeader, Plain!HeaderStatus
<1>2. Plain!ReadEntries(x, s, t) = ReadEntries(x, s, t)
  BY DEF ReadEntries, Sectors, Plain!ReadEntries, Plain!Sectors
<1>3. Plain!DumpBaseState(x) = DumpBaseState(x)
  BY DEF DumpBaseState, ActiveVersion, ReadPartitionHeader, HeaderStatus, Plain!DumpBaseState,
         Plain!ActiveVersion, Plain!ReadPartitionHeader, Plain!HeaderStatus
<1>4. Plain!HeaderLine(f) = HeaderLine(f) /\ Plain!Updated(f, g) = Updated(f, g)
  BY DEF HeaderLine, Updated, Plain!HeaderLine, Plain!Updated
<1> QED BY <1>1, <1>2, <1>3, <1>4

LEMMA MkAuthReads ==
  ASSUME NEW x, NEW s, NEW t, NEW f, NEW g
  PROVE  /\ MkAuth!ReadPartitionHeader(x, s) = ReadPartitionHeader(x, s)
         /\ MkAuth!ReadEntries(x, s, t) = ReadEntries(x, s, t)
         /\ MkAuth!DumpBaseState(x) = DumpBaseState(x)
         /\ MkAuth!HeaderLine(f) = HeaderLine(f)
         /\ MkAuth!Updated(f, g) = Updated(f, g)
<1>1. MkAuth!ReadPartitionHeader(x, s) = ReadPartitionHeader(x, s)
  BY DEF ReadPartitionHeader, HeaderStatus, MkAuth!ReadPartitionHeader, MkAuth!HeaderStatus
<1>2. MkAuth!ReadEntries(x, s, t) = ReadEntries(x, s, t)
  BY DEF ReadEntries, Sectors, MkAuth!ReadEntries, MkAuth!Sectors
<1>3. MkAuth!DumpBaseState(x) = DumpBaseState(x)
  BY DEF DumpBaseState, ActiveVersion, ReadPartitionHeader, HeaderStatus, MkAuth!DumpBaseState,
         MkAuth!ActiveVersion, MkAuth!ReadPartitionHeader, MkAuth!HeaderStatus
<1>4. MkAuth!HeaderLine(f) = HeaderLine(f) /\ MkAuth!Updated(f, g) = Updated(f, g)
  BY DEF HeaderLine, Updated, MkAuth!HeaderLine, MkAuth!Updated
<1> QED BY <1>1, <1>2, <1>3, <1>4

LEMMA ChangeMkReads ==
  ASSUME NEW x, NEW s, NEW t, NEW f, NEW g
  PROVE  /\ ChangeMk!ReadPartitionHeader(x, s) = ReadPartitionHeader(x, s)
         /\ ChangeMk!ReadEntries(x, s, t) = ReadEntries(x, s, t)
         /\ ChangeMk!DumpBaseState(x) = DumpBaseState(x)
         /\ ChangeMk!HeaderLine(f) = HeaderLine(f)
         /\ ChangeMk!Updated(f, g) = Updated(f, g)
<1>1. ChangeMk!ReadPartitionHeader(x, s) = ReadPartitionHeader(x, s)
  BY DEF ReadPartitionHeader, HeaderStatus, ChangeMk!ReadPartitionHeader, ChangeMk!HeaderStatus
<1>2. ChangeMk!ReadEntries(x, s, t) = ReadEntries(x, s, t)
  BY DEF ReadEntries, Sectors, ChangeMk!ReadEntries, ChangeMk!Sectors
<1>3. ChangeMk!DumpBaseState(x) = DumpBaseState(x)
  BY DEF DumpBaseState, ActiveVersion, ReadPartitionHeader, HeaderStatus, ChangeMk!DumpBaseState,
         ChangeMk!ActiveVersion, ChangeMk!ReadPartitionHeader, ChangeMk!HeaderStatus
<1>4. ChangeMk!HeaderLine(f) = HeaderLine(f) /\ ChangeMk!Updated(f, g) = Updated(f, g)
  BY DEF HeaderLine, Updated, ChangeMk!HeaderLine, ChangeMk!Updated
<1> QED BY <1>1, <1>2, <1>3, <1>4

LEMMA FirstMeetReads ==
  ASSUME NEW x, NEW s, NEW t, NEW f, NEW g
  PROVE  /\ FirstMeet!ReadPartitionHeader(x, s) = ReadPartitionHeader(x, s)
         /\ FirstMeet!ReadEntries(x, s, t) = ReadEntries(x, s, t)
         /\ FirstMeet!DumpBaseState(x) = DumpBaseState(x)
         /\ FirstMeet!HeaderLine(f) = HeaderLine(f)
         /\ FirstMeet!Updated(f, g) = Updated(f, g)
<1>1. FirstMeet!ReadPartitionHeader(x, s) = ReadPartitionHeader(x, s)
  BY DEF ReadPartitionHeader, HeaderStatus, FirstMeet!ReadPartitionHeader, FirstMeet!HeaderStatus
<1>2. FirstMeet!ReadEntries(x, s, t) = ReadEntries(x, s, t)
  BY DEF ReadEntries, Sectors, FirstMeet!ReadEntries, FirstMeet!Sectors
<1>3. FirstMeet!DumpBaseState(x) = DumpBaseState(x)
  BY DEF DumpBaseState, ActiveVersion, ReadPartitionHeader, HeaderStatus, FirstMeet!DumpBaseState,
         FirstMeet!ActiveVersion, FirstMeet!ReadPartitionHeader, FirstMeet!HeaderStatus
<1>4. FirstMeet!HeaderLine(f) = HeaderLine(f) /\ FirstMeet!Updated(f, g) = Updated(f, g)
  BY DEF HeaderLine, Updated, FirstMeet!HeaderLine, FirstMeet!Updated
<1> QED BY <1>1, <1>2, <1>3, <1>4

LEMMA RetrievalReads ==
  ASSUME NEW x, NEW s, NEW t, NEW f, NEW g
  PROVE  /\ Retrieval!ReadPartitionHeader(x, s) = ReadPartitionHeader(x, s)
         /\ Retrieval!ReadEntries(x, s, t) = ReadEntries(x, s, t)
         /\ Retrieval!DumpBaseState(x) = DumpBaseState(x)
         /\ Retrieval!HeaderLine(f) = HeaderLine(f)
         /\ Retrieval!Updated(f, g) = Updated(f, g)
<1>1. Retrieval!ReadPartitionHeader(x, s) = ReadPartitionHeader(x, s)
  BY DEF ReadPartitionHeader, HeaderStatus, Retrieval!ReadPartitionHeader, Retrieval!HeaderStatus
<1>2. Retrieval!ReadEntries(x, s, t) = ReadEntries(x, s, t)
  BY DEF ReadEntries, Sectors, Retrieval!ReadEntries, Retrieval!Sectors
<1>3. Retrieval!DumpBaseState(x) = DumpBaseState(x)
  BY DEF DumpBaseState, ActiveVersion, ReadPartitionHeader, HeaderStatus, Retrieval!DumpBaseState,
         Retrieval!ActiveVersion, Retrieval!ReadPartitionHeader, Retrieval!HeaderStatus
<1>4. Retrieval!HeaderLine(f) = HeaderLine(f) /\ Retrieval!Updated(f, g) = Updated(f, g)
  BY DEF HeaderLine, Updated, Retrieval!HeaderLine, Retrieval!Updated
<1> QED BY <1>1, <1>2, <1>3, <1>4

LEMMA Draft1Reads ==
  ASSUME NEW x, NEW s, NEW t, NEW f, NEW g
  PROVE  /\ Draft1!ReadPartitionHeader(x, s) = ReadPartitionHeader(x, s)
         /\ Draft1!ReadEntries(x, s, t) = ReadEntries(x, s, t)
         /\ Draft1!DumpBaseState(x) = DumpBaseState(x)
         /\ Draft1!HeaderLine(f) = HeaderLine(f)
         /\ Draft1!Updated(f, g) = Updated(f, g)
<1>1. Draft1!ReadPartitionHeader(x, s) = ReadPartitionHeader(x, s)
  BY DEF ReadPartitionHeader, HeaderStatus, Draft1!ReadPartitionHeader, Draft1!HeaderStatus
<1>2. Draft1!ReadEntries(x, s, t) = ReadEntries(x, s, t)
  BY DEF ReadEntries, Sectors, Draft1!ReadEntries, Draft1!Sectors
<1>3. Draft1!DumpBaseState(x) = DumpBaseState(x)
  BY DEF DumpBaseState, ActiveVersion, ReadPartitionHeader, HeaderStatus, Draft1!DumpBaseState,
         Draft1!ActiveVersion, Draft1!ReadPartitionHeader, Draft1!HeaderStatus
<1>4. Draft1!HeaderLine(f) = HeaderLine(f) /\ Draft1!Updated(f, g) = Updated(f, g)
  BY DEF HeaderLine, Updated, Draft1!HeaderLine, Draft1!Updated
<1> QED BY <1>1, <1>2, <1>3, <1>4

LEMMA Draft2Reads ==
  ASSUME NEW x, NEW s, NEW t, NEW f, NEW g
  PROVE  /\ Draft2!ReadPartitionHeader(x, s) = ReadPartitionHeader(x, s)
         /\ Draft2!ReadEntries(x, s, t) = ReadEntries(x, s, t)
         /\ Draft2!DumpBaseState(x) = DumpBaseState(x)
         /\ Draft2!HeaderLine(f) = HeaderLine(f)
         /\ Draft2!Updated(f, g) = Updated(f, g)
<1>1. Draft2!ReadPartitionHeader(x, s) = ReadPartitionHeader(x, s)
  BY DEF ReadPartitionHeader, HeaderStatus, Draft2!ReadPartitionHeader, Draft2!HeaderStatus
<1>2. Draft2!ReadEntries(x, s, t) = ReadEntries(x, s, t)
  BY DEF ReadEntries, Sectors, Draft2!ReadEntries, Draft2!Sectors
<1>3. Draft2!DumpBaseState(x) = DumpBaseState(x)
  BY DEF DumpBaseState, ActiveVersion, ReadPartitionHeader, HeaderStatus, Draft2!DumpBaseState,
         Draft2!ActiveVersion, Draft2!ReadPartitionHeader, Draft2!HeaderStatus
<1>4. Draft2!HeaderLine(f) = HeaderLine(f) /\ Draft2!Updated(f, g) = Updated(f, g)
  BY DEF HeaderLine, Updated, Draft2!HeaderLine, Draft2!Updated
<1> QED BY <1>1, <1>2, <1>3, <1>4

LEMMA OtherReads ==
  ASSUME NEW x, NEW s, NEW t, NEW f, NEW g
  PROVE  /\ Other!ReadPartitionHeader(x, s) = ReadPartitionHeader(x, s)
         /\ Other!ReadEntries(x, s, t) = ReadEntries(x, s, t)
         /\ Other!DumpBaseState(x) = DumpBaseState(x)
         /\ Other!HeaderLine(f) = HeaderLine(f)
         /\ Other!Updated(f, g) = Updated(f, g)
<1>1. Other!ReadPartitionHeader(x, s) = ReadPartitionHeader(x, s)
  BY DEF ReadPartitionHeader, HeaderStatus, Other!ReadPartitionHeader, Other!HeaderStatus
<1>2. Other!ReadEntries(x, s, t) = ReadEntries(x, s, t)
  BY DEF ReadEntries, Sectors, Other!ReadEntries, Other!Sectors
<1>3. Other!DumpBaseState(x) = DumpBaseState(x)
  BY DEF DumpBaseState, ActiveVersion, ReadPartitionHeader, HeaderStatus, Other!DumpBaseState,
         Other!ActiveVersion, Other!ReadPartitionHeader, Other!HeaderStatus
<1>4. Other!HeaderLine(f) = HeaderLine(f) /\ Other!Updated(f, g) = Updated(f, g)
  BY DEF HeaderLine, Updated, Other!HeaderLine, Other!Updated
<1> QED BY <1>1, <1>2, <1>3, <1>4

\* Values that are live one by one are live together.
LEMMA UpdatedLive ==
  ASSUME NEW f, NEW g, NEW x, IsLive(f, x), IsLive(g, x)
  PROVE  IsLive(Updated(f, g), x)
BY DEF IsLive, Updated

LEMMA DumpIsLive == ASSUME NEW x PROVE IsLive(DumpBaseState(x), x)
BY DEF IsLive

\* The panel of the session, and the panel of the flash.
SessionFields == {"g_state", "s_authorized", "s_key"}

LEMMA SessionIsLive ==
  ASSUME NEW s, NEW x, DOMAIN s \cap {"active", "flash_a", "flash_b"} = {},
         \A f \in SessionFields \cap DOMAIN s : s[f] = x[f]
  PROVE  IsLive(s, x)
BY DEF IsLive, DumpBaseState, SessionFields

LEMMA FlashIsLive ==
  ASSUME NEW f, NEW x, NEW a, NEW b, DOMAIN f \cap SessionFields = {},
         "active" \in DOMAIN f => f.active = x.s_active,
         f.flash_a = HeaderLine(a), f.flash_b = HeaderLine(b),
         HeaderLine(a) = HeaderLine(ReadPartitionHeader(x, 2)),
         HeaderLine(b) = HeaderLine(ReadPartitionHeader(x, 3))
  PROVE  IsLive(f, x)
<1>1. HeaderLine(f.flash_a) = HeaderLine(a) /\ HeaderLine(f.flash_b) = HeaderLine(b)
  BY DEF HeaderLine
<1>2. /\ DumpBaseState(x).flash_a = ReadPartitionHeader(x, 2)
      /\ DumpBaseState(x).flash_b = ReadPartitionHeader(x, 3)
      /\ DumpBaseState(x).active = x.s_active
  BY DEF DumpBaseState
<1> QED BY <1>1, <1>2 DEF IsLive, SessionFields

\* A partition's header, and one entry of it.
LEMMA HeaderAuth == ASSUME NEW x, NEW s PROVE ReadPartitionHeader(x, s).auth = x.flash[s].auth
BY DEF ReadPartitionHeader

LEMMA EntryRead ==
  ASSUME NEW x, NEW s \in Sectors, NEW i, NEW S, i \in S
  PROVE  /\ ReadEntries(x, s, S)[i] = <<x.flash[s].table[i], x.flash[s].auth>>
         /\ ReadEntries(x, s, S)[i][1] = x.flash[s].table[i]
         /\ DOMAIN ReadEntries(x, s, S) = S
BY DEF ReadEntries

-----------------------------------------------------------------------------
(* The hand-over, step by step.                                            *)

\* A step of the core, with a tool that waits for it.
CoreRuns ==
  /\ pc \in {"wait", "stepping"} /\ Moves /\ CoreGoes /\ m'.panics = m.panics
  /\ UNCHANGED <<tool, d, pc, calm, fixedFor>>

LEMMA BoardRunsDoes == ASSUME BoardInv, BoardRuns PROVE CoreRuns /\ BoardInv'
<1>1. CoreStep(Word) /\ pc \in {"wait", "stepping"} /\ UNCHANGED <<tool, d, pc, calm, fixedFor>>
  BY DEF BoardRuns, CoreStep
<1>2. DOMAIN m = Fields
  BY DEF BoardInv, Types
<1> QED BY <1>1, <1>2, CoreMoves, StepGoes, CorePanics, CoreStepInv DEF CoreRuns

\* Of the steps of the core only the end of a mode and the menu come to "idle".
LEMMA SteppingMoves ==
  ASSUME DOMAIN m = Fields, Control, CoreRuns, pc = "stepping"
  PROVE  /\ ~ halted
         /\ \/ tool \in Generators /\ From("gen424", "flash72")
            \/ tool \in Generators /\ From("flash72", "gen428")
            \/ tool \in Assigners /\ <<tool, m.loc>> \in StepLines /\ m'.loc = "idle"
<1>1. ~ halted
  BY DEF CoreRuns, CoreGoes
<1>2. CASE tool \in Generators /\ m.loc = "flash72" /\ m.mode = "GENERATE"
  <2>1. ~ CommitEnds
    BY <1>2 DEF CommitEnds
  <2> QED BY <1>1, <1>2, <2>1
          DEF CoreRuns, Moves, LoginMoves, KeyMoves, RetrieveMoves, GenerateMoves, From, Begins, Ends
<1>3. CASE <<tool, m.loc>> \in StepLines
  <2>1. /\ tool \in Assigners \cup Generators
        /\ tool \in Generators <=> m.loc = "gen424"
        /\ m.loc \in {"app167", "app153", "app211", "gen424"}
    BY <1>3 DEF StepLines, Generators, Assigners
  <2>2. ~ CommitEnds
    BY <2>1 DEF CommitEnds, Runs
  <2> QED BY <1>1, <1>3, <2>1, <2>2
          DEF CoreRuns, Moves, LoginMoves, KeyMoves, RetrieveMoves, GenerateMoves, From, Begins, Ends
<1> QED BY <1>1, <1>2, <1>3 DEF Control

\* The core stops where a breakpoint is, and only there.
LEMMA ArrivesIs ==
  ASSUME Control, tool \in ChangeTools => ChangeFields, CoreRuns, pc = "wait"
  PROVE  Stopping' <=> StopsAt(m')
<1>1. halted' <=> Stops(m')
  <2>1. ~ stepping
    BY DEF Control
  <2> QED BY <2>1 DEF CoreRuns, CoreGoes
<1>2. pc' = "wait" /\ armed = Breakpoints(tool, d)
  BY DEF Control, CoreRuns
<1>3. Stops(m') <=> StopsAt(m')
  BY <1>2, StopsIs DEF Control
<1> QED BY <1>1, <1>2, <1>3 DEF Stopping

\* What a tool has a breakpoint for does not get past it.
LEMMA ArrivesStopping ==
  ASSUME BoardInv, Control, tool \in ChangeTools => ChangeFields, CoreRuns, StopsAt(m'),
         m'.loc # "flash72"
  PROVE  Stopping' /\ pc = "wait"
<1>1. CASE pc = "wait"
  BY <1>1, ArrivesIs
<1>2. CASE pc = "stepping"
  <2>1. m'.loc \in {"gen428", "idle"}
    BY <1>2, SteppingMoves DEF BoardInv, Types, From
  <2> QED BY <2>1 DEF StopsAt
<1> QED BY <1>1, <1>2 DEF CoreRuns

LEMMA StoppingAt ==
  ASSUME Control, tool \in ChangeTools => ChangeFields, Stopping
  PROVE  StopsAt(m)
BY StopsIs DEF Control, Stopping

\* What a handler leaves to the main loop.
LEMMA HandlerThen ==
  ASSUME Control, tool \in ChangeTools => ChangeFields, Stopping
  PROVE  /\ Handler.then \in {"pause", "next", "pauseNext", "hold", "ended"}
         /\ Handler.then \in {"next", "pauseNext"} => <<tool, m.loc>> \in StepLines
         /\ Handler.then = "hold" => tool = "power_loss" /\ m.loc = "flash72"
<1>0. StopsAt(m)
  BY StoppingAt
<1>1. CASE tool = "mk_auth"
  <2>1. Handler = Plain!Handle(d, m)
    BY <1>1 DEF Handler, ChangeTools, OtherTools, OtherMode
  <2> QED BY <1>0, <1>1, <2>1
          DEF StopsAt, StepLines, Plain!Handle, Plain!Paused, Plain!Steps
<1>2. CASE tool = "mk_auth_tui"
  <2>1. Handler = MkAuth!Handle(d, m)
    BY <1>2 DEF Handler, ChangeTools, OtherTools, OtherMode
  <2> QED BY <1>0, <1>2, <2>1
          DEF StopsAt, StepLines, MkAuth!Handle, MkAuth!Paused, MkAuth!Steps
<1>3. CASE tool = "first_meet"
  <2>1. Handler = FirstMeet!Handle(d, m)
    BY <1>3 DEF Handler, ChangeTools, OtherTools, OtherMode
  <2> QED BY <1>0, <1>3, <2>1
          DEF StopsAt, StepLines, FirstMeet!Handle, FirstMeet!PauseOrFast, FirstMeet!Paused, FirstMeet!Steps
<1>4. CASE tool \in ChangeTools
  <2>1. Handler = ChangeMk!Handle(d, m)
    BY <1>4 DEF Handler, ChangeTools, OtherTools, OtherMode
  <2>2. CASE m.loc = "session202"
    BY <2>1, <2>2 DEF ChangeMk!Handle, ChangeMk!HandleCommitted, ChangeMk!PauseOrFast,
                      ChangeMk!Paused, ChangeMk!Raises
  <2>3. CASE m.loc = "flash72"
    <3>1. tool = "power_loss"
      BY <1>0, <1>4, <2>3 DEF StopsAt, ChangeTools
    <3> QED BY <2>1, <2>3, <3>1 DEF ChangeMk!Handle, ChangeMk!HandlePowerLoss, ChangeMk!Holds
  <2>4. CASE m.loc \in {"change87", "change66", "kdf78", "app211"}
    BY <2>1, <2>4 DEF ChangeMk!Handle, ChangeMk!PauseOrFast, ChangeMk!Paused
  <2> QED BY <1>0, <1>4, <2>2, <2>3, <2>4 DEF StopsAt, ChangeTools
<1>5. CASE tool = "retrieve"
  <2>1. Handler = Retrieval!Handle(d, m)
    BY <1>5 DEF Handler, ChangeTools, OtherTools, OtherMode
  <2> QED BY <1>0, <1>5, <2>1 DEF StopsAt, Retrieval!Handle, Retrieval!Paused
<1>6. CASE tool = "generate"
  <2>1. Handler = Draft1!Handle(d, m)
    BY <1>6 DEF Handler, ChangeTools, OtherTools, OtherMode
  <2> QED BY <1>0, <1>6, <2>1
          DEF StopsAt, StepLines, Generators, Draft1!Handle, Draft1!Paused, Draft1!Steps
<1>7. CASE tool = "generate_v2"
  <2>1. Handler = Draft2!Handle(d, m)
    BY <1>7 DEF Handler, ChangeTools, OtherTools, OtherMode
  <2> QED BY <1>0, <1>7, <2>1
          DEF StopsAt, StepLines, Generators, Draft2!Handle, Draft2!Paused, Draft2!PausesSteps
<1>8. CASE tool = "other_first_meet"
  <2>1. Handler = Other!HandleFirstMeet(d, m)
    BY <1>8 DEF Handler, ChangeTools, OtherTools, OtherMode, Other!Handle
  <2> QED BY <1>0, <1>8, <2>1
          DEF StopsAt, StepLines, Other!HandleFirstMeet, Other!Paused, Other!Steps
<1>9. CASE tool = "other_change_mk"
  <2>1. Handler = Other!HandleChangeMk(d, m)
    BY <1>9 DEF Handler, ChangeTools, OtherTools, OtherMode, Other!Handle
  <2> QED BY <1>0, <1>9, <2>1
          DEF StopsAt, StepLines, Other!HandleChangeMk, Other!Paused, Other!Steps
<1>10. CASE tool = "other_retrieve"
  <2>1. Handler = Other!HandleRetrieve(d, m)
    BY <1>10 DEF Handler, ChangeTools, OtherTools, OtherMode, Other!Handle
  <2> QED BY <1>0, <1>10, <2>1 DEF StopsAt, Other!HandleRetrieve, Other!Paused
<1>11. CASE tool = "other_generate"
  <2>1. Handler = Other!HandleGenerate(d, m)
    BY <1>11 DEF Handler, ChangeTools, OtherTools, OtherMode, Other!Handle
  <2> QED BY <1>0, <1>11, <2>1
          DEF StopsAt, StepLines, Generators, Other!HandleGenerate, Other!Paused, Other!Steps
<1> QED BY ToolIs, <1>1, <1>2, <1>3, <1>4, <1>5, <1>6, <1>7, <1>8, <1>9, <1>10, <1>11
        DEF Control, ChangeTools

\* The breakpoints of a tool depend on its dictionary in the power-loss test
\* only, and there on the partition it was armed for.
LEMMA BreakpointsLast ==
  ASSUME tool \in AllTools, tool' = tool,
         tool \in ChangeTools =>
           /\ DOMAIN d' = DOMAIN d
           /\ "power_loss_sector" \in DOMAIN d => d'.power_loss_sector = d.power_loss_sector
  PROVE  Breakpoints(tool', d') = Breakpoints(tool, d)
<1>1. CASE tool \in ChangeTools
  <2>1. /\ Breakpoints(tool, d) = ChangeMk!Breakpoints(d)
        /\ Breakpoints(tool', d') = ChangeMk!Breakpoints(d')
    BY <1>1 DEF Breakpoints, ChangeTools, OtherTools, OtherMode
  <2>2. CASE "power_loss_sector" \in DOMAIN d
    <3>1. DOMAIN d' = DOMAIN d /\ d'.power_loss_sector = d.power_loss_sector
      BY <1>1, <2>2
    <3> QED BY <2>1, <2>2, <3>1 DEF ChangeMk!Breakpoints
  <2>3. CASE "power_loss_sector" \notin DOMAIN d
    <3>1. DOMAIN d' = DOMAIN d
      BY <1>1
    <3> QED BY <2>1, <2>3, <3>1 DEF ChangeMk!Breakpoints
  <2> QED BY <2>2, <2>3
<1>2. CASE tool \notin ChangeTools
  BY <1>2 DEF Breakpoints, OtherTools, OtherMode, AllTools, ChangeTools
<1> QED BY <1>1, <1>2

\* Every step keeps the hand-over in order.
ChangeOk == tool \in ChangeTools => ChangeFields

\* The tool gives its dictionary the fields the breakpoints depend on.
Keeps ==
  tool \in ChangeTools =>
    /\ DOMAIN d' = DOMAIN d
    /\ "power_loss_sector" \in DOMAIN d => d'.power_loss_sector = d.power_loss_sector

LEMMA ControlRuns == ASSUME BoardInv, Control, ChangeOk, CoreRuns PROVE Control'
<1>0. DOMAIN m = Fields
  BY DEF BoardInv, Types
<1>1. /\ tool' = tool /\ d' = d /\ pc' = pc /\ stepping' = stepping /\ armed' = armed
      /\ pc \in {"wait", "stepping"} /\ ~ halted
  BY DEF CoreRuns, CoreGoes
<1>2. Breakpoints(tool', d') = Breakpoints(tool, d)
  BY <1>1
<1>3. CASE pc = "wait"
  <2>1. halted' <=> Stops(m')
    BY <1>1, <1>3 DEF Control, CoreRuns, CoreGoes
  <2>2. Stops(m') => Stops(m)'
    BY <1>1 DEF Stops
  <2> QED BY <1>1, <1>2, <1>3, <2>1, <2>2 DEF Control, Stopping, OnScreen
<1>4. CASE pc = "stepping"
  <2>1. \/ tool \in Generators /\ From("gen424", "flash72")
        \/ tool \in Generators /\ From("flash72", "gen428")
        \/ tool \in Assigners /\ <<tool, m.loc>> \in StepLines /\ m'.loc = "idle"
    BY <1>0, <1>4, SteppingMoves
  <2>2. ~ StopsAt(m') \/ m'.loc \notin {"flash72", "gen428", "idle"} \/ tool = "power_loss"
    BY DEF StopsAt
  <2>3. ~ (tool \in Generators /\ tool = "power_loss")
    BY DEF Generators
  <2>4. halted' <=> m'.loc # "flash72"
    <3>1. Stops(m') <=> StopsAt(m')
      BY <1>4, StopsIs DEF Control, ChangeOk
    <3> QED BY <1>4, <2>1, <2>2, <2>3, <3>1 DEF Control, CoreRuns, CoreGoes, From
  <2>5. From("gen424", "flash72") => m'.mode = "GENERATE"
    <3>1. ~ (From("gen424", "flash72") /\ CommitEnds)
      BY DEF From, CommitEnds, Runs
    <3>2. From("gen424", "flash72") => Only({"loc", "target", "flash", "table"})
      BY <3>1 DEF CoreRuns, Moves, LoginMoves, KeyMoves, RetrieveMoves, GenerateMoves, From, Begins, Ends
    <3>3. From("gen424", "flash72") => m'.mode = m.mode /\ m.mode = "GENERATE"
      <4>1. From("gen424", "flash72") => m.mode = "GENERATE"
        BY DEF BoardInv, Places, From
      <4> QED BY <1>0, <3>2, <4>1 DEF Only, Fields
    <3> QED BY <3>3
  <2> QED BY <1>1, <1>2, <1>4, <2>1, <2>4, <2>5 DEF Control, Stopping, OnScreen, From
<1> QED BY <1>1, <1>3, <1>4

LEMMA ControlPanic ==
  ASSUME DOMAIN m = Fields, Control, PanicButton
  PROVE  Control'
<1>1. /\ ~ halted /\ halted' = halted /\ stepping' = stepping /\ armed' = armed
      /\ pc' = pc /\ tool' = tool /\ d' = d /\ pc \in {"wait", "stepping"}
  BY DEF PanicButton, Panic
<1>2. m'.loc = m.loc /\ m'.mode = m.mode
  <2>1. Only({"g_state", "s_authorized", "s_key", "s_new", "table", "pwd", "cancelled", "panics"})
    BY PanicDoes DEF PanicButton
  <2> QED BY <2>1 DEF Only, Fields
<1> QED BY <1>1, <1>2 DEF Control, Stopping, OnScreen

\* What a breakpoint does, whatever the tool.
LEMMA StopDoes ==
  ASSUME Control, ChangeOk, Stop
  PROVE  /\ Stopping /\ StopsAt(m) /\ ~ Stopping' /\ m' = m /\ tool' = tool /\ calm' = TRUE
         /\ d' = Handler.d /\ pc' = Handler.then
         /\ fixedFor' = IF FixesTarget THEN m.s_active ELSE fixedFor
         /\ pc' \in {"pause", "next", "pauseNext", "hold", "ended"}
<1>1. Stopping /\ pc' = Handler.then
  BY DEF Stop, Stopping
<1>2. StopsAt(m) /\ Handler.then \in {"pause", "next", "pauseNext", "hold", "ended"}
  BY <1>1, StoppingAt, HandlerThen DEF ChangeOk
<1> QED BY <1>1, <1>2 DEF Stop, Stopping, boardVars

LEMMA ControlStop == ASSUME Control, ChangeOk, Stop, Keeps PROVE Control'
<1>1. /\ Stopping /\ pc' = Handler.then /\ m' = m /\ halted' = halted /\ stepping' = stepping
      /\ armed' = armed /\ tool' = tool
  BY DEF Stop, Stopping, boardVars
<1>2. StopsAt(m) /\ (m.loc # "gen428" \/ tool \in Generators)
  BY <1>1, StoppingAt DEF ChangeOk, StopsAt
<1>3. /\ pc' \in {"pause", "next", "pauseNext", "hold", "ended"}
      /\ pc' \in {"next", "pauseNext"} => <<tool, m.loc>> \in StepLines
  BY <1>1, HandlerThen DEF ChangeOk
<1>4. Breakpoints(tool', d') = Breakpoints(tool, d)
  BY <1>1, BreakpointsLast DEF Control, Keeps
<1> QED BY <1>1, <1>2, <1>3, <1>4 DEF Control, Stopping, OnScreen

LEMMA ControlEnter == ASSUME Control, Enter PROVE Control'
BY DEF Control, Enter, Stopping, OnScreen

LEMMA ControlStep == ASSUME Control, Step PROVE Control'
BY DEF Control, Step, Stopping, OnScreen

\* No tool that steps is a change tool.
LEMMA SteppersAre ==
  ASSUME Control, pc = "stepping" \/ pc = "next" \/ pc = "pauseNext"
  PROVE  tool \notin ChangeTools /\ tool \notin {"retrieve", "other_retrieve"}
<1>1. <<tool, m.loc>> \in StepLines =>
        tool \in {"mk_auth", "mk_auth_tui", "first_meet", "other_first_meet", "other_change_mk",
                 "generate", "generate_v2", "other_generate"}
  BY DEF StepLines, Generators
<1> QED BY <1>1 DEF Control, Generators, Assigners, ChangeTools

LEMMA ControlStepOver == ASSUME Control, StepOver PROVE Control'
<1>1. tool' = tool /\ tool \notin ChangeTools
  BY SteppersAre DEF StepOver
<1>2. Breakpoints(tool', d') = Breakpoints(tool, d)
  BY <1>1, BreakpointsLast DEF Control
<1> QED BY <1>1, <1>2 DEF Control, StepOver, Stopping, OnScreen

LEMMA ControlPowerCut == ASSUME Control, PowerCut PROVE Control'
BY DEF Control, PowerCut, Unplug, Stopping, OnScreen

-----------------------------------------------------------------------------
(* The login tools.                                                        *)

\* Enter and a "next": the core goes on and nothing else happens.
Resumes ==
  /\ ~ Stopping /\ ~ Stopping' /\ UNCHANGED <<m, tool, d, calm, fixedFor>>
  /\ pc' \notin {"hold", "unplugged"} /\ ~ OnScreen'

LEMMA ResumesDoes == ASSUME Enter \/ Step PROVE Resumes
BY DEF Enter, Step, Resumes, Stopping, OnScreen

\* The tools that print a block print the whole state with it.
LEMMA PlainLive ==
  ASSUME tool = "mk_auth", Control, Stop \/ StepOver
  PROVE  OnScreen' => IsLive(Live', m')
<1>1. tool' = tool /\ m' = m
  BY DEF Stop, StepOver, boardVars
<1>2. Live' = d'.base
  BY <1>1 DEF Live, Plain!Live, ChangeTools, OtherTools, OtherMode
<1>3. CASE Stop
  <2>1. Stopping /\ d' = Handler.d /\ pc' = Handler.then /\ Handler = Plain!Handle(d, m)
    BY <1>3 DEF Stop, Stopping, Handler, ChangeTools, OtherTools, OtherMode
  <2>2. m.loc \in {"auth", "kdf78", "session161", "app167"}
    BY <2>1, StoppingAt DEF StopsAt, ChangeTools
  <2>3. CASE m.loc = "app167"
    BY <2>1, <2>3 DEF OnScreen, Plain!Handle, Plain!Steps
  <2>4. CASE m.loc \in {"auth", "kdf78", "session161"}
    <3>1. d'.base = Plain!DumpBaseState(m)
      BY <2>1, <2>4 DEF Plain!Handle, Plain!Paused, Plain!HandleBp1, Plain!HandleBp2, Plain!HandleBp3
    <3> QED BY <1>1, <1>2, <3>1, PlainReads, DumpIsLive
  <2> QED BY <2>2, <2>3, <2>4
<1>4. CASE StepOver
  <2>1. d' = Plain!AfterBp4(d, m)
    BY <1>4 DEF StepOver, HandlerAfter, Plain!HandleAfter, ChangeTools, OtherTools, OtherMode
  <2>2. d'.base = Plain!DumpBaseState(m)
    BY <2>1 DEF Plain!AfterBp4
  <2> QED BY <1>1, <1>2, <2>2, PlainReads, DumpIsLive
<1> QED BY <1>3, <1>4

\* The login on the dashboard: what it holds of the attempt under way.
MkAuthInv == tool = "mk_auth_tui" =>
  /\ DOMAIN MkAuth!FreshState \subseteq DOMAIN d
  /\ d.salt # None => d.auth_computed \in {<<d.mk, d.salt>>, Garbage}
  /\ m.loc = "auth" /\ ~ Stopping => d.mk = m.mk /\ d.salt = None
  /\ m.loc \in {"kdf78", "session161"} /\ m.mode = "MK_AUTH" =>
       d.mk = m.mk /\ d.salt \in {None, m.salt}
  /\ m.loc = "session161" /\ ~ Stopping =>
       d.result = m.result /\ (d.verdict = "MATCH" <=> m.derived = m.flash[m.s_active].auth)

LEMMA MkAuthRuns ==
  ASSUME BoardInv, Control, CoreRuns, MkAuthInv
  PROVE  MkAuthInv'
<1> SUFFICES ASSUME tool = "mk_auth_tui" PROVE MkAuthInv'
  BY DEF MkAuthInv, CoreRuns
<1>1. tool' = tool /\ d' = d /\ ~ halted /\ ~ Stopping /\ DOMAIN m = Fields
  BY DEF CoreRuns, CoreGoes, Stopping, BoardInv, Types
<1>2. CASE pc = "stepping"
  <2>1. m'.loc = "idle"
    BY <1>1, <1>2, SteppingMoves DEF Generators
  <2> QED BY <1>1, <2>1 DEF MkAuthInv
<1>3. CASE pc = "wait"
  <2>1. Stopping' <=> StopsAt(m')
    BY <1>3, ArrivesIs DEF ChangeTools
  <2>2. m'.loc \in {"auth", "session161"} => Stopping'
    BY <2>1 DEF StopsAt
  <2>3. CASE m'.loc = "kdf78" /\ m'.mode = "MK_AUTH"
    <3>1. ~ CommitEnds
      BY <1>1, <2>3, CommitEndsDoes DEF From
    <3>2. \/ m.loc = "auth" /\ Only({"loc", "salt", "derived", "cancelled"})
          \/ m.loc = "deriving" /\ Only({"loc", "derived"})
      BY <2>3, <3>1
         DEF CoreRuns, Moves, LoginMoves, KeyMoves, RetrieveMoves, GenerateMoves, From, Begins, Ends, Draw
    <3>3. m.loc = "auth" /\ m'.mk = m.mk
      <4>1. m'.mode = m.mode /\ m'.mk = m.mk
        BY <3>2 DEF Only, Fields
      <4> QED BY <2>3, <3>2, <4>1 DEF BoardInv, Places
    <3> QED BY <1>1, <2>3, <3>3 DEF MkAuthInv
  <2>4. CASE m'.loc = "session161"
    <3>1. ~ CommitEnds
      BY <1>1, <2>4, CommitEndsDoes DEF From
    <3>2. \/ m.loc = "auth" /\ Only({"loc", "salt", "derived", "result"})
          \/ /\ m.loc = "kdf78" /\ m.mode = "MK_AUTH"
             /\ Only({"loc", "result", "s_key", "s_authorized"})
      BY <2>4, <3>1
         DEF CoreRuns, Moves, LoginMoves, KeyMoves, RetrieveMoves, GenerateMoves, From, Begins, Ends, Draw
    <3>3. m'.mk = m.mk /\ (m.loc = "kdf78" => m'.salt = m.salt)
      BY <3>2 DEF Only, Fields
    <3> QED BY <1>1, <2>2, <2>4, <3>2, <3>3 DEF MkAuthInv
  <2>5. CASE m'.loc # "session161" /\ ~ (m'.loc = "kdf78" /\ m'.mode = "MK_AUTH")
    BY <1>1, <2>2, <2>5 DEF MkAuthInv
  <2> QED BY <2>3, <2>4, <2>5
<1> QED BY <1>2, <1>3 DEF CoreRuns

LEMMA MkAuthPanic ==
  ASSUME DOMAIN m = Fields, PanicButton, MkAuthInv
  PROVE  MkAuthInv'
<1>1. Only({"g_state", "s_authorized", "s_key", "s_new", "table", "pwd", "cancelled", "panics"})
  BY PanicDoes DEF PanicButton
<1>2. /\ m'.loc = m.loc /\ m'.mode = m.mode /\ m'.mk = m.mk /\ m'.salt = m.salt
      /\ m'.result = m.result /\ m'.derived = m.derived /\ m'.flash = m.flash
      /\ m'.s_active = m.s_active
  BY <1>1 DEF Only, Fields
<1>3. Stopping' = Stopping /\ tool' = tool /\ d' = d
  BY DEF PanicButton, Panic, Stopping
<1> QED BY <1>2, <1>3 DEF MkAuthInv

\* What the memory is read into, and what is left alone.
LEMMA MkAuthPersists ==
  ASSUME NEW e, NEW x
  PROVE  LET r == MkAuth!ReadPersistent(e, x)
         IN  /\ DOMAIN e \subseteq DOMAIN r
             /\ \A f \in {"mk", "salt", "auth_computed", "result", "verdict"} \cap DOMAIN e : r[f] = e[f]
             /\ IsLive(MkAuth!Live(r), x)
<1> DEFINE r == MkAuth!ReadPersistent(e, x)
           u == [g_state |-> x.g_state, s_key |-> x.s_key, s_authorized |-> x.s_authorized,
                 active |-> x.s_active, flash_a |-> ReadPartitionHeader(x, 2),
                 flash_b |-> ReadPartitionHeader(x, 3), entry0 |-> ReadEntries(x, x.s_active, {0})]
<1>1. r = Updated(e, u)
  BY MkAuthReads DEF MkAuth!ReadPersistent
<1>2. /\ r.g_state = x.g_state /\ r.s_key = x.s_key /\ r.s_authorized = x.s_authorized
      /\ r.active = x.s_active /\ r.flash_a = ReadPartitionHeader(x, 2)
      /\ r.flash_b = ReadPartitionHeader(x, 3)
  BY <1>1 DEF Updated
<1>3. /\ DOMAIN e \subseteq DOMAIN r
      /\ \A f \in {"mk", "salt", "auth_computed", "result", "verdict"} \cap DOMAIN e : r[f] = e[f]
  BY <1>1 DEF Updated
<1> HIDE DEF r, u
<1> DEFINE s == MkAuth!PanelSession(r)
           p == MkAuth!PanelFlash(r)
<1>4. MkAuth!Live(r) = Updated(s, p)
  BY MkAuthReads DEF MkAuth!Live, MkAuth!Render
<1>5. IsLive(s, x)
  <2>1. /\ DOMAIN s \cap {"active", "flash_a", "flash_b"} = {}
        /\ \A f \in SessionFields \cap DOMAIN s : s[f] = x[f]
    BY <1>2 DEF SessionFields, MkAuth!PanelSession
  <2> HIDE DEF s
  <2> QED BY <2>1, SessionIsLive
<1>6. IsLive(p, x)
  <2>1. /\ DOMAIN p \cap SessionFields = {} /\ p.active = x.s_active
        /\ p.flash_a = HeaderLine(r.flash_a) /\ p.flash_b = HeaderLine(r.flash_b)
    BY <1>2, MkAuthReads DEF SessionFields, MkAuth!PanelFlash
  <2> HIDE DEF p
  <2> QED BY <1>2, <2>1, FlashIsLive
<1> HIDE DEF s, p
<1> QED BY <1>3, <1>4, <1>5, <1>6, UpdatedLive DEF r

LEMMA MkAuthStop ==
  ASSUME BoardInv, Control, ChangeOk, MkAuthInv, Stop
  PROVE  MkAuthInv' /\ (tool = "mk_auth_tui" /\ OnScreen' => IsLive(Live', m'))
<1>1. tool' = tool /\ m' = m /\ Stopping /\ ~ Stopping' /\ StopsAt(m) /\ pc' = Handler.then /\ d' = Handler.d
  BY StopDoes
<1> SUFFICES ASSUME tool = "mk_auth_tui" PROVE MkAuthInv' /\ (OnScreen' => IsLive(Live', m'))
  BY <1>1 DEF MkAuthInv
<1>2. /\ Handler = MkAuth!Handle(d, m) /\ Live' = MkAuth!Live(d')
      /\ m.loc \in {"auth", "kdf78", "session161", "app167"}
      /\ m.loc = "kdf78" => m.g_state = "MK_AUTH"
  BY <1>1 DEF Handler, Live, StopsAt, ChangeTools, OtherTools, OtherMode
<1>3. /\ {"highlight", "hot_rows", "mk", "salt", "auth_computed", "enc", "auth_stored", "verdict", "result",
          "transition_before", "transition_after"} \subseteq DOMAIN d
      /\ d.salt # None => d.auth_computed \in {<<d.mk, d.salt>>, Garbage}
      /\ m.loc \in {"kdf78", "session161"} /\ m.mode = "MK_AUTH" =>
           d.mk = m.mk /\ d.salt \in {None, m.salt}
  BY DEF MkAuthInv, MkAuth!FreshState
<1>4. CASE m.loc = "auth"
  <2> DEFINE u == [MkAuth!FreshState EXCEPT !.highlight = "typed", !.mk = m.mk]
             e == Updated(d, u)
  <2>1. pc' = "pause" /\ d' = MkAuth!ReadPersistent(e, m)
    BY <1>1, <1>2, <1>4, MkAuthReads DEF MkAuth!Handle, MkAuth!Paused, MkAuth!HandleBp1
  <2>2. u.mk = m.mk /\ u.salt = None /\ DOMAIN u = DOMAIN MkAuth!FreshState
    BY DEF MkAuth!FreshState
  <2> HIDE DEF u
  <2>3. e.mk = m.mk /\ e.salt = None /\ DOMAIN MkAuth!FreshState \subseteq DOMAIN e /\ {"mk", "salt"} \subseteq DOMAIN e
    BY <2>2 DEF Updated, MkAuth!FreshState
  <2> HIDE DEF e
  <2>4. /\ d'.mk = m.mk /\ d'.salt = None /\ DOMAIN MkAuth!FreshState \subseteq DOMAIN d'
        /\ IsLive(MkAuth!Live(d'), m)
    BY <2>1, <2>3, MkAuthPersists
  <2> QED BY <1>1, <1>2, <1>4, <2>4 DEF MkAuthInv
<1>5. CASE m.loc = "kdf78"
  <2> DEFINE e == [d EXCEPT !.highlight = "computed", !.salt = m.salt,
                            !.auth_computed = m.derived, !.enc = m.derived]
  <2>1. pc' = "pause" /\ d' = MkAuth!ReadPersistent(e, m)
    BY <1>1, <1>2, <1>5 DEF MkAuth!Handle, MkAuth!Paused, MkAuth!HandleBp2
  <2>2. m.mode = "MK_AUTH" /\ m.derived = <<m.mk, m.salt>>
    BY <1>2, <1>5 DEF BoardInv, Places, Keying
  <2>3. e.mk = m.mk /\ e.salt = m.salt /\ e.auth_computed = m.derived /\ DOMAIN e = DOMAIN d
    BY <1>3, <1>5, <2>2
  <2> HIDE DEF e
  <2>4. /\ d'.mk = m.mk /\ d'.salt = m.salt /\ d'.auth_computed = m.derived /\ DOMAIN d \subseteq DOMAIN d'
        /\ IsLive(MkAuth!Live(d'), m)
    BY <1>3, <2>1, <2>3, MkAuthPersists
  <2> QED BY <1>1, <1>2, <1>5, <2>2, <2>4 DEF MkAuthInv
<1>6. CASE m.loc = "session161"
  <2> DEFINE match == m.derived = m.flash[m.s_active].auth
             v == IF match THEN "MATCH" ELSE "MISMATCH"
             e == [d EXCEPT !.highlight = "compared", !.auth_computed = m.derived,
                            !.auth_stored = m.flash[m.s_active].auth,
                            !.verdict = v,
                            !.result = m.result,
                            !.hot_rows = IF match THEN {"s_key", "s_authorized"} ELSE @]
  <2>1. pc' = "pause" /\ d' = MkAuth!ReadPersistent(e, m)
    BY <1>1, <1>2, <1>6 DEF MkAuth!Handle, MkAuth!Paused, MkAuth!HandleBp3
  <2>2. m.mode = "MK_AUTH" /\ m.derived \in {<<m.mk, m.salt>>, Garbage}
    BY <1>6 DEF BoardInv, Places, Keying
  <2>3. v = "MATCH" <=> m.derived = m.flash[m.s_active].auth
    OBVIOUS
  <2> HIDE DEF v, match
  <2>4. /\ e.mk = m.mk /\ e.salt = d.salt /\ e.auth_computed = m.derived /\ DOMAIN e = DOMAIN d
        /\ e.verdict = v /\ e.result = m.result
    BY <1>3, <1>6, <2>2
  <2> HIDE DEF e
  <2>5. /\ d'.mk = m.mk /\ d'.salt = d.salt /\ d'.auth_computed = m.derived
        /\ DOMAIN d \subseteq DOMAIN d' /\ d'.verdict = v /\ d'.result = m.result
        /\ IsLive(MkAuth!Live(d'), m)
    BY <1>3, <2>1, <2>4, MkAuthPersists
  <2> QED BY <1>1, <1>2, <1>3, <1>6, <2>2, <2>3, <2>5 DEF MkAuthInv
<1>7. CASE m.loc = "app167"
  <2>1. pc' = "next" /\ d' = [d EXCEPT !.transition_before = m.g_state]
    BY <1>1, <1>2, <1>7 DEF MkAuth!Handle, MkAuth!Steps, MkAuth!HandleBp4
  <2>2. /\ d'.mk = d.mk /\ d'.salt = d.salt /\ d'.auth_computed = d.auth_computed /\ DOMAIN d' = DOMAIN d
    BY <1>3, <2>1
  <2> QED BY <1>1, <1>7, <2>1, <2>2 DEF MkAuthInv, OnScreen
<1> QED BY <1>2, <1>4, <1>5, <1>6, <1>7

LEMMA MkAuthStepOver ==
  ASSUME Control, MkAuthInv, StepOver
  PROVE  MkAuthInv' /\ (tool = "mk_auth_tui" => IsLive(Live', m'))
<1>1. tool' = tool /\ m' = m /\ ~ Stopping' /\ ~ Stopping /\ d' = HandlerAfter /\ pc = "stepping" /\ halted
  BY DEF StepOver, Stopping
<1> SUFFICES ASSUME tool = "mk_auth_tui" PROVE MkAuthInv' /\ IsLive(Live', m')
  BY <1>1 DEF MkAuthInv
<1>2. m.loc = "idle" /\ Live' = MkAuth!Live(d') /\ d' = MkAuth!AfterBp4(d, m)
  BY <1>1 DEF Control, Generators, StepLines, Live, HandlerAfter, MkAuth!HandleAfter, ChangeTools,
              OtherTools, OtherMode
<1> DEFINE e == [d EXCEPT !.highlight = "transition", !.hot_rows = {"g_state"}, !.transition_after = m.g_state]
<1>3. d' = MkAuth!ReadPersistent(e, m)
  BY <1>2 DEF MkAuth!AfterBp4
<1>4. {"mk", "salt", "auth_computed", "highlight", "hot_rows", "transition_after"} \subseteq DOMAIN d
  BY DEF MkAuthInv, MkAuth!FreshState
<1>5. e.mk = d.mk /\ e.salt = d.salt /\ e.auth_computed = d.auth_computed /\ DOMAIN e = DOMAIN d
  BY <1>4
<1> HIDE DEF e
<1>6. /\ d'.mk = d.mk /\ d'.salt = d.salt /\ d'.auth_computed = d.auth_computed /\ DOMAIN d \subseteq DOMAIN d'
      /\ IsLive(MkAuth!Live(d'), m)
  BY <1>3, <1>4, <1>5, MkAuthPersists
<1> QED BY <1>1, <1>2, <1>6 DEF MkAuthInv

LEMMA MkAuthRest ==
  ASSUME MkAuthInv, Resumes \/ PowerCut
  PROVE  MkAuthInv'
<1>1. CASE Resumes
  BY <1>1 DEF Resumes, MkAuthInv
<1>2. CASE PowerCut
  <2>1. m'.loc = "idle" /\ d' = d /\ tool' = tool
    BY <1>2 DEF PowerCut, Unplug, Boot
  <2> QED BY <2>1 DEF MkAuthInv
<1> QED BY <1>1, <1>2

-----------------------------------------------------------------------------
(* The tools of the key change.                                            *)

\* The session and the two headers a screen was drawn from.
Sees(e, x) ==
  /\ e.g_state = x.g_state /\ e.s_authorized = x.s_authorized /\ e.session_key = x.s_key
  /\ e.active_sector = x.s_active
  /\ e.flash_a = ChangeMk!Header(x, 2) /\ e.flash_b = ChangeMk!Header(x, 3)

ChangeNames == DOMAIN ChangeMk!FreshState

Other2(s) == IF s = 2 THEN 3 ELSE 2

\* The power-loss point is that of the commit, and of the words written so far.
HoldsAt ==
  /\ tool = "power_loss" /\ m.loc = "flash72" /\ d.power_loss # None
  /\ d.power_loss.sector = m.target
  /\ d.power_loss.crc_ok <=> ValidateCrc(m.flash[m.target])

\* The target is the one that was inactive when it was fixed; the verdict on two
\* entries of a key is that of entries no panic has wiped.
ChangeInv ==
  /\ tool \in ChangeTools =>
       /\ ChangeFields
       /\ tool = "power_loss" => d.power_loss_word \in PowerWords
       /\ d.target_sector # None => d.target_sector = Other2(fixedFor)
       /\ m.loc = "change87" /\ Stopping => m.g_state = "CHANGE_MK"
       /\ m.loc = "change87" /\ ~ Stopping /\ calm =>
            m.g_state = "CHANGE_MK" /\ (d.confirm_match <=> m.line = m.s_new)
  /\ pc = "hold" => HoldsAt

LEMMA HeaderIs ==
  ASSUME NEW x, NEW s
  PROVE  /\ HeaderLine(ChangeMk!Header(x, s)) = HeaderLine(ReadPartitionHeader(x, s))
         /\ ChangeMk!Header(x, s).auth = x.flash[s].auth
<1> DEFINE h == ReadPartitionHeader(x, s)
           c == [crc_ok |-> IF h.valid THEN ChangeMk!ReadPartitionCrcOk(x, s) ELSE None]
<1>1. ChangeMk!Header(x, s) = Updated(h, c)
  BY ChangeMkReads DEF ChangeMk!Header
<1>2. DOMAIN c = {"crc_ok"} /\ DOMAIN h = {"valid", "status", "version", "auth"} /\ h.auth = x.flash[s].auth
  BY DEF ReadPartitionHeader
<1> HIDE DEF h, c
<1>3. Updated(h, c).valid = h.valid /\ Updated(h, c).version = h.version /\ Updated(h, c).auth = h.auth
  BY <1>2 DEF Updated
<1> QED BY <1>1, <1>2, <1>3 DEF HeaderLine, h

LEMMA SeesIsLive == ASSUME NEW e, NEW x, Sees(e, x) PROVE IsLive(ChangeMk!Live(e), x)
<1> DEFINE s == ChangeMk!PanelSession(e)
           p == ChangeMk!PanelFlash(e)
<1>1. ChangeMk!Live(e) = Updated(s, p)
  BY ChangeMkReads DEF ChangeMk!Live, ChangeMk!Render
<1>2. IsLive(s, x)
  <2>1. /\ DOMAIN s \cap {"active", "flash_a", "flash_b"} = {}
        /\ \A f \in SessionFields \cap DOMAIN s : s[f] = x[f]
    BY DEF Sees, SessionFields, ChangeMk!PanelSession
  <2> HIDE DEF s
  <2> QED BY <2>1, SessionIsLive
<1>3. IsLive(p, x)
  <2>1. /\ DOMAIN p \cap SessionFields = {} /\ p.active = x.s_active
        /\ p.flash_a = HeaderLine(e.flash_a) /\ p.flash_b = HeaderLine(e.flash_b)
    BY ChangeMkReads DEF Sees, SessionFields, ChangeMk!PanelFlash
  <2>2. /\ HeaderLine(e.flash_a) = HeaderLine(ReadPartitionHeader(x, 2))
        /\ HeaderLine(e.flash_b) = HeaderLine(ReadPartitionHeader(x, 3))
    BY HeaderIs DEF Sees
  <2> HIDE DEF p
  <2> QED BY <2>1, <2>2, FlashIsLive
<1> HIDE DEF s, p
<1> QED BY <1>1, <1>2, <1>3, UpdatedLive

\* read_session and read_flash, then read_target_window.
LEMMA SeesDoes ==
  ASSUME NEW e, NEW x, ChangeNames \subseteq DOMAIN e
  PROVE  LET r == ChangeMk!ReadFlash(ChangeMk!ReadSession(e, x), x)
         IN  /\ DOMAIN r = DOMAIN e /\ Sees(r, x)
             /\ \A f \in DOMAIN e \ {"g_state", "s_authorized", "session_key", "active_sector",
                                     "flash_a", "flash_b"} : r[f] = e[f]
<1> DEFINE s == ChangeMk!ReadSession(e, x)
<1>0. {"g_state", "s_authorized", "session_key", "active_sector", "flash_a", "flash_b"} \subseteq DOMAIN e
  BY DEF ChangeNames, ChangeMk!FreshState
<1>1. /\ DOMAIN s = DOMAIN e
      /\ s.g_state = x.g_state /\ s.s_authorized = x.s_authorized /\ s.session_key = x.s_key
      /\ \A f \in DOMAIN e \ {"g_state", "s_authorized", "session_key"} : s[f] = e[f]
  BY <1>0 DEF ChangeMk!ReadSession
<1> HIDE DEF s
<1> DEFINE r == ChangeMk!ReadFlash(s, x)
<1>2. /\ DOMAIN r = DOMAIN s
      /\ r.active_sector = x.s_active /\ r.flash_a = ChangeMk!Header(x, 2)
      /\ r.flash_b = ChangeMk!Header(x, 3)
      /\ \A f \in DOMAIN s \ {"active_sector", "flash_a", "flash_b"} : r[f] = s[f]
  BY <1>0, <1>1 DEF ChangeMk!ReadFlash
<1> HIDE DEF r
<1>3. Sees(r, x)
  BY <1>0, <1>1, <1>2 DEF Sees
<1> QED BY <1>1, <1>2, <1>3 DEF r, s

LEMMA WindowDoes ==
  ASSUME NEW e, NEW x, ChangeNames \subseteq DOMAIN e, Sees(e, x)
  PROVE  LET r == ChangeMk!ReadTargetWindow(e, x)
         IN  /\ DOMAIN r = DOMAIN e /\ Sees(r, x)
             /\ r.target_sector = IF e.target_sector # None THEN e.target_sector ELSE Other2(x.s_active)
             /\ r.header_raw = ChangeMk!Header(x, IF r.target_sector = 3 THEN 3 ELSE 2)
             /\ \A f \in DOMAIN e \ {"target_sector", "header_raw", "window"} : r[f] = e[f]
<1> DEFINE sector == IF e.target_sector # None THEN e.target_sector ELSE Other2(x.s_active)
           w == ChangeMk!ReadEntries(x, sector, 0..Entries - 1)
           h == ChangeMk!HeaderOf(e, sector)
           r == [e EXCEPT !.target_sector = sector, !.header_raw = h, !.window = w]
<1>0. ChangeMk!ReadTargetWindow(e, x) = r
  BY DEF ChangeMk!ReadTargetWindow, ChangeMk!TargetPartition, Sees, Other2
<1>1. {"target_sector", "header_raw", "window", "g_state", "s_authorized", "session_key",
       "active_sector", "flash_a", "flash_b"} \subseteq DOMAIN e
  BY DEF ChangeNames, ChangeMk!FreshState
<1>2. h = ChangeMk!Header(x, IF sector = 3 THEN 3 ELSE 2)
  BY DEF ChangeMk!HeaderOf, Sees
<1> HIDE DEF sector, w, h
<1>3. /\ DOMAIN r = DOMAIN e /\ r.target_sector = sector /\ r.header_raw = h
      /\ \A f \in DOMAIN e \ {"target_sector", "header_raw", "window"} : r[f] = e[f]
  BY <1>1
<1> HIDE DEF r
<1>4. Sees(r, x)
  BY <1>1, <1>3 DEF Sees
<1> QED BY <1>0, <1>2, <1>3, <1>4 DEF sector

ReadNames == {"g_state", "s_authorized", "session_key", "active_sector", "flash_a", "flash_b",
              "target_sector", "header_raw", "window"}

LEMMA ReadDoes ==
  ASSUME NEW e, NEW x, ChangeNames \subseteq DOMAIN e
  PROVE  LET r == ChangeMk!Read(e, x)
         IN  /\ DOMAIN r = DOMAIN e /\ Sees(r, x)
             /\ r.target_sector = IF e.target_sector # None THEN e.target_sector ELSE Other2(x.s_active)
             /\ r.header_raw = ChangeMk!Header(x, IF r.target_sector = 3 THEN 3 ELSE 2)
             /\ \A f \in DOMAIN e \ ReadNames : r[f] = e[f]
<1> DEFINE s == ChangeMk!ReadFlash(ChangeMk!ReadSession(e, x), x)
           r == ChangeMk!ReadTargetWindow(s, x)
<1>0. ChangeMk!Read(e, x) = r
  BY DEF ChangeMk!Read
<1>1. /\ DOMAIN s = DOMAIN e /\ Sees(s, x)
      /\ \A f \in DOMAIN e \ {"g_state", "s_authorized", "session_key", "active_sector",
                              "flash_a", "flash_b"} : s[f] = e[f]
  BY SeesDoes
<1>2. "target_sector" \in DOMAIN e
  BY DEF ChangeNames, ChangeMk!FreshState
<1> HIDE DEF s
<1>3. s.target_sector = e.target_sector
  BY <1>1, <1>2
<1>4. /\ DOMAIN r = DOMAIN s /\ Sees(r, x)
      /\ r.target_sector = IF s.target_sector # None THEN s.target_sector ELSE Other2(x.s_active)
      /\ r.header_raw = ChangeMk!Header(x, IF r.target_sector = 3 THEN 3 ELSE 2)
      /\ \A f \in DOMAIN s \ {"target_sector", "header_raw", "window"} : r[f] = s[f]
  BY <1>1, WindowDoes
<1> HIDE DEF r
<1> QED BY <1>0, <1>1, <1>3, <1>4 DEF ReadNames

\* What every handler of the dashboard leaves: the screen is read anew, the
\* target is that of t, or of now, and the header is the target's.
Handled(r, t) ==
  /\ DOMAIN r = DOMAIN d /\ Sees(r, m)
  /\ \A f \in PowerFields \cap DOMAIN d : r[f] = d[f]
  /\ r.target_sector = IF t # None THEN t ELSE Other2(m.s_active)
  /\ r.header_raw = ChangeMk!Header(m, IF r.target_sector = 3 THEN 3 ELSE 2)

ChangedTarget == IF d.step = "menu" /\ m.loc = "change87" THEN None ELSE d.target_sector

\* The fields of the dictionary that no reading writes.
LEMMA ChangeNamesAre ==
  /\ {"step", "typed_mk", "policy_ok", "confirm_match", "old_raw", "old_dec", "old_count",
      "first_used", "salt", "auth", "enc", "target_sector", "commit_key", "commit_entry0",
      "power_loss"} \subseteq ChangeNames
  /\ {"step", "typed_mk", "policy_ok", "confirm_match", "old_raw", "old_dec", "old_count",
      "first_used", "salt", "auth", "enc", "commit_key", "commit_entry0",
      "power_loss"} \cap ReadNames = {}
  /\ PowerFields \cap ChangeNames = {} /\ PowerFields \cap ReadNames = {}
  /\ ReadNames \subseteq ChangeNames
BY DEF ChangeNames, ReadNames, PowerFields, ChangeMk!FreshState

LEMMA ReadHandled ==
  ASSUME NEW e, ChangeNames \subseteq DOMAIN d, DOMAIN e = DOMAIN d,
         \A f \in PowerFields \cap DOMAIN d : e[f] = d[f]
  PROVE  LET r == ChangeMk!Read(e, m)
         IN  Handled(r, e.target_sector) /\ \A f \in DOMAIN e \ ReadNames : r[f] = e[f]
<1> DEFINE r == ChangeMk!Read(e, m)
<1>1. /\ DOMAIN r = DOMAIN e /\ Sees(r, m)
      /\ r.target_sector = IF e.target_sector # None THEN e.target_sector ELSE Other2(m.s_active)
      /\ r.header_raw = ChangeMk!Header(m, IF r.target_sector = 3 THEN 3 ELSE 2)
      /\ \A f \in DOMAIN e \ ReadNames : r[f] = e[f]
  BY ReadDoes
<1> HIDE DEF r
<1>2. \A f \in PowerFields \cap DOMAIN d : r[f] = d[f]
  BY <1>1, ChangeNamesAre
<1> QED BY <1>1, <1>2 DEF Handled, r

\* The record of the power-loss point.
PowerLossRecord ==
  [sector |-> d.power_loss_sector, word |-> d.power_loss_word,
   header |-> ChangeMk!Header(m, IF d.power_loss_sector = 3 THEN 3 ELSE 2),
   crc_ok |-> ValidateCrc(m.flash[d.power_loss_sector])]

LEMMA ChangeStopDoes ==
  ASSUME tool \in ChangeTools, ChangeFields, Control, Stop
  PROVE  /\ Handled(d', ChangedTarget)
         /\ m.loc = "change87" => d'.confirm_match = (m.line = m.s_new)
         /\ m.loc = "flash72" => tool = "power_loss" /\ d'.power_loss = PowerLossRecord
<1>1. Stopping /\ StopsAt(m) /\ d' = Handler.d
  BY StopDoes DEF ChangeOk
<1>2. /\ m.loc \in {"change87", "change66", "kdf78", "session202", "app211", "flash72"}
      /\ m.loc = "flash72" => tool = "power_loss"
  BY <1>1 DEF StopsAt, ChangeTools
<1>3. d' = ChangeMk!Handle(d, m).d
  BY <1>1 DEF Handler, ChangeTools, OtherTools, OtherMode
<1>4. ChangeNames \subseteq DOMAIN d
  BY DEF ChangeFields, ChangeNames
<1>5. CASE m.loc = "change87"
  <2> DEFINE start == IF d.step = "menu" THEN ChangeMk!Updated(d, ChangeMk!FreshState) ELSE d
             policy == m.s_new \in Keys
             match == m.line = m.s_new
             e == [start EXCEPT !.typed_mk = m.s_new, !.policy_ok = policy,
                                !.confirm_match = match, !.step = "typed"]
  <2>1. d' = ChangeMk!Read(e, m)
    BY <1>3, <1>5 DEF ChangeMk!Handle, ChangeMk!PauseOrFast, ChangeMk!Paused, ChangeMk!HandleConfirm
  <2>2. /\ DOMAIN start = DOMAIN d /\ start.target_sector = ChangedTarget
        /\ \A f \in PowerFields \cap DOMAIN d : start[f] = d[f]
    <3>1. CASE d.step = "menu"
      <4>1. ChangeMk!FreshState.target_sector = None
        BY DEF ChangeMk!FreshState
      <4> QED BY <1>4, <1>5, <3>1, <4>1, ChangeNamesAre DEF ChangeMk!Updated, ChangedTarget, ChangeNames
    <3>2. CASE d.step # "menu"
      BY <3>2 DEF ChangedTarget
    <3> QED BY <3>1, <3>2
  <2> HIDE DEF start, policy, match
  <2>3. /\ DOMAIN e = DOMAIN d /\ e.target_sector = ChangedTarget /\ e.confirm_match = match
        /\ \A f \in PowerFields \cap DOMAIN d : e[f] = d[f]
    BY <1>4, <2>2, ChangeNamesAre
  <2> HIDE DEF e
  <2>4. Handled(d', ChangedTarget) /\ d'.confirm_match = match
    BY <1>4, <2>1, <2>3, ReadHandled, ChangeNamesAre
  <2> QED BY <1>5, <2>4 DEF match
<1>6. CASE m.loc = "change66"
  <2> DEFINE e == [d EXCEPT !.step = "old"]
             seen == ChangeMk!ReadFlash(ChangeMk!ReadSession(e, m), m)
             first == ChangeMk!FirstUsed(m.table)
             count == ChangeMk!Cardinality(ChangeMk!Used(m.table))
             raw == ChangeMk!ReadEntries(m, seen.active_sector, {first})[first]
             dec == m.table[first]
             g == [seen EXCEPT !.old_count = count, !.first_used = first, !.old_raw = raw, !.old_dec = dec]
             r == ChangeMk!ReadTargetWindow(g, m)
  <2>1. d' = r
    <3>1. d' = ChangeMk!HandleOld(d, m)
      BY <1>3, <1>6 DEF ChangeMk!Handle, ChangeMk!PauseOrFast, ChangeMk!Paused
    <3> QED BY <3>1 DEF ChangeMk!HandleOld
  <2>2. DOMAIN e = DOMAIN d /\ \A f \in DOMAIN d : f # "step" => e[f] = d[f]
    OBVIOUS
  <2> HIDE DEF e
  <2>3. /\ DOMAIN seen = DOMAIN d /\ Sees(seen, m)
        /\ \A f \in DOMAIN e \ {"g_state", "s_authorized", "session_key", "active_sector",
                                "flash_a", "flash_b"} : seen[f] = e[f]
    BY <1>4, <2>2, SeesDoes
  <2> HIDE DEF seen, first, count, raw, dec
  <2>4. /\ DOMAIN g = DOMAIN d
        /\ \A f \in DOMAIN d \ {"old_count", "first_used", "old_raw", "old_dec"} : g[f] = seen[f]
    BY <2>3
  <2> HIDE DEF g
  <2>5. Sees(g, m) /\ g.target_sector = d.target_sector /\ \A f \in PowerFields \cap DOMAIN d : g[f] = d[f]
    <3>1. ReadNames \cap {"old_count", "first_used", "old_raw", "old_dec"} = {}
      BY ChangeNamesAre
    <3>2. Sees(g, m)
      BY <1>4, <2>3, <2>4, <3>1, ChangeNamesAre DEF Sees, ReadNames
    <3> QED BY <1>4, <2>2, <2>3, <2>4, <3>2, ChangeNamesAre DEF ReadNames, PowerFields
  <2>6. /\ DOMAIN r = DOMAIN g /\ Sees(r, m)
        /\ r.target_sector = IF g.target_sector # None THEN g.target_sector ELSE Other2(m.s_active)
        /\ r.header_raw = ChangeMk!Header(m, IF r.target_sector = 3 THEN 3 ELSE 2)
        /\ \A f \in DOMAIN g \ {"target_sector", "header_raw", "window"} : r[f] = g[f]
    BY <1>4, <2>4, <2>5, WindowDoes
  <2> HIDE DEF r
  <2>7. \A f \in PowerFields \cap DOMAIN d : r[f] = d[f]
    BY <2>4, <2>5, <2>6, ChangeNamesAre DEF ReadNames
  <2> QED BY <1>6, <2>1, <2>4, <2>5, <2>6, <2>7 DEF Handled, ChangedTarget
<1>7. CASE m.loc = "kdf78"
  <2> DEFINE e == [d EXCEPT !.step = "derived", !.salt = m.salt, !.auth = m.derived]
  <2>1. d' = ChangeMk!Read(e, m)
    BY <1>3, <1>7 DEF ChangeMk!Handle, ChangeMk!PauseOrFast, ChangeMk!Paused, ChangeMk!HandleDerived
  <2>2. /\ DOMAIN e = DOMAIN d /\ e.target_sector = ChangedTarget
        /\ \A f \in PowerFields \cap DOMAIN d : e[f] = d[f]
    BY <1>4, <1>7, ChangeNamesAre DEF ChangedTarget
  <2> HIDE DEF e
  <2> QED BY <1>4, <1>7, <2>1, <2>2, ReadHandled
<1>8. CASE m.loc = "session202"
  <2> DEFINE e == [d EXCEPT !.step = "committed", !.enc = m.derived]
             seen == ChangeMk!Read(e, m)
             g == ChangeMk!ReadEntries(m, seen.target_sector, {seen.first_used})[seen.first_used]
             r == [seen EXCEPT !.commit_key = seen.enc, !.commit_entry0 = g]
  <2>1. d' \in {seen, r}
    BY <1>3, <1>8 DEF ChangeMk!Handle, ChangeMk!HandleCommitted, ChangeMk!PauseOrFast, ChangeMk!Paused,
                      ChangeMk!Raises
  <2>2. /\ DOMAIN e = DOMAIN d /\ e.target_sector = ChangedTarget
        /\ \A f \in PowerFields \cap DOMAIN d : e[f] = d[f]
    BY <1>4, <1>8, ChangeNamesAre DEF ChangedTarget
  <2> HIDE DEF e
  <2>3. Handled(seen, ChangedTarget)
    BY <1>4, <2>2, ReadHandled
  <2> HIDE DEF seen, g
  <2>4. DOMAIN r = DOMAIN seen /\ \A f \in DOMAIN seen \ {"commit_key", "commit_entry0"} : r[f] = seen[f]
    OBVIOUS
  <2> HIDE DEF r
  <2>5. Handled(r, ChangedTarget)
    <3>1. ReadNames \cup PowerFields \subseteq (ReadNames \cup PowerFields) \ {"commit_key", "commit_entry0"}
      BY DEF ReadNames, PowerFields
    <3>2. Sees(r, m)
      BY <1>4, <2>3, <2>4, <3>1, ChangeNamesAre DEF Handled, Sees, ReadNames
    <3>3. r.target_sector = seen.target_sector /\ r.header_raw = seen.header_raw
      BY <1>4, <2>3, <2>4, ChangeNamesAre DEF Handled, ReadNames
    <3>4. \A f \in PowerFields \cap DOMAIN d : r[f] = d[f]
      BY <2>3, <2>4, <3>1 DEF Handled
    <3> QED BY <2>3, <2>4, <3>2, <3>3, <3>4 DEF Handled
  <2> QED BY <1>8, <2>1, <2>3, <2>5
<1>9. CASE m.loc = "app211"
  <2> DEFINE e == [d EXCEPT !.step = "menu"]
  <2>1. d' = ChangeMk!Read(e, m)
    BY <1>3, <1>9 DEF ChangeMk!Handle, ChangeMk!PauseOrFast, ChangeMk!Paused, ChangeMk!HandleMenu
  <2>2. /\ DOMAIN e = DOMAIN d /\ e.target_sector = ChangedTarget
        /\ \A f \in PowerFields \cap DOMAIN d : e[f] = d[f]
    BY <1>4, <1>9, ChangeNamesAre DEF ChangedTarget
  <2> HIDE DEF e
  <2> QED BY <1>4, <1>9, <2>1, <2>2, ReadHandled
<1>10. CASE m.loc = "flash72"
  <2> DEFINE seen == ChangeMk!Read(d, m)
             g == [sector |-> d.power_loss_sector, word |-> d.power_loss_word,
                   header |-> ChangeMk!HeaderOf(seen, d.power_loss_sector),
                   crc_ok |-> ChangeMk!ReadPartitionCrcOk(m, d.power_loss_sector)]
             r == [seen EXCEPT !.step = "power_loss", !.power_loss = g]
  <2>1. d' = r
    BY <1>3, <1>10 DEF ChangeMk!Handle, ChangeMk!HandlePowerLoss, ChangeMk!Holds
  <2>2. Handled(seen, d.target_sector)
    BY <1>4, ReadHandled
  <2> HIDE DEF seen
  <2>3. g = PowerLossRecord
    BY <2>2 DEF PowerLossRecord, Handled, Sees, ChangeMk!HeaderOf, ChangeMk!ReadPartitionCrcOk,
                ChangeMk!ValidateCrc, ValidateCrc
  <2> HIDE DEF g
  <2>4. /\ DOMAIN r = DOMAIN seen /\ \A f \in DOMAIN seen \ {"step", "power_loss"} : r[f] = seen[f]
        /\ "power_loss" \in DOMAIN seen => r.power_loss = g
    OBVIOUS
  <2> HIDE DEF r
  <2>5. Handled(r, d.target_sector)
    <3>1. ReadNames \cup PowerFields \subseteq (ReadNames \cup PowerFields) \ {"step", "power_loss"}
      BY DEF ReadNames, PowerFields
    <3>2. Sees(r, m)
      BY <1>4, <2>2, <2>4, <3>1, ChangeNamesAre DEF Handled, Sees, ReadNames
    <3>3. r.target_sector = seen.target_sector /\ r.header_raw = seen.header_raw
      BY <1>4, <2>2, <2>4, ChangeNamesAre DEF Handled, ReadNames
    <3>4. \A f \in PowerFields \cap DOMAIN d : r[f] = d[f]
      BY <2>2, <2>4, <3>1 DEF Handled
    <3> QED BY <2>2, <2>4, <3>2, <3>3, <3>4 DEF Handled
  <2>6. "power_loss" \in DOMAIN seen
    BY <1>4, <2>2, ChangeNamesAre DEF Handled
  <2> QED BY <1>2, <1>10, <2>1, <2>3, <2>4, <2>5, <2>6 DEF ChangedTarget
<1> QED BY <1>2, <1>5, <1>6, <1>7, <1>8, <1>9, <1>10

\* The record of a power-loss point is one of those that are not None.
LEMMA RecordIsSome ==
  ASSUME BoardInv, NEW s \in Sectors, NEW w \in PowerWords, NEW t \in Sectors
  PROVE  [sector |-> s, word |-> w, header |-> ChangeMk!Header(m, t),
          crc_ok |-> ValidateCrc(m.flash[s])] # None
<1> DEFINE h == ReadPartitionHeader(m, t)
           c == [crc_ok |-> IF h.valid THEN ChangeMk!ReadPartitionCrcOk(m, t) ELSE None]
           u == ChangeMk!Header(m, t)
           r == [sector |-> s, word |-> w, header |-> u, crc_ok |-> ValidateCrc(m.flash[s])]
<1>1. u = Updated(h, c)
  BY ChangeMkReads DEF ChangeMk!Header
<1>2. /\ DOMAIN h = {"valid", "status", "version", "auth"}
      /\ h.valid \in BOOLEAN /\ h.status \in {"valid", "empty", "INVALID"}
      /\ h.version \in Nat /\ h.auth \in Auths \cup {None}
  BY DEF ReadPartitionHeader, HeaderStatus, BoardInv, Types, IsSlot
<1>3. DOMAIN c = {"crc_ok"} /\ c.crc_ok \in BOOLEAN \cup {None}
  BY DEF ChangeMk!ReadPartitionCrcOk, ChangeMk!ValidateCrc
<1> HIDE DEF h, c
<1>4. u = [k \in {"valid", "status", "version", "auth", "crc_ok"} |-> IF k = "crc_ok" THEN c[k] ELSE h[k]]
  BY <1>1, <1>2, <1>3 DEF Updated
<1>5. u \in [valid : BOOLEAN, status : {"valid", "empty", "INVALID"}, version : Nat,
             auth : Auths \cup {None}, crc_ok : BOOLEAN \cup {None}]
  <2>1. /\ u.valid = h.valid /\ u.status = h.status /\ u.version = h.version /\ u.auth = h.auth
        /\ u.crc_ok = c.crc_ok
    BY <1>4
  <2>2. u = [valid |-> h.valid, status |-> h.status, version |-> h.version, auth |-> h.auth,
             crc_ok |-> c.crc_ok]
    BY <1>4
  <2> HIDE DEF u
  <2> QED BY <1>2, <1>3, <2>2
<1> HIDE DEF u
<1>6. ValidateCrc(m.flash[s]) \in BOOLEAN
  BY DEF ValidateCrc
<1>7. r \in [sector : Sectors, word : PowerWords, crc_ok : BOOLEAN,
             header : [valid : BOOLEAN, status : {"valid", "empty", "INVALID"}, version : Nat,
                       auth : Auths \cup {None}, crc_ok : BOOLEAN \cup {None}]]
  BY <1>5, <1>6
<1> HIDE DEF r
<1> QED BY <1>7, NoRecordAssumption DEF Auths, r, u

LEMMA ChangeStop ==
  ASSUME BoardInv, Control, ChangeInv, Stop
  PROVE  /\ ChangeInv' /\ Keeps
         /\ tool \in ChangeTools => IsLive(Live', m') /\ TargetIsWritten'
<1>0. ChangeOk
  BY DEF ChangeInv, ChangeOk
<1>1. /\ tool' = tool /\ m' = m /\ Stopping /\ ~ Stopping' /\ StopsAt(m) /\ pc' = Handler.then
      /\ d' = Handler.d /\ calm' = TRUE
      /\ fixedFor' = IF FixesTarget THEN m.s_active ELSE fixedFor
  BY <1>0, StopDoes
<1> SUFFICES ASSUME tool \in ChangeTools PROVE ChangeInv' /\ Keeps /\ IsLive(Live', m') /\ TargetIsWritten'
  <2>1. pc' = "hold" => tool \in ChangeTools
    BY <1>0, <1>1, HandlerThen DEF ChangeOk, ChangeTools
  <2> QED BY <1>1, <2>1 DEF ChangeInv, Keeps
<1>2. /\ ChangeFields
      /\ tool = "power_loss" => d.power_loss_word \in PowerWords
      /\ d.target_sector # None => d.target_sector = Other2(fixedFor)
      /\ m.loc = "change87" => m.g_state = "CHANGE_MK"
  BY <1>1 DEF ChangeInv
<1>3. /\ Handled(d', ChangedTarget)
      /\ m.loc = "change87" => d'.confirm_match = (m.line = m.s_new)
      /\ m.loc = "flash72" => tool = "power_loss" /\ d'.power_loss = PowerLossRecord
  BY <1>2, ChangeStopDoes
<1>4. ChangeFields' /\ Keeps /\ (tool = "power_loss" => d'.power_loss_word \in PowerWords)
  <2>1. tool = "power_loss" => PowerFields \subseteq DOMAIN d
    BY <1>2 DEF ChangeFields
  <2>2. tool = "power_loss" => d'.power_loss_sector = d.power_loss_sector /\ d'.power_loss_word = d.power_loss_word
    BY <1>3, <2>1 DEF Handled, PowerFields
  <2>3. "power_loss_sector" \in DOMAIN d => tool = "power_loss"
    BY <1>2, ChangeNamesAre DEF ChangeFields, ChangeNames, PowerFields
  <2> QED BY <1>1, <1>2, <1>3, <2>2, <2>3 DEF Handled, ChangeFields, Keeps
<1>5. d'.target_sector = Other2(fixedFor')
  <2>1. d'.target_sector = IF ChangedTarget # None THEN ChangedTarget ELSE Other2(m.s_active)
    BY <1>3 DEF Handled
  <2>2. CASE FixesTarget
    <3>1. ChangedTarget = None
      BY <2>2 DEF FixesTarget, ChangedTarget
    <3> QED BY <1>1, <2>1, <2>2, <3>1
  <2>3. CASE ~ FixesTarget
    <3>1. ChangedTarget = d.target_sector /\ d.target_sector # None
      BY <2>3 DEF FixesTarget, ChangedTarget
    <3> QED BY <1>1, <1>2, <2>1, <2>3, <3>1
  <2> QED BY <2>2, <2>3
<1>6. pc' = "hold" => HoldsAt'
  <2> SUFFICES ASSUME pc' = "hold" PROVE HoldsAt'
    OBVIOUS
  <2>1. tool = "power_loss" /\ m.loc = "flash72"
    BY <1>0, <1>1, HandlerThen DEF ChangeOk
  <2>2. d.power_loss_sector = m.target /\ d.power_loss_sector \in Sectors
    BY <1>1, <1>2, <2>1 DEF StopsAt, ChangeFields
  <2>3. PowerLossRecord # None
    <3> DEFINE t == IF d.power_loss_sector = 3 THEN 3 ELSE 2
    <3>1. t \in Sectors
      BY DEF Sectors
    <3> HIDE DEF t
    <3> QED BY <1>2, <2>1, <2>2, <3>1, RecordIsSome DEF PowerLossRecord, t
  <2>4. PowerLossRecord.sector = m.target /\ PowerLossRecord.crc_ok = ValidateCrc(m.flash[m.target])
    BY <2>2 DEF PowerLossRecord
  <2> QED BY <1>1, <1>3, <2>1, <2>3, <2>4 DEF HoldsAt
<1>7. IsLive(Live', m')
  <2>1. Live' = ChangeMk!Live(d')
    BY <1>1 DEF Live, ChangeTools, OtherTools, OtherMode
  <2> QED BY <1>1, <1>3, <2>1, SeesIsLive DEF Handled
<1>8. TargetIsWritten'
  <2> SUFFICES ASSUME m.loc = "session202", m.result = "OK", fixedFor' = CommitTarget(m)
               PROVE  d'.target_sector = m.s_active /\ d'.header_raw.auth = m.derived
    BY <1>1 DEF TargetIsWritten, ChangeMk!PanelHeaderTable, CommitTarget
  <2>1. m.s_active \in {2, 3} /\ m.derived = m.flash[m.s_active].auth
    BY DEF BoardInv, Types, Keying, Sectors
  <2>2. d'.target_sector = m.s_active
    BY <1>5, <2>1 DEF Other2, CommitTarget
  <2>3. d'.header_raw = ChangeMk!Header(m, m.s_active)
    BY <1>3, <2>1, <2>2 DEF Handled
  <2> QED BY <2>1, <2>2, <2>3, HeaderIs
<1> QED BY <1>1, <1>2, <1>3, <1>4, <1>5, <1>6, <1>7, <1>8 DEF ChangeInv

LEMMA ChangeRuns ==
  ASSUME BoardInv, Control, CoreRuns, ChangeInv
  PROVE  ChangeInv'
<1> SUFFICES ASSUME tool \in ChangeTools PROVE ChangeInv'
  BY DEF ChangeInv, CoreRuns, HoldsAt
<1>1. tool' = tool /\ d' = d /\ fixedFor' = fixedFor /\ pc' = pc /\ pc = "wait" /\ DOMAIN m = Fields
  BY SteppersAre DEF CoreRuns, BoardInv, Types
<1>2. m'.loc = "change87" => Stopping' /\ m'.g_state = "CHANGE_MK"
  <2> SUFFICES ASSUME m'.loc = "change87" PROVE Stopping' /\ m'.g_state = "CHANGE_MK"
    OBVIOUS
  <2>1. Stopping'
    <3>1. StopsAt(m')
      BY DEF StopsAt, ChangeTools
    <3> QED BY <1>1, <3>1, ArrivesIs DEF ChangeInv
  <2>2. ~ CommitEnds
    BY <1>1, CommitEndsDoes DEF From
  <2> QED BY <2>1, <2>2
          DEF CoreRuns, Moves, LoginMoves, KeyMoves, RetrieveMoves, GenerateMoves, From, Begins, Ends, Draw
<1> QED BY <1>1, <1>2 DEF ChangeInv, ChangeFields

LEMMA ChangePanic ==
  ASSUME DOMAIN m = Fields, PanicButton, ChangeInv
  PROVE  ChangeInv'
<1>1. Only({"g_state", "s_authorized", "s_key", "s_new", "table", "pwd", "cancelled", "panics"})
  BY PanicDoes DEF PanicButton
<1>2. m'.loc = m.loc
  BY <1>1 DEF Only, Fields
<1>3. /\ ~ Stopping' /\ tool' = tool /\ d' = d /\ fixedFor' = fixedFor /\ calm' = FALSE
      /\ pc' # "hold"
  BY DEF PanicButton, Panic, Stopping
<1> QED BY <1>2, <1>3 DEF ChangeInv, ChangeFields

\* When the power comes back the board takes the partition that was being
\* written if all of it was.
LEMMA ChangeRest ==
  ASSUME ChangeInv, Resumes \/ PowerCut
  PROVE  ChangeInv'
<1>1. CASE Resumes
  BY <1>1 DEF Resumes, ChangeInv, ChangeFields
<1>2. CASE PowerCut
  <2>1. m'.loc = "idle" /\ d' = d /\ tool' = tool /\ pc' = "unplugged" /\ fixedFor' = fixedFor
    BY <1>2 DEF PowerCut, Unplug, Boot
  <2> QED BY <2>1 DEF ChangeInv, ChangeFields
<1> QED BY <1>1, <1>2

LEMMA PowerCutVerdict ==
  ASSUME BoardInv, Control, ChangeInv, PowerCut
  PROVE  PowerLossVerdict'
<1>1. /\ m' = Boot(m.flash, m.runs, m.panics) /\ d' = d /\ HoldsAt
      /\ tool = "power_loss"
  BY DEF PowerCut, Unplug, ChangeInv, HoldsAt, Control, ChangeTools
<1>2. m'.s_active = Newest(m.flash)
  BY <1>1 DEF Boot
<1> DEFINE t == m.target
<1>3. /\ m.loc = "flash72" /\ d.power_loss # None /\ d.power_loss.sector = t
      /\ d.power_loss.crc_ok <=> ValidateCrc(m.flash[t])
  BY <1>1 DEF HoldsAt
<1>4. /\ t = CommitTarget(m) /\ m.flash[t].version = NewVersion(m) /\ m.flash[t].magic = "magic"
      /\ t \in {2, 3}
  BY <1>3 DEF BoardInv, Committing, CommitTarget
<1>5. Newest(m.flash) = t <=> ValidateCrc(m.flash[t])
  <2>1. Valid(m.flash[t]) <=> ValidateCrc(m.flash[t])
    BY <1>4 DEF Valid
  <2>2. /\ m.s_active \in {0, 2, 3}
        /\ m.s_active = 0 => ~ Valid(m.flash[3])
        /\ m.flash[2].version \in Nat /\ m.flash[3].version \in Nat
    BY DEF BoardInv, Types, Sessions, Sectors, IsSlot
  <2> QED BY <1>4, <2>1, <2>2 DEF Newest, CommitTarget, NewVersion
<1>6. ChangeMk!PanelPowerLoss(d).verdict = "boot will reject" <=> ~ ValidateCrc(m.flash[t])
  BY <1>3 DEF ChangeMk!PanelPowerLoss
<1>7. pc' = "unplugged" =>
        (ChangeMk!PanelPowerLoss(d').verdict = "boot will reject" <=> m'.s_active # d'.power_loss.sector)
  BY <1>1, <1>2, <1>3, <1>5, <1>6
<1> QED BY <1>7 DEF PowerLossVerdict

-----------------------------------------------------------------------------
(* The first key, on the dashboard and in plain text.                      *)

FirstTools == {"first_meet", "other_first_meet"}

\* The verdict on the two entries is that of line 63.
FirstInv ==
  /\ tool = "first_meet" => DOMAIN d = DOMAIN FirstMeet!FreshState
  /\ tool \in FirstTools /\ m.loc = "first63" /\ ~ Stopping /\ calm => (d.verdict <=> EntriesMatch(m))

LEMMA FirstRuns ==
  ASSUME BoardInv, Control, ChangeOk, CoreRuns, FirstInv
  PROVE  FirstInv'
<1>1. tool' = tool /\ d' = d
  BY DEF CoreRuns
<1>2. ASSUME tool \in FirstTools, m'.loc = "first63" PROVE Stopping'
  <2>1. StopsAt(m')
    BY <1>2 DEF StopsAt, FirstTools
  <2> QED BY <1>2, <2>1, ArrivesStopping DEF ChangeOk
<1> QED BY <1>1, <1>2 DEF FirstInv

LEMMA FirstRest ==
  ASSUME DOMAIN m = Fields, FirstInv, PanicButton \/ Resumes \/ PowerCut
  PROVE  FirstInv'
<1>1. CASE PanicButton
  BY <1>1 DEF PanicButton, FirstInv
<1>2. CASE Resumes
  BY <1>2 DEF Resumes, FirstInv
<1>3. CASE PowerCut
  <2>1. m'.loc = "idle" /\ d' = d /\ tool' = tool
    BY <1>3 DEF PowerCut, Unplug, Boot
  <2> QED BY <2>1 DEF FirstInv
<1> QED BY <1>1, <1>2, <1>3

\* What every reading of the dashboard leaves.
LEMMA FirstReads ==
  ASSUME NEW e, NEW x, DOMAIN e = DOMAIN FirstMeet!FreshState
  PROVE  LET r == FirstMeet!Read(e, x)
         IN  /\ DOMAIN r = DOMAIN e /\ r.verdict = e.verdict
             /\ IsLive(FirstMeet!Live(r), x)
<1> DEFINE s == FirstMeet!ReadSession(e, x)
           a == ReadPartitionHeader(x, 2)
           act == IF a.valid THEN x.s_active ELSE s.active
           t == ReadEntries(x, 2, 0..Entries - 1)
           r == [s EXCEPT !.flash_a = a, !.flash_b = ReadPartitionHeader(x, 3), !.header_raw = a,
                          !.entries = t, !.active = act]
<1>0. FirstMeet!Read(e, x) = r
  BY FirstMeetReads DEF FirstMeet!Read, FirstMeet!ReadFlash
<1>1. {"g_state", "s_authorized", "s_key", "flash_a", "flash_b", "header_raw", "entries", "active",
       "verdict"} \subseteq DOMAIN e
  BY DEF FirstMeet!FreshState
<1>2. /\ DOMAIN s = DOMAIN e /\ s.verdict = e.verdict
      /\ s.g_state = x.g_state /\ s.s_authorized = x.s_authorized /\ s.s_key = x.s_key
  BY <1>1 DEF FirstMeet!ReadSession
<1> HIDE DEF s, a, act, t
<1>3. /\ DOMAIN r = DOMAIN e /\ r.verdict = e.verdict
      /\ r.g_state = x.g_state /\ r.s_authorized = x.s_authorized /\ r.s_key = x.s_key
      /\ r.flash_a = a /\ r.flash_b = ReadPartitionHeader(x, 3)
  BY <1>1, <1>2
<1> HIDE DEF r
<1> DEFINE u == FirstMeet!PanelSession(r)
           p == FirstMeet!PanelFlashCompact(r)
<1>4. FirstMeet!Live(r) = Updated(u, p)
  BY FirstMeetReads DEF FirstMeet!Live, FirstMeet!Render
<1>5. IsLive(u, x)
  <2>1. /\ DOMAIN u \cap {"active", "flash_a", "flash_b"} = {}
        /\ \A f \in SessionFields \cap DOMAIN u : u[f] = x[f]
    BY <1>3 DEF SessionFields, FirstMeet!PanelSession
  <2> HIDE DEF u
  <2> QED BY <2>1, SessionIsLive
<1>6. IsLive(p, x)
  <2>1. /\ DOMAIN p \cap SessionFields = {} /\ "active" \notin DOMAIN p
        /\ p.flash_a = HeaderLine(r.flash_a) /\ p.flash_b = HeaderLine(r.flash_b)
    BY FirstMeetReads DEF SessionFields, FirstMeet!PanelFlashCompact
  <2> HIDE DEF p
  <2> QED BY <1>3, <2>1, FlashIsLive DEF a
<1> HIDE DEF u, p
<1> QED BY <1>0, <1>3, <1>4, <1>5, <1>6, UpdatedLive

LEMMA FirstStop ==
  ASSUME BoardInv, Control, ChangeOk, FirstInv, Stop, tool = "first_meet"
  PROVE  FirstInv' /\ (OnScreen' => IsLive(Live', m'))
<1>1. tool' = tool /\ m' = m /\ StopsAt(m) /\ pc' = Handler.then /\ d' = Handler.d
  BY StopDoes
<1>2. /\ Handler = FirstMeet!Handle(d, m) /\ Live' = FirstMeet!Live(d')
      /\ m.loc \in {"first63", "kdf78", "session202", "app153"}
  BY <1>1 DEF Handler, Live, StopsAt, ChangeTools, OtherTools, OtherMode
<1>3. /\ DOMAIN d = DOMAIN FirstMeet!FreshState
      /\ {"step", "first_entry", "confirm_entry", "verdict", "salt", "auth", "enc", "g_state_before"}
           \subseteq DOMAIN d
  BY DEF FirstInv, FirstMeet!FreshState
<1>4. CASE m.loc = "first63"
  <2> DEFINE v == m.line = m.s_new /\ m.s_new # None
             e == [d EXCEPT !.first_entry = m.s_new, !.confirm_entry = m.line, !.verdict = v,
                            !.step = "confirmed"]
  <2>1. d' = FirstMeet!Read(e, m)
    BY <1>1, <1>2, <1>4 DEF FirstMeet!Handle, FirstMeet!PauseOrFast, FirstMeet!Paused, FirstMeet!HandleConfirm
  <2>2. v = EntriesMatch(m)
    BY DEF EntriesMatch
  <2> HIDE DEF v
  <2>3. DOMAIN e = DOMAIN d /\ e.verdict = v
    BY <1>3
  <2> HIDE DEF e
  <2>4. DOMAIN d' = DOMAIN d /\ d'.verdict = v /\ IsLive(FirstMeet!Live(d'), m)
    BY <1>3, <2>1, <2>3, FirstReads
  <2> QED BY <1>1, <1>2, <1>3, <2>2, <2>4 DEF FirstInv
<1>5. CASE m.loc = "kdf78"
  <2> DEFINE e == [d EXCEPT !.salt = m.salt, !.auth = m.derived, !.enc = m.derived, !.step = "derived"]
  <2>1. d' = FirstMeet!Read(e, m)
    BY <1>1, <1>2, <1>5 DEF FirstMeet!Handle, FirstMeet!PauseOrFast, FirstMeet!Paused, FirstMeet!HandleDerived
  <2>2. DOMAIN e = DOMAIN d
    OBVIOUS
  <2> HIDE DEF e
  <2>3. DOMAIN d' = DOMAIN d /\ IsLive(FirstMeet!Live(d'), m)
    BY <1>3, <2>1, <2>2, FirstReads
  <2> QED BY <1>1, <1>2, <1>3, <1>5, <2>3 DEF FirstInv
<1>6. CASE m.loc = "session202"
  <2> DEFINE e == [d EXCEPT !.step = "committed"]
  <2>1. d' = FirstMeet!Read(e, m)
    BY <1>1, <1>2, <1>6 DEF FirstMeet!Handle, FirstMeet!PauseOrFast, FirstMeet!Paused, FirstMeet!HandleCommitted
  <2>2. DOMAIN e = DOMAIN d
    OBVIOUS
  <2> HIDE DEF e
  <2>3. DOMAIN d' = DOMAIN d /\ IsLive(FirstMeet!Live(d'), m)
    BY <1>3, <2>1, <2>2, FirstReads
  <2> QED BY <1>1, <1>2, <1>3, <1>6, <2>3 DEF FirstInv
<1>7. CASE m.loc = "app153"
  <2>1. pc' = "next" /\ d' = [d EXCEPT !.g_state_before = m.g_state]
    BY <1>1, <1>2, <1>7 DEF FirstMeet!Handle, FirstMeet!Steps, FirstMeet!HandleTransition
  <2>2. DOMAIN d' = DOMAIN d
    BY <2>1
  <2> QED BY <1>1, <1>3, <1>7, <2>1, <2>2 DEF FirstInv, OnScreen
<1> QED BY <1>2, <1>4, <1>5, <1>6, <1>7

LEMMA FirstStepOver ==
  ASSUME Control, FirstInv, StepOver, tool = "first_meet"
  PROVE  FirstInv' /\ IsLive(Live', m')
<1>1. tool' = tool /\ m' = m /\ d' = HandlerAfter /\ pc = "stepping" /\ halted
  BY DEF StepOver
<1>2. m.loc = "idle" /\ Live' = FirstMeet!Live(d') /\ d' = FirstMeet!AfterTransition(d, m)
  BY <1>1 DEF Control, Generators, StepLines, Live, HandlerAfter, FirstMeet!HandleAfter, ChangeTools,
              OtherTools, OtherMode
<1> DEFINE e == [d EXCEPT !.g_state_after = m.g_state, !.step = "transitioned"]
<1>3. d' = FirstMeet!Read(e, m)
  BY <1>2 DEF FirstMeet!AfterTransition
<1>4. DOMAIN e = DOMAIN d /\ DOMAIN d = DOMAIN FirstMeet!FreshState
  BY DEF FirstInv
<1> HIDE DEF e
<1>5. DOMAIN d' = DOMAIN d /\ IsLive(FirstMeet!Live(d'), m)
  BY <1>3, <1>4, FirstReads
<1> QED BY <1>1, <1>2, <1>4, <1>5 DEF FirstInv

-----------------------------------------------------------------------------
(* The tools of other_modes_trace.py.                                      *)

\* Of the change of the key: the stash is the key of the session until the
\* commit, and after it the key the old partition opens with.
OtherChangeInv == tool = "other_change_mk" =>
  /\ m.loc = "change87" /\ Stopping => m.g_state = "CHANGE_MK"
  /\ m.loc = "change87" /\ ~ Stopping /\ calm =>
       m.g_state = "CHANGE_MK" /\ (d.verdict <=> EntriesMatch(m))
  /\ /\ m.loc \in {"change66", "setNewKey", "deriving", "kdf78", "flash72"}
     /\ m.mode = "CHANGE_MK" /\ m.g_state = "CHANGE_MK" /\ ~ (Stopping /\ m.loc = "change66")
     => d.stash = m.s_key
  /\ m.loc = "session202" /\ m.mode = "CHANGE_MK" /\ m.g_state = "CHANGE_MK" =>
       d.stash = IF m.result = "OK" THEN m.flash[CommitTarget(m)].auth ELSE m.s_key

\* Of a generation: the block printed before the save is of the entry saved.
SaveLines == {"gen424", "flash72", "gen428"}

OtherSaveInv ==
  tool = "other_generate" /\ m.loc \in SaveLines /\ m.mode = "GENERATE" /\ ~ Stopping =>
    d.id = m.id /\ d.name = m.name /\ d.pwd = m.pwd

OtherInv == OtherChangeInv /\ OtherSaveInv /\ (tool \in OtherTools => "stash" \in DOMAIN d)

\* The lines a change of the key passes after its entries, and how.
LEMMA KeySteps ==
  ASSUME BoardInv, Moves, m'.loc \in {"setNewKey", "deriving", "kdf78", "flash72"},
         m'.mode = "CHANGE_MK"
  PROVE  /\ m.loc \in {"change66", "setNewKey", "deriving", "kdf78"} /\ m.mode = "CHANGE_MK"
         /\ m'.g_state = m.g_state /\ m'.s_key = m.s_key
<1>0. DOMAIN m = Fields
  BY DEF BoardInv, Types
<1>1. ~ CommitEnds
  BY <1>0, CommitEndsDoes DEF From
<1>2. \/ From("auth", "kdf78") /\ Only({"loc", "salt", "derived", "cancelled"})
      \/ From("first63", "setNewKey") /\ Only({"loc"})
      \/ From("change66", "setNewKey") /\ Only({"loc"})
      \/ From("setNewKey", "deriving") /\ Only({"loc", "cancelled", "salt", "mk"})
      \/ From("deriving", "kdf78") /\ Only({"loc", "derived"})
      \/ From("kdf78", "flash72") /\ Only({"loc", "target", "flash"})
      \/ From("gen424", "flash72") /\ Only({"loc", "target", "flash", "table"})
  BY <1>1 DEF Moves, LoginMoves, KeyMoves, RetrieveMoves, GenerateMoves, From, Begins, Ends, Draw
<1>3. m'.mode = m.mode /\ m'.g_state = m.g_state /\ m'.s_key = m.s_key
  BY <1>2 DEF Only, Fields
<1> QED BY <1>2, <1>3 DEF BoardInv, Places, From

\* The ends of a commit.
LEMMA CommitSteps ==
  ASSUME BoardInv, Moves, m'.loc = "session202", m'.mode = "CHANGE_MK", m'.g_state = "CHANGE_MK"
  PROVE  CommitEnds /\ m.mode = "CHANGE_MK" /\ m.g_state = "CHANGE_MK"
<1>0. DOMAIN m = Fields
  BY DEF BoardInv, Types
<1>1. \/ From("deriving", "session202") /\ m.cancelled /\ Only({"loc", "derived", "result"})
      \/ From("kdf78", "session202") /\ m.cancelled /\ Only({"loc", "result"})
      \/ CommitEnds
  BY DEF Moves, LoginMoves, KeyMoves, RetrieveMoves, GenerateMoves, From, Begins, Ends, Draw
<1>2. m'.mode = m.mode /\ m'.g_state = m.g_state
  BY <1>0, <1>1, CommitEndsDoes DEF Only, Fields
<1>3. ~ m.cancelled
  BY <1>2 DEF BoardInv, Sessions
<1> QED BY <1>1, <1>2, <1>3

LEMMA OtherChangeRuns ==
  ASSUME BoardInv, BoardInv', Control, ChangeOk, CoreRuns, OtherChangeInv
  PROVE  OtherChangeInv'
<1> SUFFICES ASSUME tool = "other_change_mk" PROVE OtherChangeInv'
  BY DEF OtherChangeInv, CoreRuns
<1>1. tool' = tool /\ d' = d /\ ~ Stopping /\ DOMAIN m = Fields /\ Moves
  BY DEF CoreRuns, CoreGoes, Stopping, BoardInv, Types
<1>2. m'.loc \in {"change87", "change66"} => Stopping'
  <2>1. m'.loc \in {"change87", "change66"} => StopsAt(m')
    BY DEF StopsAt
  <2> QED BY <2>1, ArrivesStopping DEF ChangeOk
<1>3. m'.loc = "change87" => m'.g_state = "CHANGE_MK"
  <2>1. ~ (m'.loc = "change87" /\ CommitEnds)
    BY <1>1, CommitEndsDoes DEF From
  <2> QED BY <1>1, <2>1 DEF Moves, LoginMoves, KeyMoves, RetrieveMoves, GenerateMoves, From, Begins, Ends, Draw
<1>4. ASSUME m'.loc \in {"setNewKey", "deriving", "kdf78", "flash72"}, m'.mode = "CHANGE_MK",
             m'.g_state = "CHANGE_MK"
      PROVE  d.stash = m'.s_key
  BY <1>1, <1>4, KeySteps DEF OtherChangeInv
<1>5. ASSUME m'.loc = "session202", m'.mode = "CHANGE_MK", m'.g_state = "CHANGE_MK"
      PROVE  d.stash = IF m'.result = "OK" THEN m'.flash[CommitTarget(m')].auth ELSE m'.s_key
  <2>1. CommitEnds /\ m.loc = "flash72" /\ m.mode = "CHANGE_MK" /\ m.g_state = "CHANGE_MK"
    BY <1>1, <1>5, CommitSteps, CommitEndsDoes DEF From
  <2>2. d.stash = m.s_key
    BY <1>1, <2>1 DEF OtherChangeInv
  <2>3. /\ m.s_active \in {2, 3} /\ m.s_key = m.flash[m.s_active].auth
        /\ m.target = CommitTarget(m) /\ DOMAIN m.flash = {2, 3}
    BY <2>1 DEF BoardInv, Types, Sessions, Committing, KeyLines, Sectors
  <2>4. /\ \/ /\ m'.result = "STORAGE_ERROR" /\ m'.s_key = m.s_key
           \/ /\ \E w : m'.flash = [m.flash EXCEPT ![m.target] = [@ EXCEPT !.words = w]]
              /\ m'.s_active = m.target
              /\ m'.result = "OK" \/ (m'.result = "CANCELLED" /\ m'.s_key = m.s_key)
    BY <1>1, <2>1, CommitEndsDoes
  <2>5. CASE m'.result = "OK"
    <3>1. m'.s_active = CommitTarget(m)
      BY <2>3, <2>4, <2>5
    <3>2. CommitTarget(m') = m.s_active /\ m.s_active # m.target
      BY <2>3, <3>1 DEF CommitTarget
    <3>3. m'.flash[m.s_active] = m.flash[m.s_active]
      BY <2>3, <2>4, <2>5, <3>2
    <3> QED BY <2>2, <2>3, <2>5, <3>2, <3>3
  <2> QED BY <2>2, <2>4, <2>5
<1> QED BY <1>1, <1>2, <1>3, <1>4, <1>5 DEF OtherChangeInv

LEMMA OtherSaveRuns ==
  ASSUME BoardInv, Control, ChangeOk, CoreRuns, OtherSaveInv
  PROVE  OtherSaveInv'
<1> SUFFICES ASSUME tool = "other_generate", m'.loc \in SaveLines, m'.mode = "GENERATE", ~ Stopping'
             PROVE  d.id = m'.id /\ d.name = m'.name /\ d.pwd = m'.pwd
  BY DEF OtherSaveInv, CoreRuns
<1>1. ~ Stopping /\ DOMAIN m = Fields /\ Moves
  BY DEF CoreRuns, CoreGoes, Stopping, BoardInv, Types
<1>2. m'.loc # "gen424"
  <2>1. m'.loc = "gen424" => StopsAt(m')
    BY DEF StopsAt
  <2> QED BY <2>1, ArrivesStopping DEF ChangeOk, ChangeTools
<1>3. \/ From("gen424", "flash72") /\ Only({"loc", "target", "flash", "table"})
      \/ /\ From("flash72", "gen428") /\ m.mode = "GENERATE"
         /\ Only({"loc", "result", "flash", "s_active"})
      \/ From("kdf78", "flash72") /\ Only({"loc", "target", "flash"})
  <2>1. ~ CommitEnds
    BY <1>1, CommitEndsDoes DEF From, SaveLines
  <2> QED BY <1>1, <1>2, <2>1
          DEF Moves, LoginMoves, KeyMoves, RetrieveMoves, GenerateMoves, From, Begins, Ends, Draw, SaveLines
<1>4. m'.mode = m.mode /\ m'.id = m.id /\ m'.name = m.name /\ m'.pwd = m.pwd
  BY <1>3 DEF Only, Fields
<1>5. m.loc \in SaveLines /\ m.mode = "GENERATE"
  BY <1>3, <1>4 DEF BoardInv, Places, From, SaveLines
<1> QED BY <1>1, <1>4, <1>5 DEF OtherSaveInv

LEMMA OtherRuns ==
  ASSUME BoardInv, BoardInv', Control, ChangeOk, CoreRuns, OtherInv
  PROVE  OtherInv'
BY OtherChangeRuns, OtherSaveRuns DEF OtherInv, CoreRuns

LEMMA OtherPanic ==
  ASSUME BoardInv, PanicButton, OtherInv
  PROVE  OtherInv'
<1>1. DOMAIN m = Fields /\ ~ Masked
  BY DEF BoardInv, Types, PanicButton, Panic
<1>2. /\ m'.loc = m.loc /\ m'.mode = m.mode /\ m'.g_state = "INIT"
  BY <1>1, PanicDoes DEF PanicButton, Only, Fields
<1>3. tool' = tool /\ d' = d /\ ~ Stopping' /\ calm' = FALSE
  BY DEF PanicButton, Panic, Stopping
<1>4. ~ (m'.loc \in SaveLines /\ m'.mode = "GENERATE")
  BY <1>1, <1>2 DEF Masked, SaveLines
<1> QED BY <1>2, <1>3, <1>4 DEF OtherInv, OtherChangeInv, OtherSaveInv

LEMMA OtherRest ==
  ASSUME OtherInv, Resumes \/ PowerCut
  PROVE  OtherInv'
<1>1. CASE Resumes
  BY <1>1 DEF Resumes, OtherInv, OtherChangeInv, OtherSaveInv
<1>2. CASE PowerCut
  <2>1. m'.loc = "idle" /\ d' = d /\ tool' = tool
    BY <1>2 DEF PowerCut, Unplug, Boot
  <2> QED BY <2>1 DEF OtherInv, OtherChangeInv, OtherSaveInv, SaveLines
<1> QED BY <1>1, <1>2

-----------------------------------------------------------------------------
(* The copies of ParseId in the tools give what the firmware's does.       *)

\* The line has n leading spaces.
Leads(line, n) ==
  /\ n \in 0..Len(line) /\ \A i \in 1..n : line[i] = " "
  /\ n < Len(line) => line[n + 1] # " "

IsNumber(s) == Len(s) \in {1, 2} /\ \A i \in 1..Len(s) : s[i] \in Digits

Parsed(line, n) ==
  LET number == SubSeq(line, n + 1, Len(line))
  IN  IF IsNumber(number) THEN Decimal(number, Len(number)) ELSE Entries

LEMMA LeadsOnce ==
  ASSUME NEW line \in Seq(STRING), NEW n, NEW k, Leads(line, n), Leads(line, k)
  PROVE  n = k
<1>1. Len(line) \in Nat
  OBVIOUS
<1>2. ASSUME NEW a \in 0..Len(line), NEW b \in 0..Len(line), Leads(line, a), Leads(line, b), a < b
      PROVE  FALSE
  <2>1. a + 1 \in 1..b /\ a < Len(line)
    BY <1>1, <1>2
  <2> QED BY <1>2, <2>1 DEF Leads
<1>3. n \in 0..Len(line) /\ k \in 0..Len(line) /\ ~ (n < k) /\ ~ (k < n)
  BY <1>2 DEF Leads
<1> QED BY <1>1, <1>3

LEMMA LeadsSome == ASSUME NEW line \in Seq(STRING) PROVE \E n : Leads(line, n)
<1>1. Len(line) \in Nat
  OBVIOUS
<1> QED BY <1>1, Spaces, Zenon DEF Leads

\* What follows the leading spaces.
LEMMA RestIs ==
  ASSUME NEW line \in Seq(STRING), NEW n \in 0..Len(line)
  PROVE  LET number == SubSeq(line, n + 1, Len(line))
         IN  /\ number \in Seq(STRING) /\ DOMAIN number = 1..Len(number)
             /\ Len(number) = Len(line) - n
             /\ \A i \in 1..Len(number) : number[i] = line[n + i]
OBVIOUS

LEMMA ParseIdIs ==
  ASSUME NEW line \in Seq(STRING), NEW n, Leads(line, n)
  PROVE  ParseId(line) = Parsed(line, n)
<1> DEFINE k == CHOOSE k \in 0..Len(line) :
                    /\ \A i \in 1..k : line[i] = " "
                    /\ k < Len(line) => line[k + 1] # " "
           number == SubSeq(line, n + 1, Len(line))
<1>1. Leads(line, k)
  <2>1. n \in 0..Len(line) /\ (\A i \in 1..n : line[i] = " ") /\ (n < Len(line) => line[n + 1] # " ")
    BY DEF Leads
  <2> QED BY <2>1, Zenon DEF Leads
<1>2. k = n
  BY <1>1, LeadsOnce
<1>3. ParseId(line) =
        LET s == SubSeq(line, k + 1, Len(line))
        IN  IF Len(s) \in {1, 2} /\ \A i \in 1..Len(s) : s[i] \in Digits
              THEN FoldLeft(LAMBDA v, c : 10 * v + Digit[c], 0, s) ELSE Entries
  BY Zenon DEF ParseId
<1> HIDE DEF k
<1>4. ParseId(line) = IF IsNumber(number) THEN FoldLeft(LAMBDA v, c : 10 * v + Digit[c], 0, number)
                      ELSE Entries
  BY <1>2, <1>3 DEF IsNumber
<1>5. DOMAIN number = 1..Len(number)
  BY RestIs DEF Leads
<1> HIDE DEF number
<1>6. IsNumber(number) =>
        FoldLeft(LAMBDA v, c : 10 * v + Digit[c], 0, number) = Decimal(number, Len(number))
  BY <1>5, NumberIs DEF IsNumber
<1> QED BY <1>4, <1>6 DEF Parsed, number

LEMMA OtherNumberIs ==
  ASSUME NEW s, NEW n \in {1, 2}, DOMAIN s = 1..n, \A i \in 1..n : s[i] \in Digits
  PROVE  Other!FoldLeft(LAMBDA v, c : 10 * v + Other!Digit[c], 0, s) = Decimal(s, n)
<1> DEFINE p == CHOOSE g : Folds(g, s, n)
<1>1. Other!FoldLeft(LAMBDA v, c : 10 * v + Other!Digit[c], 0, s) = p[1..n]
  BY Zenon DEF Other!FoldLeft, Other!MapThenFoldSet, Other!Max, Top, Folds, Other!Digit, Digit, Other!Digits, Digits
<1> QED BY <1>1, FoldsOfDigits

LEMMA RetrievalNumberIs ==
  ASSUME NEW s, NEW n \in {1, 2}, DOMAIN s = 1..n, \A i \in 1..n : s[i] \in Digits
  PROVE  Retrieval!FoldLeft(LAMBDA v, c : 10 * v + Retrieval!Digit[c], 0, s) = Decimal(s, n)
<1> DEFINE p == CHOOSE g : Folds(g, s, n)
<1>1. Retrieval!FoldLeft(LAMBDA v, c : 10 * v + Retrieval!Digit[c], 0, s) = p[1..n]
  BY Zenon DEF Retrieval!FoldLeft, Retrieval!MapThenFoldSet, Retrieval!Max, Top, Folds, Retrieval!Digit, Digit, Retrieval!Digits, Digits
<1> QED BY <1>1, FoldsOfDigits

LEMMA OtherParses ==
  ASSUME NEW line \in Seq(STRING)
  PROVE  Other!ParseIdCopy(line) = ParseId(line)
<1>1. PICK n : Leads(line, n)
  BY LeadsSome
<1>2. Len(line) \in Nat /\ n \in 0..Len(line)
  <2>1. n \in 0..Len(line)
    BY <1>1, Zenon DEF Leads
  <2>2. Len(line) \in Nat
    OBVIOUS
  <2> QED BY <2>1, <2>2
<1> DEFINE Number(i) == SubSeq(line, i + 1, Len(line))
           Fits(i) == (\A j \in 1..i : line[j] = " ") /\ IsNumber(Number(i))
           k == CHOOSE i \in 0..Len(line) : Fits(i)
<1>3. ASSUME NEW i \in 0..Len(line), Fits(i) PROVE i = n
  <2>1. /\ Number(i) \in Seq(STRING) /\ Len(Number(i)) = Len(line) - i
        /\ \A j \in 1..Len(Number(i)) : Number(i)[j] = line[i + j]
    BY RestIs
  <2>2. IsNumber(Number(i))
    BY <1>3, Zenon
  <2> HIDE DEF Number
  <2>5. 1 \in 1..Len(Number(i)) /\ Number(i)[1] \in Digits
    BY <2>2 DEF IsNumber
  <2>3. i < Len(line) /\ line[i + 1] # " "
    <3>1. Len(Number(i)) \in {1, 2}
      BY <2>2, Zenon DEF IsNumber
    <3>2. i < Len(line) /\ Number(i)[1] = line[i + 1]
      BY <1>2, <2>1, <3>1
    <3>3. " " \notin Digits
      BY DEF Digits
    <3> QED BY <2>5, <3>2, <3>3
  <2>4. Leads(line, i)
    BY <1>3, <2>3 DEF Leads
  <2> QED BY <1>1, <2>4, LeadsOnce
<1>4. Other!ParseIdCopy(line) =
        IF \E i \in 0..Len(line) : Fits(i)
          THEN Other!FoldLeft(LAMBDA v, c : 10 * v + Other!Digit[c], 0, Number(k)) ELSE Entries
  <2>1. 1..2 = {1, 2}
    OBVIOUS
  <2> QED BY <2>1, Zenon DEF Other!ParseIdCopy, IsNumber, Other!Digits, Digits
<1>5. CASE \E i \in 0..Len(line) : Fits(i)
  <2>1. k \in 0..Len(line) /\ Fits(k)
    BY <1>5, Zenon
  <2>2. k = n
    BY <1>3, <2>1
  <2> HIDE DEF k
  <2>3. IsNumber(Number(n)) /\ DOMAIN Number(n) = 1..Len(Number(n))
    BY <1>2, <2>1, <2>2, RestIs
  <2> HIDE DEF Number
  <2>4. Other!FoldLeft(LAMBDA v, c : 10 * v + Other!Digit[c], 0, Number(n))
          = Decimal(Number(n), Len(Number(n)))
    BY <2>3, OtherNumberIs DEF IsNumber
  <2>5. Other!ParseIdCopy(line) = Decimal(Number(n), Len(Number(n)))
    BY <1>4, <1>5, <2>2, <2>4
  <2> QED BY <1>1, <2>3, <2>5, ParseIdIs DEF Parsed, Number
<1>6. CASE ~ \E i \in 0..Len(line) : Fits(i)
  <2>1. ~ IsNumber(Number(n))
    BY <1>1, <1>2, <1>6 DEF Leads
  <2>2. Other!ParseIdCopy(line) = Entries
    BY <1>4, <1>6
  <2> QED BY <1>1, <2>1, <2>2, ParseIdIs DEF Parsed
<1> QED BY <1>5, <1>6

\* The first of some places in a sequence.
LEMMA FirstPlace ==
  ASSUME NEW I \in SUBSET Nat, I # {}
  PROVE  Retrieval!Min(I) \in I /\ \A x \in I : Retrieval!Min(I) <= x
BY Least, Zenon DEF Retrieval!Min

LEMMA RetrievalParses ==
  ASSUME NEW line \in Seq(STRING)
  PROVE  Retrieval!ParseIdCopy(line) = ParseId(line)
<1>1. PICK n : Leads(line, n)
  BY LeadsSome
<1>2. Len(line) \in Nat /\ n \in 0..Len(line)
  <2>1. n \in 0..Len(line)
    BY <1>1, Zenon DEF Leads
  <2>2. Len(line) \in Nat
    OBVIOUS
  <2> QED BY <2>1, <2>2
<1> DEFINE I == {j \in 1..Len(line) : line[j] # " "}
           spaces == IF I # {} THEN Retrieval!Min(I) ELSE 0
           start == IF spaces = 0 THEN Len(line) + 1 ELSE spaces
           rest == SubSeq(line, start, Len(line))
           J == {j \in 1..Len(rest) : rest[j] \notin Digits}
           first == IF J # {} THEN Retrieval!Min(J) ELSE 0
           digits == IF first = 0 THEN Len(rest) ELSE first - 1
           s == SubSeq(rest, 1, digits)
<1>3. Retrieval!ParseIdCopy(line) =
        IF digits = 0 \/ digits > 2 \/ digits # Len(rest) THEN Entries
        ELSE Retrieval!FoldLeft(LAMBDA v, c : 10 * v + Retrieval!Digit[c], 0, s)
  BY Zenon DEF Retrieval!ParseIdCopy, Retrieval!SelectInSeq, Retrieval!Digits, Digits
<1>4. start = n + 1
  <2>1. \A i \in 1..n : i \notin I
    BY <1>1 DEF Leads
  <2>2. ASSUME n < Len(line) PROVE n + 1 \in I
    <3>1. n + 1 \in 1..Len(line)
      BY <1>2, <2>2
    <3>2. line[n + 1] # " "
      BY <1>1, <2>2, Zenon DEF Leads
    <3> QED BY <3>1, <3>2
  <2>3. I \in SUBSET (1..Len(line))
    OBVIOUS
  <2> HIDE DEF I
  <2>4. CASE I = {}
    BY <1>2, <2>2, <2>4
  <2>5. CASE I # {}
    <3> DEFINE k == Retrieval!Min(I)
    <3>1. k \in I /\ \A x \in I : k <= x
      <4>1. I \in SUBSET Nat
        BY <2>3
      <4> QED BY <2>5, <4>1, FirstPlace
    <3> HIDE DEF k
    <3>2. k \in 1..Len(line) /\ k = n + 1
      BY <1>2, <2>1, <2>2, <2>3, <3>1
    <3> QED BY <1>2, <2>5, <3>2 DEF k
  <2> QED BY <2>4, <2>5
<1> HIDE DEF start
<1> DEFINE number == SubSeq(line, n + 1, Len(line))
<1>5. rest = number
  BY <1>4
<1>6. /\ number \in Seq(STRING) /\ DOMAIN number = 1..Len(number) /\ Len(number) \in Nat
      /\ rest \in Seq(STRING) /\ Len(rest) \in Nat
  BY <1>2, <1>5, RestIs
<1> HIDE DEF rest, number
<1>7. IF J = {} THEN digits = Len(rest) ELSE digits # Len(rest)
  <2>1. J \in SUBSET (1..Len(rest))
    OBVIOUS
  <2> HIDE DEF J
  <2>2. CASE J = {}
    BY <2>2
  <2>3. CASE J # {}
    <3>1. J \in SUBSET Nat
      BY <1>6, <2>1
    <3>2. Retrieval!Min(J) \in 1..Len(rest)
      BY <2>1, <2>3, <3>1, FirstPlace
    <3> QED BY <1>6, <2>3, <3>2
  <2> QED BY <2>2, <2>3
<1>8. J = {} <=> \A j \in 1..Len(number) : number[j] \in Digits
  BY <1>5
<1> HIDE DEF J, digits, s
<1>9. CASE IsNumber(number)
  <2>1. Len(rest) \in {1, 2} /\ digits = Len(rest) /\ \A j \in 1..Len(rest) : rest[j] \in Digits
    BY <1>5, <1>7, <1>8, <1>9 DEF IsNumber
  <2>2. /\ DOMAIN s = 1..Len(rest) /\ \A j \in 1..Len(rest) : s[j] = rest[j]
    BY <1>6, <2>1 DEF s
  <2>3. Retrieval!FoldLeft(LAMBDA v, c : 10 * v + Retrieval!Digit[c], 0, s) = Decimal(s, Len(rest))
    BY <2>1, <2>2, RetrievalNumberIs
  <2>4. Decimal(s, Len(rest)) = Decimal(number, Len(number))
    BY <1>5, <2>1, <2>2 DEF Decimal
  <2>5. Retrieval!ParseIdCopy(line) = Decimal(number, Len(number))
    <3>1. ~ (digits = 0 \/ digits > 2 \/ digits # Len(rest))
      BY <2>1
    <3> QED BY <1>3, <2>3, <2>4, <3>1
  <2> QED BY <1>1, <1>9, <2>5, ParseIdIs DEF Parsed, number
<1>10. CASE ~ IsNumber(number)
  <2>1. digits = 0 \/ digits > 2 \/ digits # Len(rest)
    BY <1>5, <1>6, <1>7, <1>8, <1>10 DEF IsNumber
  <2>2. Retrieval!ParseIdCopy(line) = Entries
    BY <1>3, <2>1
  <2> QED BY <1>1, <1>10, <2>2, ParseIdIs DEF Parsed, number
<1> QED BY <1>9, <1>10

-----------------------------------------------------------------------------
\* A block has the fields it is printed with, and keeps the stash.
LEMMA BlockDoes ==
  ASSUME NEW e, NEW g, "stash" \notin DOMAIN g
  PROVE  LET b == Other!Block(e, g)
         IN  /\ "stash" \in DOMAIN b /\ b.stash = e.stash
             /\ \A f \in DOMAIN g : b[f] = g[f]
BY DEF Other!Block, Other!Updated

LEMMA BlockIsLive ==
  ASSUME NEW e, NEW g, NEW x, "stash" \notin DOMAIN g, "base" \in DOMAIN g,
         g.base = Other!DumpBaseState(x)
  PROVE  IsLive(Other!Live(Other!Block(e, g)), x)
<1>1. Other!Block(e, g).base = DumpBaseState(x)
  BY BlockDoes, OtherReads
<1> QED BY <1>1, DumpIsLive DEF Other!Live

LEMMA OtherFirstStop ==
  ASSUME BoardInv, Control, ChangeOk, OtherInv, Stop, tool = "other_first_meet"
  PROVE  FirstInv' /\ OtherInv' /\ (OnScreen' => IsLive(Live', m'))
<1>1. /\ tool' = tool /\ m' = m /\ ~ Stopping' /\ StopsAt(m) /\ pc' = Handler.then
      /\ d' = Handler.d
  BY StopDoes
<1>2. /\ Handler = Other!HandleFirstMeet(d, m) /\ Live' = Other!Live(d')
      /\ m.loc \in {"first63", "kdf78", "session202", "app153"}
  BY <1>1 DEF Handler, Live, StopsAt, ChangeTools, OtherTools, OtherMode, Other!Handle
<1>3. CASE m.loc = "first63"
  <2> DEFINE v == m.line = m.s_new /\ m.s_new # None
             g == [block |-> "confirmed", first |-> m.s_new, second |-> m.line, verdict |-> v,
                   base |-> Other!DumpBaseState(m)]
  <2>1. d' = Other!Block(d, g)
    BY <1>1, <1>2, <1>3 DEF Other!HandleFirstMeet, Other!FirstMeetBp1, Other!Confirmed, Other!Paused
  <2>2. v = EntriesMatch(m)
    BY DEF EntriesMatch
  <2> HIDE DEF v
  <2>3. /\ "stash" \notin DOMAIN g /\ {"base", "verdict"} \subseteq DOMAIN g
        /\ g.base = Other!DumpBaseState(m) /\ g.verdict = v
    OBVIOUS
  <2> HIDE DEF g
  <2>4. "stash" \in DOMAIN d' /\ d'.verdict = v /\ IsLive(Other!Live(d'), m)
    BY <2>1, <2>3, BlockDoes, BlockIsLive
  <2> QED BY <1>1, <1>2, <2>2, <2>4 DEF FirstInv, OtherInv, OtherChangeInv, OtherSaveInv
<1>4. CASE m.loc \in {"kdf78", "session202"}
  <2> DEFINE g == [block |-> IF m.loc = "kdf78" THEN "computed" ELSE "committed", salt |-> m.salt,
                   auth |-> m.derived, enc |-> m.derived, base |-> Other!DumpBaseState(m)]
  <2>1. d' = Other!Block(d, g)
    BY <1>1, <1>2, <1>4 DEF Other!HandleFirstMeet, Other!FirstMeetBp2, Other!FirstMeetBp3, Other!Computed,
                            Other!Paused
  <2>2. /\ "stash" \notin DOMAIN g /\ "base" \in DOMAIN g
        /\ g.base = Other!DumpBaseState(m)
    OBVIOUS
  <2> HIDE DEF g
  <2>3. "stash" \in DOMAIN d' /\ IsLive(Other!Live(d'), m)
    BY <2>1, <2>2, BlockDoes, BlockIsLive
  <2> QED BY <1>1, <1>2, <1>4, <2>3 DEF FirstInv, OtherInv, OtherChangeInv, OtherSaveInv
<1>5. CASE m.loc = "app153"
  <2> DEFINE g == [block |-> "stepping", before |-> m.g_state]
  <2>1. d' = Other!Block(d, g) /\ pc' = "next"
    BY <1>1, <1>2, <1>5 DEF Other!HandleFirstMeet, Other!FirstMeetBp4, Other!Transition, Other!Steps
  <2>2. "stash" \notin DOMAIN g
    OBVIOUS
  <2> HIDE DEF g
  <2>3. "stash" \in DOMAIN d'
    BY <2>1, <2>2, BlockDoes
  <2> QED BY <1>1, <1>5, <2>1, <2>3 DEF FirstInv, OtherInv, OtherChangeInv, OtherSaveInv, OnScreen
<1> QED BY <1>2, <1>3, <1>4, <1>5

\* The key shown as retired.
RetiredIs(b) == b.retired = IF m.result = "OK" THEN m.flash[CommitTarget(m)].auth ELSE m.s_key

LEMMA OtherChangeStop ==
  ASSUME BoardInv, Control, ChangeOk, OtherInv, Stop, tool = "other_change_mk"
  PROVE  /\ FirstInv' /\ OtherInv' /\ (OnScreen' => IsLive(Live', m'))
         /\ m.loc = "session202" => RetiredIs(d')
<1>1. /\ tool' = tool /\ m' = m /\ Stopping /\ ~ Stopping' /\ StopsAt(m) /\ pc' = Handler.then
      /\ d' = Handler.d
  BY StopDoes
<1>2. /\ Handler = Other!HandleChangeMk(d, m) /\ Live' = Other!Live(d')
      /\ m.loc \in {"change87", "change66", "kdf78", "session202", "app211"}
      /\ m.loc \in {"kdf78", "session202"} => m.g_state = "CHANGE_MK"
      /\ "stash" \in DOMAIN d
  BY <1>1 DEF Handler, Live, StopsAt, ChangeTools, OtherTools, OtherMode, Other!Handle, OtherInv
<1>0. FirstInv' /\ OtherSaveInv'
  BY <1>1 DEF FirstInv, OtherSaveInv, FirstTools
<1>3. CASE m.loc = "change87"
  <2> DEFINE v == m.line = m.s_new /\ m.s_new # None
             g == [block |-> "confirmed", first |-> m.s_new, second |-> m.line, verdict |-> v,
                   base |-> Other!DumpBaseState(m)]
  <2>1. d' = Other!Block(d, g)
    BY <1>1, <1>2, <1>3 DEF Other!HandleChangeMk, Other!ChangeMkBp1, Other!Confirmed, Other!Paused
  <2>2. v = EntriesMatch(m)
    BY DEF EntriesMatch
  <2> HIDE DEF v
  <2>3. /\ "stash" \notin DOMAIN g /\ {"base", "verdict"} \subseteq DOMAIN g
        /\ g.base = Other!DumpBaseState(m) /\ g.verdict = v
    OBVIOUS
  <2> HIDE DEF g
  <2>4. "stash" \in DOMAIN d' /\ d'.verdict = v /\ IsLive(Other!Live(d'), m)
    BY <2>1, <2>3, BlockDoes, BlockIsLive
  <2>5. m.g_state = "CHANGE_MK"
    BY <1>1, <1>3 DEF OtherInv, OtherChangeInv
  <2> QED BY <1>0, <1>1, <1>2, <1>3, <2>2, <2>4, <2>5 DEF OtherInv, OtherChangeInv
<1>4. CASE m.loc = "change66"
  <2> DEFINE g == [block |-> "before", old_key |-> m.s_key, entry0 |-> m.table[0],
                   base |-> Other!DumpBaseState(m)]
             e == [d EXCEPT !.stash = m.s_key]
  <2>1. d' = Other!Block(e, g)
    BY <1>1, <1>2, <1>4 DEF Other!HandleChangeMk, Other!ChangeMkBp2, Other!Paused
  <2>2. /\ "stash" \notin DOMAIN g /\ "base" \in DOMAIN g
        /\ g.base = Other!DumpBaseState(m) /\ e.stash = m.s_key
    BY <1>2
  <2> HIDE DEF g, e
  <2>3. "stash" \in DOMAIN d' /\ d'.stash = m.s_key /\ IsLive(Other!Live(d'), m)
    BY <2>1, <2>2, BlockDoes, BlockIsLive
  <2> QED BY <1>0, <1>1, <1>2, <1>4, <2>3 DEF OtherInv, OtherChangeInv
<1>5. CASE m.loc = "kdf78"
  <2> DEFINE g == [block |-> "computed", salt |-> m.salt, auth |-> m.derived, enc |-> m.derived,
                   base |-> Other!DumpBaseState(m)]
  <2>1. d' = Other!Block(d, g)
    BY <1>1, <1>2, <1>5 DEF Other!HandleChangeMk, Other!ChangeMkBp3, Other!Computed, Other!Paused
  <2>2. /\ "stash" \notin DOMAIN g /\ "base" \in DOMAIN g
        /\ g.base = Other!DumpBaseState(m)
    OBVIOUS
  <2> HIDE DEF g
  <2>3. "stash" \in DOMAIN d' /\ d'.stash = d.stash /\ IsLive(Other!Live(d'), m)
    BY <2>1, <2>2, BlockDoes, BlockIsLive
  <2> QED BY <1>0, <1>1, <1>2, <1>5, <2>3 DEF OtherInv, OtherChangeInv
<1>6. CASE m.loc = "session202"
  <2> DEFINE g == [block |-> "committed", retired |-> d.stash, salt |-> m.salt, auth |-> m.derived,
                   enc |-> m.derived, base |-> Other!DumpBaseState(m)]
  <2>1. d' = Other!Block(d, g)
    BY <1>1, <1>2, <1>6 DEF Other!HandleChangeMk, Other!ChangeMkBp4, Other!Paused
  <2>2. /\ "stash" \notin DOMAIN g /\ {"base", "retired"} \subseteq DOMAIN g
        /\ g.base = Other!DumpBaseState(m) /\ g.retired = d.stash
    OBVIOUS
  <2> HIDE DEF g
  <2>3. /\ "stash" \in DOMAIN d' /\ d'.stash = d.stash /\ d'.retired = d.stash
        /\ IsLive(Other!Live(d'), m)
    BY <2>1, <2>2, BlockDoes, BlockIsLive
  <2>4. m.mode = "CHANGE_MK"
    BY <1>2, <1>6 DEF BoardInv, Places
  <2>5. d.stash = IF m.result = "OK" THEN m.flash[CommitTarget(m)].auth ELSE m.s_key
    BY <1>2, <1>6, <2>4 DEF OtherInv, OtherChangeInv
  <2> QED BY <1>0, <1>1, <1>2, <1>6, <2>3, <2>5 DEF OtherInv, OtherChangeInv, RetiredIs
<1>7. CASE m.loc = "app211"
  <2> DEFINE g == [block |-> "stepping", before |-> m.g_state]
  <2>1. d' = Other!Block(d, g) /\ pc' = "next"
    BY <1>1, <1>2, <1>7 DEF Other!HandleChangeMk, Other!ChangeMkBp5, Other!Transition, Other!Steps
  <2>2. "stash" \notin DOMAIN g
    OBVIOUS
  <2> HIDE DEF g
  <2>3. "stash" \in DOMAIN d'
    BY <2>1, <2>2, BlockDoes
  <2> QED BY <1>0, <1>1, <1>7, <2>1, <2>3 DEF OtherInv, OtherChangeInv, OnScreen
<1> QED BY <1>2, <1>3, <1>4, <1>5, <1>6, <1>7

\* The entry shown is the one printed, or the blank one a panic left.
LEMMA OtherRetrieveStop ==
  ASSUME BoardInv, Control, ChangeOk, OtherInv, Stop, tool = "other_retrieve"
  PROVE  /\ FirstInv' /\ OtherInv' /\ (OnScreen' => IsLive(Live', m'))
         /\ m.loc = "ret88" =>
              d'.entry = m.printed \/ (d'.entry = Blank /\ m.g_state = "INIT")
<1>1. /\ tool' = tool /\ m' = m /\ ~ Stopping' /\ StopsAt(m) /\ d' = Handler.d
  BY StopDoes
<1>2. /\ Handler = Other!HandleRetrieve(d, m) /\ Live' = Other!Live(d')
      /\ m.loc \in {"retEnter", "ret34", "ret88"}
  BY <1>1 DEF Handler, Live, StopsAt, ChangeTools, OtherTools, OtherMode, Other!Handle
<1>0. FirstInv' /\ OtherChangeInv' /\ OtherSaveInv'
  BY <1>1 DEF FirstInv, OtherChangeInv, OtherSaveInv, FirstTools
<1>3. CASE m.loc = "retEnter"
  <2> DEFINE g == [block |-> "ciphertext", sector |-> m.s_active, version |-> Other!ActiveVersion(m),
                   entry0 |-> Other!ReadEntries(m, m.s_active, {0})[0], base |-> Other!DumpBaseState(m)]
  <2>1. d' = Other!Block(d, g)
    BY <1>1, <1>2, <1>3 DEF Other!HandleRetrieve, Other!RetrieveBp1, Other!Paused
  <2>2. /\ "stash" \notin DOMAIN g /\ "base" \in DOMAIN g
        /\ g.base = Other!DumpBaseState(m)
    OBVIOUS
  <2> HIDE DEF g
  <2>3. "stash" \in DOMAIN d' /\ IsLive(Other!Live(d'), m)
    BY <2>1, <2>2, BlockDoes, BlockIsLive
  <2> QED BY <1>0, <1>1, <1>2, <1>3, <2>3 DEF OtherInv
<1>4. CASE m.loc = "ret34"
  <2> DEFINE g == [block |-> "plaintext", entry0 |-> m.table[0], base |-> Other!DumpBaseState(m)]
  <2>1. d' = Other!Block(d, g)
    BY <1>1, <1>2, <1>4 DEF Other!HandleRetrieve, Other!RetrieveBp2, Other!Paused
  <2>2. /\ "stash" \notin DOMAIN g /\ "base" \in DOMAIN g
        /\ g.base = Other!DumpBaseState(m)
    OBVIOUS
  <2> HIDE DEF g
  <2>3. "stash" \in DOMAIN d' /\ IsLive(Other!Live(d'), m)
    BY <2>1, <2>2, BlockDoes, BlockIsLive
  <2> QED BY <1>0, <1>1, <1>2, <1>4, <2>3 DEF OtherInv
<1>5. CASE m.loc = "ret88"
  <2> DEFINE id == Other!ParseIdCopy(m.line)
             v == IF id < Entries THEN m.table[id] ELSE None
             g == [block |-> "shown", typed |-> m.line, id |-> id, entry |-> v,
                   base |-> Other!DumpBaseState(m)]
  <2>1. d' = Other!Block(d, g)
    BY <1>1, <1>2, <1>5 DEF Other!HandleRetrieve, Other!RetrieveBp3, Other!Paused
  <2>2. m.line \in Seq(STRING)
    BY <1>5, BoardAssumption DEF BoardInv, Reading
  <2>3. id = ParseId(m.line) /\ id \in Nat
    BY <2>2, OtherParses, ParseIdType
  <2> HIDE DEF id
  <2>4. m.g_state \in {"RETRIEVE", "INIT"}
    BY <1>5 DEF BoardInv, Places
  <2>5. v = m.printed \/ (v = Blank /\ m.g_state = "INIT")
    <3>1. CASE id < Entries /\ m.g_state = "RETRIEVE"
      BY <1>5, <2>3, <3>1 DEF BoardInv, Reading
    <3>2. CASE id < Entries /\ m.g_state = "INIT"
      BY <1>5, <2>3, <3>2, BoardAssumption DEF BoardInv, Reading, BlankTable
    <3>3. CASE ~ (id < Entries)
      BY <1>5, <2>3, <3>3, BoardAssumption DEF BoardInv, Reading
    <3> QED BY <2>4, <3>1, <3>2, <3>3
  <2> HIDE DEF v
  <2>6. /\ "stash" \notin DOMAIN g /\ {"base", "entry"} \subseteq DOMAIN g
        /\ g.base = Other!DumpBaseState(m) /\ g.entry = v
    OBVIOUS
  <2> HIDE DEF g
  <2>7. "stash" \in DOMAIN d' /\ d'.entry = v /\ IsLive(Other!Live(d'), m)
    BY <2>1, <2>6, BlockDoes, BlockIsLive
  <2> QED BY <1>0, <1>1, <1>2, <1>5, <2>5, <2>7 DEF OtherInv
<1> QED BY <1>2, <1>3, <1>4, <1>5

LEMMA OtherGenerateStop ==
  ASSUME BoardInv, Control, ChangeOk, OtherInv, Stop, tool = "other_generate"
  PROVE  FirstInv' /\ OtherInv' /\ (OnScreen' => IsLive(Live', m'))
<1>1. /\ tool' = tool /\ m' = m /\ ~ Stopping' /\ StopsAt(m) /\ d' = Handler.d /\ pc' = Handler.then
  BY StopDoes
<1>2. /\ Handler = Other!HandleGenerate(d, m) /\ Live' = Other!Live(d')
      /\ m.loc \in {"gen370", "gen386", "gen424"}
  BY <1>1 DEF Handler, Live, StopsAt, ChangeTools, OtherTools, OtherMode, Other!Handle
<1>0. FirstInv' /\ OtherChangeInv'
  BY <1>1 DEF FirstInv, OtherChangeInv, FirstTools
<1>3. CASE m.loc \in {"gen370", "gen386"}
  <2> DEFINE g == [block |-> IF m.rounds = 1 THEN "raw" ELSE "round",
                   channel |-> IF m.loc = "gen370" THEN "temp" ELSE "light",
                   done |-> Len(m.pwd), base |-> Other!DumpBaseState(m)]
  <2>1. d' = Other!Block(d, g)
    BY <1>1, <1>2, <1>3 DEF Other!HandleGenerate, Other!GenerateBp1, Other!GenerateBp2,
                            Other!GenerateAbsorb, Other!Paused
  <2>2. /\ "stash" \notin DOMAIN g /\ "base" \in DOMAIN g
        /\ g.base = Other!DumpBaseState(m)
    OBVIOUS
  <2> HIDE DEF g
  <2>3. "stash" \in DOMAIN d' /\ IsLive(Other!Live(d'), m)
    BY <2>1, <2>2, BlockDoes, BlockIsLive
  <2> QED BY <1>0, <1>1, <1>2, <1>3, <2>3 DEF OtherInv, OtherSaveInv, SaveLines
<1>4. CASE m.loc = "gen424"
  <2> DEFINE g == [block |-> "saving", id |-> m.id, name |-> m.name, pwd |-> m.pwd]
  <2>1. d' = Other!Block(d, g) /\ pc' = "next"
    BY <1>1, <1>2, <1>4 DEF Other!HandleGenerate, Other!GenerateBp3, Other!Steps
  <2>2. /\ "stash" \notin DOMAIN g /\ {"id", "name", "pwd"} \subseteq DOMAIN g
        /\ g.id = m.id /\ g.name = m.name /\ g.pwd = m.pwd
    OBVIOUS
  <2> HIDE DEF g
  <2>3. "stash" \in DOMAIN d' /\ d'.id = m.id /\ d'.name = m.name /\ d'.pwd = m.pwd
    BY <2>1, <2>2, BlockDoes
  <2> QED BY <1>0, <1>1, <1>4, <2>1, <2>3 DEF OtherInv, OtherSaveInv, OnScreen
<1> QED BY <1>2, <1>3, <1>4

\* What a save has left of the entry in the active partition.
LEMMA SaveLeaves ==
  ASSUME BoardInv, m.loc = "gen428"
  PROVE  ReadEntries(m, m.s_active, {m.id})[m.id][1] = [name |-> m.name, pwd |-> m.pwd]
           <=> m.result = "saved"
<1>1. m.s_active \in Sectors /\ m.id \in 0..Entries - 1
  BY DEF BoardInv, Types, Places, Sessions, Naming
<1> DEFINE e == m.flash[m.s_active].table[m.id]
<1>2. ReadEntries(m, m.s_active, {m.id})[m.id][1] = e
  BY <1>1, EntryRead
<1>3. e.name \in 0..m.runs /\ m.runs \in Nat
  BY <1>1 DEF BoardInv, Types, IsSlot, IsTable
<1>4. /\ m.result = "saved" => e = [name |-> m.name, pwd |-> m.pwd]
      /\ m.result # "saved" => e.name < m.name
  BY DEF BoardInv, Naming
<1> HIDE DEF e
<1>5. e = [name |-> m.name, pwd |-> m.pwd] => ~ (e.name < m.name)
  <2> SUFFICES ASSUME e = [name |-> m.name, pwd |-> m.pwd] PROVE ~ (e.name < m.name)
    OBVIOUS
  <2>1. e.name = m.name
    OBVIOUS
  <2>2. \A n \in 0..m.runs : ~ (n < n)
    BY <1>3
  <2> QED BY <1>3, <2>1, <2>2
<1> QED BY <1>2, <1>4, <1>5

\* Where a step of other_modes_trace.py ends.
LEMMA OtherStepOver ==
  ASSUME BoardInv, Control, OtherInv, StepOver, tool \in OtherTools
  PROVE  FirstInv' /\ OtherInv' /\ IsLive(Live', m') /\ SavedIsReadBack'
<1>1. /\ tool' = tool /\ m' = m /\ d' = HandlerAfter /\ pc = "stepping" /\ halted /\ pc' = "pause"
      /\ ~ Stopping /\ ~ Stopping'
  BY DEF StepOver, Stopping
<1>2. /\ Live' = Other!Live(d') /\ d' = Other!HandleAfter(OtherMode[tool], d, m)
      /\ \/ tool = "other_generate" /\ m.loc = "gen428"
         \/ tool \in {"other_first_meet", "other_change_mk"} /\ m.loc = "idle"
  BY <1>1 DEF Control, Generators, Assigners, StepLines, Live, HandlerAfter, ChangeTools,
              OtherTools, OtherMode
<1>3. CASE tool # "other_generate"
  <2> DEFINE g == [block |-> "transition", before |-> d.before, after |-> m.g_state,
                   base |-> Other!DumpBaseState(m)]
  <2>1. d' = Other!Block(d, g)
    BY <1>2, <1>3 DEF Other!HandleAfter, Other!AfterTransition, OtherMode
  <2>2. /\ "stash" \notin DOMAIN g /\ "base" \in DOMAIN g
        /\ g.base = Other!DumpBaseState(m)
    OBVIOUS
  <2> HIDE DEF g
  <2>3. "stash" \in DOMAIN d' /\ IsLive(Other!Live(d'), m)
    BY <2>1, <2>2, BlockDoes, BlockIsLive
  <2> QED BY <1>1, <1>2, <1>3, <2>3
          DEF FirstInv, OtherInv, OtherChangeInv, OtherSaveInv, SaveLines, SavedIsReadBack
<1>4. CASE tool = "other_generate"
  <2> DEFINE c == Other!ReadEntries(m, m.s_active, {d.id})[d.id]
             g == [block |-> "saved", id |-> d.id, name |-> d.name, pwd |-> d.pwd, cipher |-> c,
                   base |-> Other!DumpBaseState(m)]
  <2>1. d' = Other!Block(d, g)
    BY <1>2, <1>4 DEF Other!HandleAfter, Other!AfterGenerateBp3, OtherMode
  <2>2. c = ReadEntries(m, m.s_active, {d.id})[d.id]
    BY OtherReads
  <2> HIDE DEF c
  <2>3. /\ "stash" \notin DOMAIN g /\ {"base", "id", "name", "pwd", "cipher"} \subseteq DOMAIN g
        /\ g.base = Other!DumpBaseState(m) /\ g.id = d.id /\ g.name = d.name /\ g.pwd = d.pwd
        /\ g.cipher = c
    OBVIOUS
  <2> HIDE DEF g
  <2>4. /\ "stash" \in DOMAIN d' /\ IsLive(Other!Live(d'), m)
        /\ d'.id = d.id /\ d'.name = d.name /\ d'.pwd = d.pwd /\ d'.cipher = c
    BY <2>1, <2>3, BlockDoes, BlockIsLive
  <2>5. d.id = m.id /\ d.name = m.name /\ d.pwd = m.pwd
    BY <1>1, <1>2, <1>4 DEF OtherInv, OtherSaveInv, SaveLines, BoardInv, Places
  <2>6. c[1] = [name |-> m.name, pwd |-> m.pwd] <=> m.result = "saved"
    BY <1>2, <1>4, <2>2, <2>5, SaveLeaves
  <2>7. SavedIsReadBack'
    BY <1>1, <1>4, <2>4, <2>5, <2>6 DEF SavedIsReadBack
  <2> QED BY <1>1, <1>2, <1>4, <2>4, <2>5, <2>7
          DEF FirstInv, FirstTools, OtherInv, OtherChangeInv, OtherSaveInv, SaveLines
<1> QED BY <1>2, <1>3, <1>4

-----------------------------------------------------------------------------
(* The retrieval on the dashboard.                                         *)

\* What is shown of the line typed, from its reading to the end of the input.
Shows(x) ==
  /\ d.entry_id = ParseId(x.line)
  /\ d.valid = (d.entry_id < Entries)
  /\ d.active_sector = x.s_active
  /\ d.flash_a = ReadPartitionHeader(x, 2) /\ d.flash_b = ReadPartitionHeader(x, 3)
  /\ d.window = ReadEntries(x, x.s_active, d.window_start..d.window_start + WindowSize - 1)
  /\ d.valid => d.entry_id \in d.window_start..d.window_start + WindowSize - 1

\* The session as it was read, from its reading to the next one.
Seen(x) == d.g_state = x.g_state /\ d.s_authorized = x.s_authorized /\ d.session_key = x.s_key

\* Nothing of an earlier id.
Cleared(e) == e.typed = None /\ e.raw = None /\ e.window = None

RetrieveInv == tool = "retrieve" =>
  /\ DOMAIN d = DOMAIN Retrieval!FreshState
  /\ (m.loc = "retEnter" /\ ~ Stopping) \/ m.loc = "ret34" =>
       Cleared(d) /\ (Seen(m) \/ m.g_state = "INIT")
  /\ (m.loc = "ret80" /\ ~ Stopping) \/ m.loc \in {"printed", "ret88"} =>
       Shows(m) /\ (Seen(m) \/ m.g_state = "INIT")
  /\ m.loc = "ret80" /\ ~ Stopping /\ calm /\ d.valid => d.dec = m.table[d.entry_id]

\* It depends on the line, and on the flash.
LEMMA ShowsLasts ==
  ASSUME Shows(m), d' = d, m'.line = m.line, m'.s_active = m.s_active, m'.flash = m.flash
  PROVE  Shows(m)'
BY DEF Shows, ReadEntries, ReadPartitionHeader, HeaderStatus

LEMMA RetrieveRuns ==
  ASSUME BoardInv, Control, ChangeOk, CoreRuns, RetrieveInv
  PROVE  RetrieveInv'
<1> SUFFICES ASSUME tool = "retrieve" PROVE RetrieveInv'
  BY DEF RetrieveInv, CoreRuns
<1>1. tool' = tool /\ d' = d /\ ~ Stopping /\ DOMAIN m = Fields /\ Moves
  BY DEF CoreRuns, CoreGoes, Stopping, BoardInv, Types
<1>2. m'.loc \in {"retEnter", "ret80"} => Stopping'
  <2>1. m'.loc \in {"retEnter", "ret80"} => StopsAt(m')
    BY DEF StopsAt
  <2> QED BY <2>1, ArrivesStopping DEF ChangeOk
<1>3. ~ CommitEnds \/ m'.loc = "session202"
  BY <1>1, CommitEndsDoes DEF From
<1>4. ASSUME m'.loc = "ret34" PROVE Cleared(d') /\ (Seen(m)' \/ m'.g_state = "INIT")
  <2>1. From("retEnter", "ret34") /\ Only({"loc", "table"})
    BY <1>1, <1>3, <1>4 DEF Moves, LoginMoves, KeyMoves, RetrieveMoves, GenerateMoves, From, Begins, Ends, Draw
  <2>2. m'.g_state = m.g_state /\ m'.s_authorized = m.s_authorized /\ m'.s_key = m.s_key
    BY <2>1 DEF Only, Fields
  <2>3. Cleared(d) /\ (Seen(m) \/ m.g_state = "INIT")
    BY <1>1, <2>1 DEF RetrieveInv, From
  <2> QED BY <1>1, <2>2, <2>3 DEF Seen
<1>5. ASSUME m'.loc \in {"printed", "ret88"} PROVE Shows(m)' /\ (Seen(m)' \/ m'.g_state = "INIT")
  <2>1. \/ From("ret80", "printed") /\ Only({"loc", "printed"})
        \/ From("printed", "ret88") /\ Only({"loc"})
    BY <1>1, <1>3, <1>5 DEF Moves, LoginMoves, KeyMoves, RetrieveMoves, GenerateMoves, From, Begins, Ends, Draw
  <2>2. /\ m'.line = m.line /\ m'.s_active = m.s_active /\ m'.flash = m.flash
        /\ m'.g_state = m.g_state /\ m'.s_authorized = m.s_authorized /\ m'.s_key = m.s_key
    BY <2>1 DEF Only, Fields
  <2>3. Shows(m) /\ (Seen(m) \/ m.g_state = "INIT")
    BY <1>1, <2>1 DEF RetrieveInv, From
  <2>4. Shows(m)'
    BY <1>1, <2>2, <2>3, ShowsLasts
  <2> QED BY <1>1, <2>2, <2>3, <2>4 DEF Seen
<1> QED BY <1>1, <1>2, <1>4, <1>5 DEF RetrieveInv

LEMMA RetrieveRest ==
  ASSUME DOMAIN m = Fields, RetrieveInv, PanicButton \/ Resumes \/ PowerCut
  PROVE  RetrieveInv'
<1> SUFFICES ASSUME tool = "retrieve" PROVE RetrieveInv'
  BY DEF RetrieveInv, PanicButton, Resumes, PowerCut
<1>1. CASE PanicButton
  <2>1. tool' = tool /\ d' = d /\ calm' = FALSE /\ Panic /\ ~ Stopping
    BY <1>1 DEF PanicButton, Panic, Stopping
  <2>2. /\ m'.loc = m.loc /\ m'.line = m.line /\ m'.s_active = m.s_active /\ m'.flash = m.flash
        /\ m'.g_state = "INIT"
    BY <2>1, PanicDoes DEF Only, Fields
  <2>3. Shows(m) => Shows(m)'
    BY <2>1, <2>2, ShowsLasts
  <2> QED BY <2>1, <2>2, <2>3 DEF RetrieveInv
<1>2. CASE Resumes
  <2>1. tool' = tool /\ d' = d /\ m' = m /\ calm' = calm /\ ~ Stopping
    BY <1>2 DEF Resumes
  <2>2. (Shows(m) => Shows(m)') /\ (Seen(m) => Seen(m)')
    BY <2>1, ShowsLasts DEF Seen
  <2> QED BY <2>1, <2>2 DEF RetrieveInv
<1>3. CASE PowerCut
  <2>1. m'.loc = "idle" /\ d' = d /\ tool' = tool
    BY <1>3 DEF PowerCut, Unplug, Boot
  <2> QED BY <2>1 DEF RetrieveInv
<1> QED BY <1>1, <1>2, <1>3

\* The window holds the id it is made for.
LEMMA WindowHolds ==
  ASSUME NEW id \in Nat, id < Entries
  PROVE  id \in Retrieval!WindowStartFor(id)..Retrieval!WindowStartFor(id) + WindowSize - 1
<1> DEFINE half == WindowSize \div 2
           from == IF id < half THEN 0 ELSE id - half
<1>1. Entries \in Nat /\ WindowSize \in Nat /\ 1 <= WindowSize /\ WindowSize <= Entries
  BY BoardAssumption
<1>2. half \in Nat /\ half < WindowSize
  BY <1>1
<1>3. Retrieval!WindowStartFor(id) =
        IF from > Entries - WindowSize THEN Entries - WindowSize ELSE from
  BY <1>1 DEF Retrieval!WindowStartFor
<1> HIDE DEF half
<1>4. from \in Nat /\ from <= id /\ id < from + WindowSize
  BY <1>1, <1>2
<1> HIDE DEF from
<1> QED BY <1>1, <1>3, <1>4

\* The headers as they are read, and what of the dictionary is left alone.
LEMMA RetrieveReadsFlash ==
  ASSUME NEW e, NEW x, DOMAIN e = DOMAIN Retrieval!FreshState
  PROVE  LET r == Retrieval!ReadFlash(e, x)
         IN  /\ DOMAIN r = DOMAIN e /\ r.active_sector = x.s_active
             /\ \A f \in {"step", "typed", "valid", "entry_id", "g_state", "s_authorized", "session_key",
                          "raw", "dec", "window_start", "window"} : r[f] = e[f]
             /\ r.flash_a = ReadPartitionHeader(x, 2) /\ r.flash_b = ReadPartitionHeader(x, 3)
BY RetrievalReads DEF Retrieval!ReadFlash, Retrieval!FreshState

LEMMA RetrieveFlashIsLive ==
  ASSUME NEW r, NEW x, r.flash_a = ReadPartitionHeader(x, 2), r.flash_b = ReadPartitionHeader(x, 3)
  PROVE  IsLive(Retrieval!PanelFlash(r), x)
<1> DEFINE p == Retrieval!PanelFlash(r)
<1>1. /\ DOMAIN p \cap SessionFields = {} /\ "active" \notin DOMAIN p
      /\ p.flash_a = HeaderLine(r.flash_a) /\ p.flash_b = HeaderLine(r.flash_b)
  BY RetrievalReads DEF SessionFields, Retrieval!PanelFlash
<1> HIDE DEF p
<1> QED BY <1>1, FlashIsLive DEF p

LEMMA RetrievalIsLive ==
  ASSUME NEW r, NEW x, r.flash_a = ReadPartitionHeader(x, 2), r.flash_b = ReadPartitionHeader(x, 3),
         r.g_state = x.g_state, r.s_authorized = x.s_authorized, r.session_key = x.s_key
  PROVE  IsLive(Retrieval!Live(r), x)
<1> DEFINE s == Retrieval!PanelSession(r)
<1>1. Retrieval!Live(r) = Updated(s, Retrieval!PanelFlash(r))
  BY RetrievalReads DEF Retrieval!Live, Retrieval!Render
<1>2. /\ DOMAIN s \cap {"active", "flash_a", "flash_b"} = {}
      /\ \A k \in SessionFields \cap DOMAIN s : s[k] = x[k]
  BY DEF Retrieval!PanelSession, SessionFields
<1> HIDE DEF s
<1>3. IsLive(s, x)
  BY <1>2, SessionIsLive
<1>4. IsLive(Retrieval!PanelFlash(r), x)
  BY RetrieveFlashIsLive
<1> QED BY <1>1, <1>3, <1>4, UpdatedLive

\* What the screen promises to show.
Current == IsLive(IF PanicUnseen THEN Retrieval!PanelFlash(d) ELSE Live, m)

LEMMA RetrieveStopMenu ==
  ASSUME BoardInv, Control, ChangeOk, RetrieveInv, Stop, tool = "retrieve",
         m.loc \in {"retEnter", "ret34"}
  PROVE  RetrieveInv' /\ Current'
<1>1. /\ tool' = tool /\ m' = m /\ ~ Stopping' /\ d' = Handler.d
  BY StopDoes
<1>2. Handler = Retrieval!Handle(d, m) /\ Live' = Retrieval!Live(d')
  BY <1>1 DEF Handler, Live, ChangeTools, OtherTools, OtherMode
<1>3. DOMAIN d = DOMAIN Retrieval!FreshState
  BY DEF RetrieveInv
<1> DEFINE fresh == [Retrieval!FreshState EXCEPT !.step = "menu"]
           e == IF m.loc = "retEnter" THEN Retrieval!ReadSession(Retrieval!Updated(d, fresh), m) ELSE d
           AsRead == e.g_state = m.g_state /\ e.s_authorized = m.s_authorized /\ e.session_key = m.s_key
<1>4. DOMAIN e = DOMAIN d /\ Cleared(e) /\ (AsRead \/ (m.loc = "ret34" /\ m.g_state = "INIT"))
  <2>1. CASE m.loc = "retEnter"
    <3> DEFINE u == Retrieval!Updated(d, fresh)
    <3>1. /\ DOMAIN fresh = DOMAIN d /\ Cleared(fresh)
          /\ {"typed", "raw", "window", "g_state", "s_authorized", "session_key"} \subseteq DOMAIN fresh
      BY <1>3 DEF Retrieval!FreshState, Cleared
    <3> HIDE DEF fresh
    <3>2. DOMAIN u = DOMAIN d /\ Cleared(u)
      BY <3>1 DEF Retrieval!Updated, Cleared
    <3> HIDE DEF u
    <3>3. e = Retrieval!ReadSession(u, m)
      BY <2>1 DEF u
    <3> DEFINE v == Retrieval!ReadSession(u, m)
    <3>4. /\ DOMAIN v = DOMAIN u /\ Cleared(v)
          /\ v.g_state = m.g_state /\ v.s_authorized = m.s_authorized /\ v.session_key = m.s_key
      BY <3>1, <3>2 DEF Retrieval!ReadSession, Cleared
    <3> HIDE DEF v, e
    <3> QED BY <3>2, <3>3, <3>4 DEF v
  <2>2. CASE m.loc # "retEnter"
    BY <2>2 DEF RetrieveInv, Seen
  <2> QED BY <2>1, <2>2
<1>5. d' = Retrieval!ReadFlash(e, m)
  BY <1>1, <1>2 DEF Retrieval!Handle, Retrieval!HandleEnter, Retrieval!HandleDecrypted, Retrieval!Paused
<1> HIDE DEF e
<1>6. /\ DOMAIN d' = DOMAIN d /\ Cleared(d')
      /\ d'.flash_a = ReadPartitionHeader(m, 2) /\ d'.flash_b = ReadPartitionHeader(m, 3)
      /\ d'.g_state = e.g_state /\ d'.s_authorized = e.s_authorized /\ d'.session_key = e.session_key
  BY <1>3, <1>4, <1>5, RetrieveReadsFlash DEF Cleared
<1>7. Current'
  <2>1. IsLive(Retrieval!PanelFlash(d'), m)
    BY <1>6, RetrieveFlashIsLive
  <2>2. AsRead => IsLive(Retrieval!Live(d'), m)
    BY <1>6, RetrievalIsLive
  <2> QED BY <1>1, <1>2, <1>4, <2>1, <2>2 DEF Current, PanicUnseen
<1> QED BY <1>1, <1>3, <1>4, <1>6, <1>7 DEF RetrieveInv, Seen

LEMMA RetrieveStopInput ==
  ASSUME BoardInv, Control, ChangeOk, RetrieveInv, Stop, tool = "retrieve", m.loc = "ret80"
  PROVE  RetrieveInv' /\ Current'
<1>1. /\ tool' = tool /\ m' = m /\ ~ Stopping' /\ d' = Handler.d
  BY StopDoes
<1>2. Handler = Retrieval!Handle(d, m) /\ Live' = Retrieval!Live(d')
  BY <1>1 DEF Handler, Live, ChangeTools, OtherTools, OtherMode
<1>3. DOMAIN d = DOMAIN Retrieval!FreshState
  BY DEF RetrieveInv
<1> DEFINE id == Retrieval!ParseIdCopy(m.line)
           start == Retrieval!WindowStartFor(id)
           e == [d EXCEPT !.typed = m.line, !.entry_id = id, !.valid = id < Entries, !.step = "input"]
           f == Retrieval!ReadSession(e, m)
           g == Retrieval!ReadFlash(f, m)
           h == Retrieval!ReadWindow(g, m, id)
<1>4. d' = IF id < Entries THEN Retrieval!ReadEntry(h, m, id) ELSE [h EXCEPT !.raw = None]
  BY <1>1, <1>2 DEF Retrieval!Handle, Retrieval!HandleInput, Retrieval!Paused
<1>5. id = ParseId(m.line) /\ id \in Nat
  <2>1. m.line \in Seq(STRING)
    BY BoardAssumption DEF BoardInv, Reading
  <2> QED BY <2>1, RetrievalParses, ParseIdType
<1> HIDE DEF id
<1>6. DOMAIN e = DOMAIN d /\ e.entry_id = id /\ e.valid = (id < Entries) /\ e.step = "input"
  BY <1>3 DEF Retrieval!FreshState
<1> HIDE DEF e
<1>7. /\ DOMAIN f = DOMAIN d /\ f.entry_id = id /\ f.valid = (id < Entries) /\ f.step = "input"
      /\ f.g_state = m.g_state /\ f.s_authorized = m.s_authorized /\ f.session_key = m.s_key
  BY <1>3, <1>6 DEF Retrieval!FreshState, Retrieval!ReadSession
<1> HIDE DEF f
<1>8. /\ DOMAIN g = DOMAIN d /\ g.entry_id = id /\ g.valid = (id < Entries) /\ g.step = "input"
      /\ g.g_state = m.g_state /\ g.s_authorized = m.s_authorized /\ g.session_key = m.s_key
      /\ g.active_sector = m.s_active
      /\ g.flash_a = ReadPartitionHeader(m, 2) /\ g.flash_b = ReadPartitionHeader(m, 3)
  BY <1>3, <1>7, RetrieveReadsFlash
<1> HIDE DEF g
<1> DEFINE w == ReadEntries(m, m.s_active, start..start + WindowSize - 1)
<1>9. h = [g EXCEPT !.window_start = start, !.window = w]
  <2>1. w = Retrieval!ReadEntries(m, g.active_sector, start..start + WindowSize - 1)
    BY <1>8, RetrievalReads
  <2> HIDE DEF w, start
  <2> QED BY <2>1, Zenon DEF Retrieval!ReadWindow, start
<1> HIDE DEF h, w, start
<1>10. /\ DOMAIN h = DOMAIN d /\ h.entry_id = id /\ h.valid = (id < Entries) /\ h.step = "input"
       /\ h.g_state = m.g_state /\ h.s_authorized = m.s_authorized /\ h.session_key = m.s_key
       /\ h.active_sector = m.s_active /\ h.window_start = start /\ h.window = w
       /\ h.flash_a = ReadPartitionHeader(m, 2) /\ h.flash_b = ReadPartitionHeader(m, 3)
  BY <1>3, <1>8, <1>9 DEF Retrieval!FreshState
<1>11. /\ DOMAIN d' = DOMAIN d /\ d'.entry_id = id /\ d'.valid = (id < Entries) /\ d'.step = "input"
       /\ d'.g_state = m.g_state /\ d'.s_authorized = m.s_authorized /\ d'.session_key = m.s_key
       /\ d'.active_sector = m.s_active /\ d'.window_start = start /\ d'.window = w
       /\ d'.flash_a = ReadPartitionHeader(m, 2) /\ d'.flash_b = ReadPartitionHeader(m, 3)
       /\ id < Entries => d'.dec = m.table[id]
  BY <1>3, <1>4, <1>10 DEF Retrieval!FreshState, Retrieval!ReadEntry
<1>12. id < Entries => id \in start..start + WindowSize - 1
  BY <1>5, WindowHolds DEF start
<1>13. Shows(m)'
  BY <1>1, <1>5, <1>11, <1>12 DEF Shows, w
<1>14. Current'
  <2>1. IsLive(Retrieval!Live(d'), m)
    BY <1>11, RetrievalIsLive
  <2> QED BY <1>1, <1>2, <2>1 DEF Current, PanicUnseen
<1>15. RetrieveInv'
  <2>1. d'.valid => d'.dec = m'.table[d'.entry_id]
    BY <1>1, <1>11
  <2>2. Seen(m)'
    BY <1>1, <1>11 DEF Seen
  <2> QED BY <1>1, <1>3, <1>11, <1>13, <2>1, <2>2 DEF RetrieveInv
<1> QED BY <1>14, <1>15

LEMMA RetrieveStopShown ==
  ASSUME BoardInv, Control, ChangeOk, RetrieveInv, Stop, tool = "retrieve", m.loc = "ret88"
  PROVE  RetrieveInv' /\ Current' /\ ShownEntryIsPrinted'
<1>1. /\ tool' = tool /\ m' = m /\ ~ Stopping' /\ d' = Handler.d
  BY StopDoes
<1>2. Handler = Retrieval!Handle(d, m) /\ Live' = Retrieval!Live(d')
  BY <1>1 DEF Handler, Live, ChangeTools, OtherTools, OtherMode
<1>3. DOMAIN d = DOMAIN Retrieval!FreshState /\ Shows(m) /\ (Seen(m) \/ m.g_state = "INIT")
  BY DEF RetrieveInv
<1>4. d' = Retrieval!HandleShown(d, m)
  BY <1>1, <1>2 DEF Retrieval!Handle, Retrieval!Paused
<1> DEFINE e == [d EXCEPT !.step = "shown"]
           id == d.entry_id
           r == ReadEntries(m, m.s_active, {id})[id]
           Kept == {"valid", "entry_id", "active_sector", "window", "window_start", "g_state",
                    "s_authorized", "session_key", "flash_a", "flash_b"}
<1>5. /\ DOMAIN e = DOMAIN d /\ e.step = "shown"
      /\ \A f \in Kept : e[f] = d[f]
  BY <1>3 DEF Retrieval!FreshState
<1>6. d' = IF d.valid = TRUE THEN Retrieval!ReadEntry(e, m, id) ELSE e
  BY <1>4 DEF Retrieval!HandleShown
<1> HIDE DEF e
<1>7. /\ DOMAIN d' = DOMAIN d /\ d'.step = "shown"
      /\ \A f \in Kept : d'[f] = d[f]
      /\ d.valid = TRUE => d'.dec = m.table[id] /\ d'.raw = r
  <2>1. CASE d.valid = TRUE
    <3>0. r = Retrieval!ReadEntries(m, e.active_sector, {id})[id]
      BY <1>3, <1>5, RetrievalReads DEF Shows
    <3>1. d' = [e EXCEPT !.raw = r, !.dec = m.table[id]]
      BY <1>6, <2>1, <3>0, Zenon DEF Retrieval!ReadEntry
    <3> HIDE DEF r
    <3> QED BY <1>3, <1>5, <3>1 DEF Retrieval!FreshState
  <2>2. CASE d.valid # TRUE
    BY <1>5, <1>6, <2>2
  <2> QED BY <2>1, <2>2
<1>8. Shows(m)'
  BY <1>1, <1>3, <1>7 DEF Shows
<1>9. RetrieveInv'
  BY <1>1, <1>3, <1>7, <1>8 DEF RetrieveInv, Seen
<1>10. Current'
  <2>1. d'.flash_a = ReadPartitionHeader(m, 2) /\ d'.flash_b = ReadPartitionHeader(m, 3)
    BY <1>3, <1>7 DEF Shows
  <2>2. IsLive(Retrieval!PanelFlash(d'), m)
    BY <2>1, RetrieveFlashIsLive
  <2>3. Seen(m) => IsLive(Retrieval!Live(d'), m)
    <3>1. /\ d'.g_state = d.g_state /\ d'.s_authorized = d.s_authorized
          /\ d'.session_key = d.session_key
      BY <1>7
    <3> QED BY <2>1, <3>1, RetrievalIsLive DEF Seen
  <2> QED BY <1>1, <1>2, <1>3, <2>2, <2>3 DEF Current, PanicUnseen
<1>11. /\ id = ParseId(m.line) /\ id \in Nat /\ d.valid = (id < Entries)
       /\ m.s_active \in Sectors /\ m.g_state \in {"RETRIEVE", "INIT"}
  <2>1. m.line \in Seq(STRING)
    BY BoardAssumption DEF BoardInv, Reading
  <2>2. m.s_active \in Sectors /\ m.g_state \in {"RETRIEVE", "INIT"}
    BY DEF BoardInv, Types, Sessions, Places
  <2> QED BY <1>3, <2>1, <2>2, ParseIdType DEF Shows
<1> DEFINE shown == Retrieval!PanelInput(d').entry
<1>12. shown = IF d.valid = TRUE THEN d'.dec ELSE None
  BY <1>7 DEF Retrieval!PanelInput
<1> HIDE DEF shown
<1>13. shown = m.printed \/ (shown = Blank /\ m.g_state = "INIT")
  <2> HIDE DEF id
  <2>1. CASE id < Entries /\ m.g_state = "RETRIEVE"
    BY <1>7, <1>11, <1>12, <2>1 DEF BoardInv, Reading
  <2>2. CASE id < Entries /\ m.g_state = "INIT"
    <3>1. m.table[id] = Blank
      BY <1>11, <2>2, BoardAssumption DEF BoardInv, Reading, BlankTable
    <3> QED BY <1>7, <1>11, <1>12, <2>2, <3>1
  <2>3. CASE ~ (id < Entries)
    <3>1. d.valid # TRUE
      BY <1>11, <2>3
    <3>2. m.printed = None
      BY <1>11, <2>3, BoardAssumption DEF BoardInv, Reading
    <3> QED BY <1>12, <3>1, <3>2
  <2> QED BY <1>11, <2>1, <2>2, <2>3
<1>14. ASSUME d.valid = TRUE
       PROVE  /\ id \in DOMAIN d'.window /\ d'.raw = d'.window[id]
              /\ m.g_state # "INIT" => d'.raw[1] = shown
  <2> DEFINE S == d.window_start..d.window_start + WindowSize - 1
  <2>1. id \in S /\ d'.window = ReadEntries(m, m.s_active, S)
    BY <1>3, <1>7, <1>14 DEF Shows
  <2> HIDE DEF S, id
  <2>2. /\ ReadEntries(m, m.s_active, S)[id] = <<m.flash[m.s_active].table[id], m.flash[m.s_active].auth>>
        /\ DOMAIN ReadEntries(m, m.s_active, S) = S
        /\ r = <<m.flash[m.s_active].table[id], m.flash[m.s_active].auth>>
        /\ r[1] = m.flash[m.s_active].table[id]
    <3>1. id \in {id}
      OBVIOUS
    <3>2. /\ ReadEntries(m, m.s_active, S)[id] = <<m.flash[m.s_active].table[id], m.flash[m.s_active].auth>>
          /\ DOMAIN ReadEntries(m, m.s_active, S) = S
      BY <1>11, <2>1 DEF ReadEntries
    <3>3. /\ r = <<m.flash[m.s_active].table[id], m.flash[m.s_active].auth>>
          /\ r[1] = m.flash[m.s_active].table[id]
      BY <1>11, <3>1 DEF ReadEntries
    <3> QED BY <3>2, <3>3, Zenon
  <2>3. m.g_state # "INIT" => m.table = m.flash[m.s_active].table
    BY <1>11 DEF BoardInv, Reading
  <2> QED BY <1>7, <1>12, <1>14, <2>1, <2>2, <2>3
<1>15. ShownEntryIsPrinted'
  <2>1. /\ d'.valid = (d'.entry_id < Entries) /\ d'.entry_id = id /\ d'.valid = d.valid
    BY <1>7, <1>11
  <2>2. d'.valid => d.valid = TRUE
    BY <1>7, <1>11
  <2>3. tool' = "retrieve" /\ m'.printed = m.printed /\ m'.g_state = m.g_state
    BY <1>1
  <2> HIDE DEF id, r
  <2> QED BY <1>13, <1>14, <2>1, <2>2, <2>3 DEF ShownEntryIsPrinted, At, shown
<1> QED BY <1>9, <1>10, <1>15

-----------------------------------------------------------------------------
(* The generation on the two dashboards.                                   *)

DraftTools == {"generate", "generate_v2"}

DrawLines == {"gen370", "gen386", "gen216"}

\* At a draw the operands are those of line 216, and nobody has given it up; at
\* a save the entry is the one that is saved.
DrawInv == tool \in DraftTools =>
  /\ DOMAIN d = DOMAIN (IF tool = "generate" THEN Draft1!FreshState ELSE Draft2!FreshState)
  /\ m.loc = "gen216" /\ (Stopping \/ calm) => ~ m.cancelled
  /\ m.loc = "gen216" /\ ~ Stopping /\ calm =>
       /\ d.pwd_so_far = m.pwd /\ d.accepted = (m.value < Threshold)
       /\ d.accepted => d.mapped_char = m.value % CharsetLen
  /\ m.loc \in SaveLines /\ m.mode = "GENERATE" /\ ~ Stopping =>
       d.save_id = m.id /\ d.save_name = m.name /\ d.save_pwd = m.pwd

\* Draft 2 clears the dictionary at the start of a run.
AtStart == Stopping /\ m.loc = "gen370" /\ m.rounds = 1

InputInv == tool = "generate_v2" =>
  /\ m.loc \in DrawLines \cup SaveLines /\ m.mode = "GENERATE" /\ ~ AtStart =>
       d.seen_input = TRUE /\ d.id = m.id /\ d.name = m.name
  /\ m.loc \in DrawLines /\ ~ AtStart => d.save_pwd = None

\* The lines of a generation, and how it goes from one to the next.
LEMMA GenerateSteps ==
  ASSUME BoardInv, Moves, m'.loc \in DrawLines \cup SaveLines, m'.mode = "GENERATE"
  PROVE  \/ m'.loc = "gen370" /\ m'.rounds = 1
         \/ /\ m.loc \in DrawLines \cup SaveLines /\ m.mode = "GENERATE"
            /\ m'.id = m.id /\ m'.name = m.name
            /\ m'.loc \in DrawLines => m.loc \in DrawLines
            /\ m'.loc = "gen216" => ~ m'.cancelled
            /\ m'.loc \in {"flash72", "gen428"} => m.loc \in SaveLines /\ m'.pwd = m.pwd
<1>0. DOMAIN m = Fields
  BY DEF BoardInv, Types
<1>1. ~ CommitEnds
  BY <1>0, CommitEndsDoes DEF From, DrawLines, SaveLines
<1>2. \/ Begins("GENERATE") /\ m'.loc = "gen370" /\ m'.rounds = 1
      \/ From("gen370", "gen386") /\ Only({"loc"})
      \/ m.loc = "gen386" /\ ~ m.cancelled /\ Draw /\ Only({"loc", "value", "rounds"})
      \/ m.loc = "gen216" /\ ~ m.cancelled /\ Draw /\ Only({"loc", "value", "rounds", "pwd"})
      \/ From("gen424", "flash72") /\ Only({"loc", "target", "flash", "table"})
      \/ /\ From("flash72", "gen428") /\ m.mode = "GENERATE"
         /\ Only({"loc", "result", "flash", "s_active"})
      \/ From("kdf78", "flash72") /\ Only({"loc", "target", "flash"})
  BY <1>1 DEF Moves, LoginMoves, KeyMoves, RetrieveMoves, GenerateMoves, From, Begins, Ends, DrawLines,
              SaveLines
<1>3. CASE m.loc \in {"gen386", "gen216"} /\ ~ m.cancelled /\ Draw
           /\ Only({"loc", "value", "rounds", "pwd"})
  <2>1. m'.mode = m.mode /\ m'.id = m.id /\ m'.name = m.name /\ m'.cancelled = m.cancelled
    BY <1>3 DEF Only, Fields
  <2>2. m'.loc \in {"gen424", "gen216", "gen370"} /\ m.mode = "GENERATE"
    BY <1>3, <2>1 DEF Draw
  <2> QED BY <1>3, <2>1, <2>2 DEF DrawLines, SaveLines
<1>4. CASE From("gen370", "gen386") /\ Only({"loc"})
  <2>1. m'.mode = m.mode /\ m'.id = m.id /\ m'.name = m.name
    BY <1>4 DEF Only, Fields
  <2> QED BY <1>4, <2>1 DEF DrawLines, SaveLines, From
<1>5. CASE \/ From("gen424", "flash72") /\ Only({"loc", "target", "flash", "table"})
           \/ From("flash72", "gen428") /\ Only({"loc", "result", "flash", "s_active"})
  <2>1. m'.mode = m.mode /\ m'.id = m.id /\ m'.name = m.name /\ m'.pwd = m.pwd
    BY <1>5 DEF Only, Fields
  <2> QED BY <1>5, <2>1 DEF DrawLines, SaveLines, From
<1>6. CASE From("kdf78", "flash72") /\ Only({"loc", "target", "flash"})
  <2>1. m'.mode = m.mode
    BY <1>6 DEF Only, Fields
  <2> QED BY <1>6, <2>1 DEF BoardInv, Places, From
<1>7. Only({"loc", "value", "rounds"}) => Only({"loc", "value", "rounds", "pwd"})
  BY DEF Only
<1> QED BY <1>2, <1>3, <1>4, <1>5, <1>6, <1>7

LEMMA DrawRuns ==
  ASSUME BoardInv, BoardInv', Control, ChangeOk, CoreRuns, DrawInv, InputInv
  PROVE  DrawInv' /\ InputInv'
<1>1. tool' = tool /\ d' = d /\ ~ Stopping /\ Moves
  BY DEF CoreRuns, CoreGoes, Stopping
<1> SUFFICES ASSUME tool \in DraftTools PROVE DrawInv' /\ InputInv'
  BY <1>1 DEF DrawInv, InputInv, DraftTools
<1>2. m'.loc \in {"gen370", "gen386", "gen216", "gen424"} => Stopping'
  <2>1. m'.loc \in {"gen370", "gen386", "gen216", "gen424"} => StopsAt(m')
    BY DEF StopsAt, DraftTools
  <2> QED BY <2>1, ArrivesStopping DEF ChangeOk
<1>3. m'.loc \in DrawLines => m'.mode = "GENERATE"
  BY DEF BoardInv, Places, DrawLines
<1>4. m'.loc = "gen216" => ~ m'.cancelled
  BY <1>1, <1>3, GenerateSteps DEF DrawLines
<1>5. ASSUME m'.loc \in SaveLines, m'.mode = "GENERATE", ~ Stopping'
      PROVE  d.save_id = m'.id /\ d.save_name = m'.name /\ d.save_pwd = m'.pwd
  <2>1. m'.loc \in {"flash72", "gen428"}
    BY <1>2, <1>5 DEF SaveLines
  <2>2. /\ m.loc \in SaveLines /\ m.mode = "GENERATE"
        /\ m'.id = m.id /\ m'.name = m.name /\ m'.pwd = m.pwd
    BY <1>1, <1>5, <2>1, GenerateSteps
  <2> QED BY <1>1, <2>2 DEF DrawInv
<1>6. DrawInv'
  BY <1>1, <1>2, <1>4, <1>5 DEF DrawInv
<1>7. ASSUME tool = "generate_v2", m'.loc \in DrawLines \cup SaveLines, m'.mode = "GENERATE", ~ AtStart'
      PROVE  /\ d.seen_input = TRUE /\ d.id = m'.id /\ d.name = m'.name
             /\ m'.loc \in DrawLines => d.save_pwd = None
  <2>1. /\ m.loc \in DrawLines \cup SaveLines /\ m.mode = "GENERATE"
        /\ m'.id = m.id /\ m'.name = m.name
        /\ m'.loc \in DrawLines => m.loc \in DrawLines
    <3>1. ~ (m'.loc = "gen370" /\ m'.rounds = 1)
      BY <1>2, <1>7 DEF AtStart
    <3> QED BY <1>1, <1>7, <3>1, GenerateSteps
  <2>2. ~ AtStart
    BY <1>1 DEF AtStart
  <2> QED BY <1>7, <2>1, <2>2 DEF InputInv
<1>8. InputInv'
  BY <1>1, <1>3, <1>7 DEF InputInv
<1> QED BY <1>6, <1>8

LEMMA DrawPanic ==
  ASSUME BoardInv, PanicButton, DrawInv, InputInv
  PROVE  DrawInv' /\ InputInv'
<1>1. DOMAIN m = Fields /\ ~ Masked /\ Panic
  BY DEF BoardInv, Types, PanicButton, Panic
<1>2. m'.loc = m.loc /\ m'.mode = m.mode /\ m'.rounds = m.rounds /\ m'.id = m.id /\ m'.name = m.name
  BY <1>1, PanicDoes DEF Only, Fields
<1>3. tool' = tool /\ d' = d /\ ~ Stopping /\ ~ Stopping' /\ calm' = FALSE
  BY DEF PanicButton, Panic, Stopping
<1>4. ~ (m'.loc \in SaveLines /\ m'.mode = "GENERATE")
  BY <1>1, <1>2 DEF Masked, SaveLines
<1>5. DrawInv'
  BY <1>2, <1>3, <1>4 DEF DrawInv
<1>6. InputInv'
  BY <1>2, <1>3 DEF InputInv, AtStart
<1> QED BY <1>5, <1>6

LEMMA DrawRest ==
  ASSUME DrawInv, InputInv, Resumes \/ PowerCut
  PROVE  DrawInv' /\ InputInv'
<1>1. CASE Resumes
  BY <1>1 DEF Resumes, DrawInv, InputInv, AtStart
<1>2. CASE PowerCut
  <2>1. m'.loc = "idle" /\ d' = d /\ tool' = tool
    BY <1>2 DEF PowerCut, Unplug, Boot
  <2> QED BY <2>1 DEF DrawInv, InputInv, SaveLines, DrawLines
<1> QED BY <1>1, <1>2

\* What a reading of draft 1 leaves.
LEMMA DraftOneReads ==
  ASSUME NEW e, NEW x, DOMAIN e = DOMAIN Draft1!FreshState
  PROVE  LET r == Draft1!ReadPersistent(e, x)
         IN  /\ DOMAIN r = DOMAIN e /\ r.pwd_so_far = x.pwd
             /\ \A f \in {"accepted", "mapped_char", "save_id", "save_name", "save_pwd", "save_cipher"} :
                  r[f] = e[f]
             /\ IsLive(Draft1!Live(r), x)
<1> DEFINE a == ReadPartitionHeader(x, 2)
           b == ReadPartitionHeader(x, 3)
           r == [e EXCEPT !.g_state = x.g_state, !.s_authorized = x.s_authorized,
                          !.active_sector = x.s_active, !.flash_a = a, !.flash_b = b,
                          !.pwd_so_far = x.pwd]
<1>0. Draft1!ReadPersistent(e, x) = r
  BY Draft1Reads DEF Draft1!ReadPersistent
<1> HIDE DEF a, b
<1>1. /\ DOMAIN r = DOMAIN e /\ r.pwd_so_far = x.pwd
      /\ \A f \in {"accepted", "mapped_char", "save_id", "save_name", "save_pwd", "save_cipher"} :
           r[f] = e[f]
      /\ r.g_state = x.g_state /\ r.s_authorized = x.s_authorized /\ r.active_sector = x.s_active
      /\ r.flash_a = a /\ r.flash_b = b
  BY DEF Draft1!FreshState
<1> HIDE DEF r
<1> DEFINE s == Draft1!PanelSession(r)
           p == Draft1!PanelFlash(r)
<1>2. Draft1!Live(r) = Updated(s, p)
  BY Draft1Reads DEF Draft1!Live, Draft1!Render
<1>3. IsLive(s, x)
  <2>1. /\ DOMAIN s \cap {"active", "flash_a", "flash_b"} = {}
        /\ \A f \in SessionFields \cap DOMAIN s : s[f] = x[f]
    BY <1>1 DEF SessionFields, Draft1!PanelSession
  <2> HIDE DEF s
  <2> QED BY <2>1, SessionIsLive
<1>4. IsLive(p, x)
  <2>1. /\ DOMAIN p \cap SessionFields = {} /\ p.active = x.s_active
        /\ p.flash_a = HeaderLine(a) /\ p.flash_b = HeaderLine(b)
    BY <1>1, Draft1Reads DEF SessionFields, Draft1!PanelFlash
  <2> HIDE DEF p
  <2> QED BY <2>1, FlashIsLive DEF a, b
<1> HIDE DEF s, p
<1> QED BY <1>0, <1>1, <1>2, <1>3, <1>4, UpdatedLive

LEMMA DraftOneStop ==
  ASSUME BoardInv, Control, ChangeOk, DrawInv, Stop, tool = "generate"
  PROVE  DrawInv' /\ InputInv' /\ (OnScreen' => IsLive(Live', m'))
<1>1. /\ tool' = tool /\ m' = m /\ Stopping /\ ~ Stopping' /\ StopsAt(m) /\ d' = Handler.d
      /\ pc' = Handler.then
  BY StopDoes
<1>2. /\ Handler = Draft1!Handle(d, m) /\ Live' = Draft1!Live(d')
      /\ m.loc \in {"gen370", "gen386", "gen216", "gen424"}
  BY <1>1 DEF Handler, Live, StopsAt, ChangeTools, OtherTools, OtherMode
<1>3. /\ DOMAIN d = DOMAIN Draft1!FreshState
      /\ m.loc = "gen216" => ~ m.cancelled
  BY <1>1 DEF DrawInv, DraftTools
<1>4. InputInv'
  BY <1>1 DEF InputInv
<1>5. CASE m.loc \in {"gen370", "gen386"}
  <2> DEFINE c == IF m.loc = "gen370" THEN "temp" ELSE "light"
             seen == IF d.seen_any THEN d ELSE Draft1!ReadInput([d EXCEPT !.seen_any = TRUE], m)
             e == [seen EXCEPT !.highlight = IF d.seen_any THEN "sample" ELSE "input", !.channel = c]
  <2>1. d' = Draft1!ReadPersistent(e, m)
    BY <1>1, <1>2, <1>5 DEF Draft1!Handle, Draft1!HandleTemp, Draft1!HandleLight, Draft1!HandleAbsorb,
                            Draft1!Paused
  <2>2. DOMAIN seen = DOMAIN d
    BY DEF Draft1!ReadInput
  <2> HIDE DEF seen
  <2>3. DOMAIN e = DOMAIN d
    BY <2>2
  <2> HIDE DEF e
  <2>4. DOMAIN d' = DOMAIN d /\ IsLive(Draft1!Live(d'), m)
    BY <1>3, <2>1, <2>3, DraftOneReads
  <2> QED BY <1>1, <1>2, <1>3, <1>4, <1>5, <2>4 DEF DrawInv, SaveLines
<1>6. CASE m.loc = "gen216"
  <2> DEFINE a == m.value < Threshold
             c == m.value % CharsetLen
             e == [d EXCEPT !.highlight = "mapping", !.value = m.value, !.accepted = a,
                            !.mapped_char = IF a THEN c ELSE None]
  <2>1. d' = Draft1!ReadPersistent(e, m)
    BY <1>1, <1>2, <1>6 DEF Draft1!Handle, Draft1!HandleMapping, Draft1!Paused
  <2>0. a \in BOOLEAN
    OBVIOUS
  <2> HIDE DEF a, c
  <2>2. DOMAIN e = DOMAIN d /\ e.accepted = a /\ (a => e.mapped_char = c)
    BY <1>3, <2>0 DEF Draft1!FreshState
  <2> HIDE DEF e
  <2>3. /\ DOMAIN d' = DOMAIN d /\ d'.accepted = a /\ (a => d'.mapped_char = c)
        /\ d'.pwd_so_far = m.pwd /\ IsLive(Draft1!Live(d'), m)
    BY <1>3, <2>1, <2>2, DraftOneReads
  <2>4. DrawInv'
    BY <1>1, <1>3, <1>6, <2>3 DEF DrawInv, SaveLines, a, c
  <2> QED BY <1>1, <1>2, <1>4, <2>3, <2>4
<1>7. CASE m.loc = "gen424"
  <2>1. /\ d' = [d EXCEPT !.save_id = m.id, !.save_name = m.name, !.save_pwd = m.pwd]
        /\ pc' = "next"
    BY <1>1, <1>2, <1>7 DEF Draft1!Handle, Draft1!HandleSave, Draft1!Steps
  <2>2. DOMAIN d' = DOMAIN d /\ d'.save_id = m.id /\ d'.save_name = m.name /\ d'.save_pwd = m.pwd
    BY <1>3, <2>1 DEF Draft1!FreshState
  <2> QED BY <1>1, <1>3, <1>4, <1>7, <2>1, <2>2 DEF DrawInv, OnScreen
<1> QED BY <1>2, <1>5, <1>6, <1>7

LEMMA DraftOneStepOver ==
  ASSUME BoardInv, Control, DrawInv, StepOver, tool = "generate"
  PROVE  DrawInv' /\ InputInv' /\ IsLive(Live', m') /\ SavedIsReadBack'
<1>1. /\ tool' = tool /\ m' = m /\ d' = HandlerAfter /\ pc = "stepping" /\ halted /\ pc' = "pause"
      /\ ~ Stopping /\ ~ Stopping'
  BY DEF StepOver, Stopping
<1>2. /\ Live' = Draft1!Live(d') /\ d' = Draft1!AfterSave(d, m) /\ m.loc = "gen428"
  BY <1>1 DEF Control, Generators, Assigners, StepLines, Live, HandlerAfter, ChangeTools, OtherTools,
              OtherMode, Draft1!HandleAfter
<1>3. /\ DOMAIN d = DOMAIN Draft1!FreshState
      /\ d.save_id = m.id /\ d.save_name = m.name /\ d.save_pwd = m.pwd
  BY <1>1, <1>2 DEF DrawInv, DraftTools, SaveLines, BoardInv, Places
<1> DEFINE c == Draft1!ReadEntries(m, m.s_active, {d.save_id})[d.save_id]
           e == [d EXCEPT !.save_cipher = c, !.highlight = "save"]
<1>4. d' = Draft1!ReadPersistent(e, m)
  BY <1>2 DEF Draft1!AfterSave
<1>5. c = ReadEntries(m, m.s_active, {d.save_id})[d.save_id]
  BY Draft1Reads
<1> HIDE DEF c
<1>6. /\ DOMAIN e = DOMAIN d /\ e.save_cipher = c
      /\ e.save_id = d.save_id /\ e.save_name = d.save_name /\ e.save_pwd = d.save_pwd
  BY <1>3 DEF Draft1!FreshState
<1> HIDE DEF e
<1>7. /\ DOMAIN d' = DOMAIN d /\ d'.save_cipher = c
      /\ d'.save_id = d.save_id /\ d'.save_name = d.save_name /\ d'.save_pwd = d.save_pwd
      /\ IsLive(Draft1!Live(d'), m)
  BY <1>3, <1>4, <1>6, DraftOneReads
<1>8. c[1] = [name |-> m.name, pwd |-> m.pwd] <=> m.result = "saved"
  BY <1>2, <1>3, <1>5, SaveLeaves
<1>9. SavedIsReadBack'
  BY <1>1, <1>3, <1>7, <1>8 DEF SavedIsReadBack
<1>10. DrawInv' /\ InputInv'
  BY <1>1, <1>2, <1>3, <1>7 DEF DrawInv, InputInv
<1> QED BY <1>1, <1>2, <1>7, <1>9, <1>10

\* What a reading of draft 2 leaves.
LEMMA DraftTwoReads ==
  ASSUME NEW e, NEW x, DOMAIN e = DOMAIN Draft2!FreshState
  PROVE  LET r == Draft2!ReadPersistent(e, x)
         IN  /\ DOMAIN r = DOMAIN e /\ r.pwd_so_far = x.pwd /\ r.active_sector = x.s_active
             /\ \A f \in {"accepted", "mapped_char", "save_id", "save_name", "save_pwd", "save_cipher",
                        "id", "name", "seen_input"} :
                  r[f] = e[f]
             /\ IsLive(Draft2!Live(r), x)
<1> DEFINE a == ReadPartitionHeader(x, 2)
           b == ReadPartitionHeader(x, 3)
           t == ReadEntries(x, x.s_active, 0..Entries - 1)
           r == [e EXCEPT !.g_state = x.g_state, !.s_authorized = x.s_authorized,
                          !.session_key = x.s_key, !.active_sector = x.s_active,
                          !.flash_a = a, !.flash_b = b, !.pwd_so_far = x.pwd, !.entries = t]
<1>0. Draft2!ReadPersistent(e, x) = r
  BY Draft2Reads DEF Draft2!ReadPersistent
<1> HIDE DEF a, b, t
<1>1. /\ DOMAIN r = DOMAIN e /\ r.pwd_so_far = x.pwd
      /\ \A f \in {"accepted", "mapped_char", "save_id", "save_name", "save_pwd", "save_cipher",
                        "id", "name", "seen_input"} :
           r[f] = e[f]
      /\ r.g_state = x.g_state /\ r.s_authorized = x.s_authorized /\ r.active_sector = x.s_active
      /\ r.session_key = x.s_key
      /\ r.flash_a = a /\ r.flash_b = b
  BY DEF Draft2!FreshState
<1> HIDE DEF r
<1> DEFINE s == Draft2!PanelSession(r)
           p == Draft2!PanelFlash(r)
<1>2. Draft2!Live(r) = Updated(s, p)
  BY Draft2Reads DEF Draft2!Live, Draft2!Render
<1>3. IsLive(s, x)
  <2>1. /\ DOMAIN s \cap {"active", "flash_a", "flash_b"} = {}
        /\ \A f \in SessionFields \cap DOMAIN s : s[f] = x[f]
    BY <1>1 DEF SessionFields, Draft2!PanelSession
  <2> HIDE DEF s
  <2> QED BY <2>1, SessionIsLive
<1>4. IsLive(p, x)
  <2>1. /\ DOMAIN p \cap SessionFields = {} /\ p.active = x.s_active
        /\ p.flash_a = HeaderLine(a) /\ p.flash_b = HeaderLine(b)
    BY <1>1, Draft2Reads DEF SessionFields, Draft2!PanelFlash
  <2> HIDE DEF p
  <2> QED BY <2>1, FlashIsLive DEF a, b
<1> HIDE DEF s, p
<1> QED BY <1>0, <1>1, <1>2, <1>3, <1>4, UpdatedLive

LEMMA DraftTwoStop ==
  ASSUME BoardInv, Control, ChangeOk, DrawInv, InputInv, Stop, tool = "generate_v2"
  PROVE  DrawInv' /\ InputInv' /\ (OnScreen' => IsLive(Live', m'))
<1>1. /\ tool' = tool /\ m' = m /\ Stopping /\ ~ Stopping' /\ StopsAt(m) /\ d' = Handler.d
      /\ pc' = Handler.then
  BY StopDoes
<1>2. /\ Handler = Draft2!Handle(d, m) /\ Live' = Draft2!Live(d')
      /\ m.loc \in {"gen370", "gen386", "gen216", "gen424"}
  BY <1>1 DEF Handler, Live, StopsAt, ChangeTools, OtherTools, OtherMode
<1>3. /\ DOMAIN d = DOMAIN Draft2!FreshState
      /\ m.loc = "gen216" => ~ m.cancelled
      /\ m.mode = "GENERATE"
  BY <1>1, <1>2 DEF DrawInv, DraftTools, BoardInv, Places
<1>4. ~ (m.loc = "gen370" /\ m.rounds = 1) =>
        /\ d.seen_input = TRUE /\ d.id = m.id /\ d.name = m.name
        /\ m.loc # "gen424" => d.save_pwd = None
  BY <1>2, <1>3 DEF InputInv, AtStart, DrawLines, SaveLines
<1>5. CASE m.loc \in {"gen370", "gen386"}
  <2> DEFINE c == IF m.loc = "gen370" THEN "temp" ELSE "light"
             starts == m.rounds = 1 /\ c = "temp"
             run == IF starts THEN Draft2!Updated(d, Draft2!FreshState) ELSE d
             seen == Draft2!ReadInput(run, m)
             e == [seen EXCEPT !.highlight = IF starts THEN "input" ELSE "sample", !.channel = c]
  <2>1. d' = Draft2!ReadPersistent(e, m)
    BY <1>1, <1>2, <1>5 DEF Draft2!Handle, Draft2!HandleTemp, Draft2!HandleLight, Draft2!HandleAbsorb,
                            Draft2!Paused
  <2>2. starts <=> m.loc = "gen370" /\ m.rounds = 1
    BY <1>5
  <2> HIDE DEF starts, c
  <2>3. /\ DOMAIN run = DOMAIN d /\ run.save_pwd = None
        /\ IF starts THEN run.seen_input = FALSE
           ELSE run.seen_input = TRUE /\ run.id = m.id /\ run.name = m.name
    <3>1. CASE starts
      <4> DEFINE fresh == Draft2!FreshState
      <4>1. DOMAIN fresh = DOMAIN d /\ fresh.save_pwd = None /\ fresh.seen_input = FALSE
            /\ {"save_pwd", "seen_input"} \subseteq DOMAIN fresh
        BY <1>3 DEF Draft2!FreshState
      <4> HIDE DEF fresh
      <4>2. run = Draft2!Updated(d, fresh)
        BY <3>1 DEF fresh
      <4> HIDE DEF run
      <4> QED BY <3>1, <4>1, <4>2 DEF Draft2!Updated
    <3>2. CASE ~ starts
      BY <1>4, <1>5, <2>2, <3>2
    <3> QED BY <3>1, <3>2
  <2> HIDE DEF run
  <2>4. /\ DOMAIN seen = DOMAIN d /\ seen.save_pwd = None
        /\ seen.seen_input = TRUE /\ seen.id = m.id /\ seen.name = m.name
    BY <1>3, <2>3 DEF Draft2!ReadInput, Draft2!FreshState
  <2> HIDE DEF seen
  <2>5. /\ DOMAIN e = DOMAIN d /\ e.save_pwd = None
        /\ e.seen_input = TRUE /\ e.id = m.id /\ e.name = m.name
    BY <1>3, <2>4 DEF Draft2!FreshState
  <2> HIDE DEF e
  <2>6. /\ DOMAIN d' = DOMAIN d /\ d'.save_pwd = None
        /\ d'.seen_input = TRUE /\ d'.id = m.id /\ d'.name = m.name
        /\ IsLive(Draft2!Live(d'), m)
    BY <1>3, <2>1, <2>5, DraftTwoReads
  <2>7. DrawInv'
    BY <1>1, <1>3, <1>5, <2>6 DEF DrawInv, SaveLines
  <2>8. InputInv'
    BY <1>1, <2>6 DEF InputInv
  <2> QED BY <1>1, <1>2, <2>6, <2>7, <2>8
<1>6. CASE m.loc = "gen216"
  <2> DEFINE a == m.value < Threshold
             c == m.value % CharsetLen
             e == [d EXCEPT !.highlight = "mapping", !.value = m.value, !.accepted = a,
                            !.mapped_char = IF a THEN c ELSE None]
  <2>0. Draft2!ReadInput(d, m) = d /\ a \in BOOLEAN
    BY <1>4, <1>6 DEF Draft2!ReadInput
  <2>1. d' = Draft2!ReadPersistent(e, m)
    BY <1>1, <1>2, <1>6, <2>0 DEF Draft2!Handle, Draft2!HandleMapping, Draft2!Paused
  <2> HIDE DEF a, c
  <2>2. /\ DOMAIN e = DOMAIN d /\ e.accepted = a /\ (a => e.mapped_char = c)
        /\ e.save_pwd = None /\ e.seen_input = TRUE /\ e.id = m.id /\ e.name = m.name
    BY <1>3, <1>4, <1>6, <2>0 DEF Draft2!FreshState
  <2> HIDE DEF e
  <2>3. /\ DOMAIN d' = DOMAIN d /\ d'.accepted = a /\ (a => d'.mapped_char = c)
        /\ d'.pwd_so_far = m.pwd /\ IsLive(Draft2!Live(d'), m)
        /\ d'.save_pwd = None /\ d'.seen_input = TRUE /\ d'.id = m.id /\ d'.name = m.name
    BY <1>3, <2>1, <2>2, DraftTwoReads
  <2>4. DrawInv'
    BY <1>1, <1>3, <1>6, <2>3 DEF DrawInv, SaveLines, a, c
  <2>5. InputInv'
    BY <1>1, <2>3 DEF InputInv
  <2> QED BY <1>1, <1>2, <2>3, <2>4, <2>5
<1>7. CASE m.loc = "gen424"
  <2> DEFINE e == [d EXCEPT !.save_id = m.id, !.save_name = m.name, !.save_pwd = m.pwd,
                            !.write_phase = "pending", !.highlight = "save"]
  <2>1. d' = Draft2!ReadPersistent(e, m)
    BY <1>1, <1>2, <1>7 DEF Draft2!Handle, Draft2!HandleSave, Draft2!PausesSteps
  <2>2. /\ DOMAIN e = DOMAIN d /\ e.save_id = m.id /\ e.save_name = m.name /\ e.save_pwd = m.pwd
        /\ e.seen_input = TRUE /\ e.id = m.id /\ e.name = m.name
    BY <1>3, <1>4, <1>7 DEF Draft2!FreshState
  <2> HIDE DEF e
  <2>3. /\ DOMAIN d' = DOMAIN d /\ d'.save_id = m.id /\ d'.save_name = m.name /\ d'.save_pwd = m.pwd
        /\ d'.seen_input = TRUE /\ d'.id = m.id /\ d'.name = m.name
        /\ IsLive(Draft2!Live(d'), m)
    BY <1>3, <2>1, <2>2, DraftTwoReads
  <2>4. DrawInv'
    BY <1>1, <1>3, <1>7, <2>3 DEF DrawInv
  <2>5. InputInv'
    BY <1>1, <1>7, <2>3 DEF InputInv, DrawLines
  <2> QED BY <1>1, <1>2, <2>3, <2>4, <2>5
<1> QED BY <1>2, <1>5, <1>6, <1>7

LEMMA DraftTwoStepOver ==
  ASSUME BoardInv, Control, DrawInv, InputInv, StepOver, tool = "generate_v2"
  PROVE  DrawInv' /\ InputInv' /\ IsLive(Live', m') /\ SavedIsReadBack'
<1>1. /\ tool' = tool /\ m' = m /\ d' = HandlerAfter /\ pc = "stepping" /\ halted /\ pc' = "pause"
      /\ ~ Stopping /\ ~ Stopping'
  BY DEF StepOver, Stopping
<1>2. /\ Live' = Draft2!Live(d') /\ d' = Draft2!AfterSave(d, m) /\ m.loc = "gen428"
  BY <1>1 DEF Control, Generators, Assigners, StepLines, Live, HandlerAfter, ChangeTools, OtherTools,
              OtherMode, Draft2!HandleAfter
<1>3. /\ DOMAIN d = DOMAIN Draft2!FreshState
      /\ d.save_id = m.id /\ d.save_name = m.name /\ d.save_pwd = m.pwd
      /\ d.seen_input = TRUE /\ d.id = m.id /\ d.name = m.name
  BY <1>1, <1>2 DEF DrawInv, InputInv, AtStart, DraftTools, SaveLines, BoardInv, Places
<1> DEFINE e == [d EXCEPT !.write_phase = "done"]
           r == Draft2!ReadPersistent(e, m)
           c == ReadEntries(m, m.s_active, {m.id})[m.id]
<1>4. /\ DOMAIN e = DOMAIN d
      /\ e.save_id = m.id /\ e.save_name = m.name /\ e.save_pwd = m.pwd
      /\ e.seen_input = TRUE /\ e.id = m.id /\ e.name = m.name
  BY <1>3 DEF Draft2!FreshState
<1> HIDE DEF e
<1>5. /\ DOMAIN r = DOMAIN d /\ r.active_sector = m.s_active
      /\ r.save_id = m.id /\ r.save_name = m.name /\ r.save_pwd = m.pwd
      /\ r.seen_input = TRUE /\ r.id = m.id /\ r.name = m.name
      /\ IsLive(Draft2!Live(r), m)
  BY <1>3, <1>4, DraftTwoReads
<1>6. d' = [r EXCEPT !.save_cipher = c]
  BY <1>2, <1>3, <1>5, Draft2Reads DEF Draft2!AfterSave, e
<1> HIDE DEF c, r
<1>7. /\ DOMAIN d' = DOMAIN d /\ d'.save_cipher = c
      /\ d'.save_id = m.id /\ d'.save_name = m.name /\ d'.save_pwd = m.pwd
      /\ d'.seen_input = TRUE /\ d'.id = m.id /\ d'.name = m.name
  BY <1>3, <1>5, <1>6 DEF Draft2!FreshState
<1>8. IsLive(Draft2!Live(d'), m)
  <2>1. Draft2!PanelSession(d') = Draft2!PanelSession(r)
    BY <1>6 DEF Draft2!PanelSession
  <2>2. Draft2!PanelFlash(d') = Draft2!PanelFlash(r)
    BY <1>6 DEF Draft2!PanelFlash
  <2> QED BY <1>5, <2>1, <2>2 DEF Draft2!Live, Draft2!Render
<1>9. c[1] = [name |-> m.name, pwd |-> m.pwd] <=> m.result = "saved"
  BY <1>2, SaveLeaves DEF c
<1>10. SavedIsReadBack'
  BY <1>1, <1>7, <1>9 DEF SavedIsReadBack
<1>11. DrawInv' /\ InputInv'
  BY <1>1, <1>2, <1>3, <1>7 DEF DrawInv, InputInv, DrawLines
<1> QED BY <1>1, <1>2, <1>8, <1>10, <1>11

-----------------------------------------------------------------------------
(* The board and all the tools together.                                   *)

ToolInv ==
  MkAuthInv /\ FirstInv /\ ChangeInv /\ OtherInv /\ RetrieveInv /\ DrawInv /\ InputInv

Promises ==
  /\ ScreenIsCurrent /\ OnlyThisAttempt /\ ShownEntryIsPrinted /\ SavedIsReadBack
  /\ TargetIsWritten /\ PowerLossVerdict

IInv == BoardInv /\ m.panics \in Nat /\ Control /\ ToolInv /\ Promises

\* An image in the flash the tools find.
LEMMA FirstImages ==
  ASSUME NEW k \in Keys, NEW v \in {1, 2}
  PROVE  LET p == [magic |-> "magic", version |-> v, auth |-> <<k, 0>>,
                   table |-> [i \in 0..Entries - 1 |->
                                IF i \in Ids THEN Blank ELSE [name |-> 0, pwd |-> <<i>>]],
                   words |-> TableWords]
         IN  IsSlot(p, 0)
<1>1. \A i \in 0..Entries - 1 : (IF i \in Ids THEN Blank ELSE [name |-> 0, pwd |-> <<i>>]).name \in 0..0
  BY DEF Blank
<1> QED BY <1>1 DEF IsSlot, IsTable, Auths

LEMMA ErasedImages ==
  IsSlot(Erased, 0) /\ IsSlot([Erased EXCEPT !.magic = "spoilt"], 0)
<1>1. IsTable(BlankTable, 0)
  BY BlankIsTable
<1> HIDE DEF BlankTable
<1> QED BY <1>1 DEF IsSlot, Erased

LEMMA FirstFlash ==
  ASSUME NEW t, NEW flash \in InitialFlash(t)
  PROVE  DOMAIN flash = Sectors /\ \A s \in Sectors : IsSlot(flash[s], 0)
<1> DEFINE key == CHOOSE k \in Keys : TRUE
           table == [i \in 0..Entries - 1 |->
                       IF i \in Ids THEN Blank ELSE [name |-> 0, pwd |-> <<i>>]]
           Image(v) == [magic |-> "magic", version |-> v, auth |-> <<key, 0>>, table |-> table,
                        words |-> TableWords]
           spoilt == [Erased EXCEPT !.magic = "spoilt"]
<1>1. key \in Keys
  BY BoardAssumption
<1>2. IsSlot(Image(1), 0) /\ IsSlot(Image(2), 0) /\ IsSlot(Erased, 0) /\ IsSlot(spoilt, 0)
  BY <1>1, FirstImages, ErasedImages
<1>3. [Image(2) EXCEPT !.version = 1] = Image(1)
  <2> HIDE DEF key, table
  <2> QED OBVIOUS
<1>4. \E s \in {<<Image(2), Erased>>, <<Image(2), spoilt>>, <<Image(1), Image(2)>>, <<Erased, Erased>>} :
        flash = [i \in Sectors |-> s[i - 1]]
  <2> HIDE DEF spoilt, key, table
  <2>1. PICK s \in Used(key) \cup {<<Erased, Erased>>} : flash = [i \in Sectors |-> s[i - 1]]
    BY DEF InitialFlash, key
  <2>2. Used(key) = {<<Image(2), Erased>>, <<Image(2), spoilt>>, <<Image(1), Image(2)>>}
    BY <1>3 DEF Used, spoilt, table
  <2> HIDE DEF Image
  <2> QED BY <2>1, <2>2
<1> HIDE DEF Image, spoilt
<1> QED BY <1>2, <1>4 DEF Sectors

\* What connect() finds.
LEMMA InitInv == ASSUME Init PROVE IInv
<1>1. PICK flash \in InitialFlash(tool) : m = Boot(flash, 0, 0)
  BY DEF Init
<1>2. BoardInv
  <2>1. DOMAIN flash = Sectors /\ \A s \in Sectors : IsSlot(flash[s], 0)
    BY FirstFlash
  <2> QED BY <1>1, <2>1, BootInv, Zenon DEF BootKeeps
<1>3. m.loc = "idle" /\ m.mode = None /\ m.panics = 0
  BY <1>1 DEF Boot
<1>4. /\ tool \in AllTools /\ armed = Breakpoints(tool, d)
      /\ halted = FALSE /\ stepping = FALSE /\ pc = "wait" /\ fixedFor = 0
      /\ tool # "power_loss" => d = FreshState(tool)
      /\ tool = "power_loss" =>
           \E w \in PowerWords : d = ChangeMk!ArmPowerLoss(FreshState(tool), m, w)
  BY ToolsAssumption DEF Init
<1>5. Control
  BY <1>4 DEF Control, Stopping, OnScreen
<1>6. ChangeInv
  <2>1. pc # "hold"
    BY <1>4
  <2>2. ASSUME tool = "change_mk" PROVE ChangeFields /\ d.target_sector = None
    <3>1. d = ChangeMk!FreshState
      BY <1>4, <2>2 DEF FreshState, ChangeTools, OtherTools, OtherMode
    <3> QED BY <2>2, <3>1 DEF ChangeFields, ChangeMk!FreshState
  <2>3. ASSUME tool = "power_loss"
        PROVE  ChangeFields /\ d.target_sector = None /\ d.power_loss_word \in PowerWords
    <3> DEFINE e == ChangeMk!FreshState
               seen == ChangeMk!ReadFlash(e, m)
    <3>1. PICK w \in PowerWords : d = ChangeMk!ArmPowerLoss(e, m, w)
      BY <1>4, <2>3 DEF FreshState, ChangeTools, OtherTools, OtherMode
    <3>2. DOMAIN seen = DOMAIN e /\ seen.target_sector = None /\ "target_sector" \in DOMAIN seen
      BY DEF ChangeMk!ReadFlash, ChangeMk!FreshState
    <3>3. PowerFields \cap DOMAIN e = {} /\ "target_sector" \in DOMAIN e
      BY DEF PowerFields, ChangeMk!FreshState
    <3> DEFINE g == [power_loss_sector |-> ChangeMk!TargetPartition(seen), power_loss_word |-> w]
    <3>4. d = ChangeMk!Updated(seen, g)
      BY <3>1, Zenon DEF ChangeMk!ArmPowerLoss
    <3>5. /\ DOMAIN g = PowerFields /\ g.power_loss_sector \in Sectors /\ g.power_loss_word = w
      BY DEF PowerFields, ChangeMk!TargetPartition, Sectors
    <3> HIDE DEF seen, e, g
    <3>6. /\ DOMAIN d = DOMAIN e \cup PowerFields /\ d.target_sector = None
          /\ d.power_loss_sector \in Sectors /\ d.power_loss_word = w
      BY <3>2, <3>3, <3>4, <3>5 DEF ChangeMk!Updated, PowerFields
    <3> QED BY <2>3, <3>6 DEF ChangeFields, e
  <2> QED BY <1>3, <2>1, <2>2, <2>3 DEF ChangeInv, ChangeTools
<1>7. MkAuthInv
  <2>1. tool = "mk_auth_tui" => d = MkAuth!FreshState
    BY <1>4 DEF FreshState, ChangeTools, OtherTools, OtherMode
  <2> QED BY <1>3, <2>1 DEF MkAuthInv, MkAuth!FreshState
<1>8. FirstInv /\ RetrieveInv
  <2>1. /\ tool = "first_meet" => d = FirstMeet!FreshState
        /\ tool = "retrieve" => d = Retrieval!FreshState
    BY <1>4 DEF FreshState, ChangeTools, OtherTools, OtherMode
  <2> QED BY <1>3, <2>1 DEF FirstInv, RetrieveInv
<1>9. OtherInv
  <2>1. tool \in OtherTools => d = Other!FreshState
    BY <1>4 DEF FreshState, ChangeTools, OtherTools, OtherMode
  <2> QED BY <1>3, <2>1 DEF OtherInv, OtherChangeInv, OtherSaveInv, SaveLines, Other!FreshState
<1>10. DrawInv /\ InputInv
  <2>1. /\ tool = "generate" => d = Draft1!FreshState
        /\ tool = "generate_v2" => d = Draft2!FreshState
    BY <1>4 DEF FreshState, ChangeTools, OtherTools, OtherMode
  <2> QED BY <1>3, <2>1 DEF DrawInv, InputInv, DraftTools, SaveLines, DrawLines
<1>11. Promises
  BY <1>3, <1>4 DEF Promises, ScreenIsCurrent, OnlyThisAttempt, ShownEntryIsPrinted, At, SavedIsReadBack, TargetIsWritten,
                    PowerLossVerdict, OnScreen
<1> QED BY <1>2, <1>3, <1>5, <1>6, <1>7, <1>8, <1>9, <1>10, <1>11 DEF IInv, ToolInv


\* A tool's part of the invariant asks nothing of the other tools.
LEMMA OtherTool ==
  ASSUME tool' = tool
  PROVE  /\ tool # "mk_auth_tui" => MkAuthInv'
         /\ tool \notin FirstTools => FirstInv'
         /\ tool \notin OtherTools => OtherInv'
         /\ tool # "retrieve" => RetrieveInv'
         /\ tool \notin DraftTools => DrawInv' /\ InputInv'
BY DEF MkAuthInv, FirstInv, FirstTools, OtherInv, OtherChangeInv, OtherSaveInv, OtherTools, OtherMode,
       RetrieveInv, DrawInv, InputInv, DraftTools

\* The exception is one tool's.
LEMMA OtherScreens ==
  ASSUME tool' = tool, tool # "retrieve"
  PROVE  IsLive(Live', m') => Current'
BY DEF Current, PanicUnseen

\* What a stop must leave, beside the board and the hand-over.
Answers ==
  /\ MkAuthInv' /\ FirstInv' /\ OtherInv' /\ RetrieveInv' /\ DrawInv' /\ InputInv'
  /\ OnScreen' => Current'
  /\ ShownEntryIsPrinted'
  /\ tool = "other_change_mk" /\ m.loc = "session202" => RetiredIs(d')

LEMMA ToolStop ==
  ASSUME BoardInv, Control, ToolInv, Stop
  PROVE  Answers
<1>1. ChangeOk /\ tool \in AllTools
  BY DEF ChangeOk, ToolInv, ChangeInv, Control
<1>2. tool' = tool /\ m' = m /\ StopsAt(m)
  BY <1>1, StopDoes
<1>3. tool \notin {"retrieve", "other_retrieve"} => ShownEntryIsPrinted'
  BY <1>2 DEF ShownEntryIsPrinted, At
<1>4. CASE tool = "mk_auth"
  BY <1>2, <1>3, <1>4, OtherTool, OtherScreens, PlainLive
     DEF Answers, FirstTools, OtherTools, OtherMode, DraftTools
<1>5. CASE tool = "mk_auth_tui"
  BY <1>1, <1>2, <1>3, <1>5, OtherTool, OtherScreens, MkAuthStop
     DEF Answers, ToolInv, FirstTools, OtherTools, OtherMode, DraftTools
<1>6. CASE tool \in ChangeTools
  BY <1>1, <1>2, <1>3, <1>6, OtherTool, OtherScreens, ChangeStop
     DEF Answers, ToolInv, FirstTools, OtherTools, OtherMode, DraftTools, ChangeTools
<1>7. CASE tool = "first_meet"
  BY <1>1, <1>2, <1>3, <1>7, OtherTool, OtherScreens, FirstStop
     DEF Answers, ToolInv, FirstTools, OtherTools, OtherMode, DraftTools
<1>8. CASE tool = "retrieve"
  <2>1. m.loc # "ret88" => ShownEntryIsPrinted'
    BY <1>2, <1>8 DEF ShownEntryIsPrinted, At
  <2>2. m.loc \in {"retEnter", "ret34", "ret80", "ret88"}
    BY <1>2, <1>8 DEF StopsAt
  <2>3. RetrieveInv' /\ Current' /\ ShownEntryIsPrinted'
    BY <1>1, <1>8, <2>1, <2>2, RetrieveStopMenu, RetrieveStopInput, RetrieveStopShown DEF ToolInv
  <2> QED BY <1>2, <1>8, <2>3, OtherTool DEF Answers, FirstTools, OtherTools, OtherMode, DraftTools
<1>9. CASE tool = "generate"
  BY <1>1, <1>2, <1>3, <1>9, OtherTool, OtherScreens, DraftOneStop
     DEF Answers, ToolInv, FirstTools, OtherTools, OtherMode
<1>10. CASE tool = "generate_v2"
  BY <1>1, <1>2, <1>3, <1>10, OtherTool, OtherScreens, DraftTwoStop
     DEF Answers, ToolInv, FirstTools, OtherTools, OtherMode
<1>11. CASE tool = "other_first_meet"
  BY <1>1, <1>2, <1>3, <1>11, OtherTool, OtherScreens, OtherFirstStop
     DEF Answers, ToolInv, OtherTools, OtherMode, DraftTools
<1>12. CASE tool = "other_change_mk"
  BY <1>1, <1>2, <1>3, <1>12, OtherTool, OtherScreens, OtherChangeStop DEF Answers, ToolInv, DraftTools
<1>13. CASE tool = "other_retrieve"
  <2>1. ShownEntryIsPrinted'
    BY <1>1, <1>2, <1>13, OtherRetrieveStop DEF ToolInv, ShownEntryIsPrinted, At
  <2> QED BY <1>1, <1>2, <1>13, <2>1, OtherTool, OtherScreens, OtherRetrieveStop DEF Answers, ToolInv, DraftTools
<1>14. CASE tool = "other_generate"
  BY <1>1, <1>2, <1>3, <1>14, OtherTool, OtherScreens, OtherGenerateStop DEF Answers, ToolInv, DraftTools
<1> QED BY <1>1, <1>4, <1>5, <1>6, <1>7, <1>8, <1>9, <1>10, <1>11, <1>12, <1>13, <1>14, ToolIs DEF ChangeTools

LEMMA ToolStepOver ==
  ASSUME BoardInv, Control, ToolInv, StepOver
  PROVE  Answers /\ SavedIsReadBack'
<1>1. /\ tool' = tool /\ m' = m /\ pc = "stepping" /\ halted /\ tool \in AllTools
      /\ tool \notin ChangeTools /\ tool \notin {"retrieve", "other_retrieve"}
  BY SteppersAre DEF StepOver, Control
<1>2. \/ tool \in Generators /\ m.loc = "gen428"
      \/ tool \in Assigners /\ m.loc = "idle"
  BY <1>1 DEF Control, StepLines, Generators, Assigners
<1>3. ShownEntryIsPrinted' /\ m.loc # "session202"
  BY <1>1, <1>2 DEF ShownEntryIsPrinted, At
<1>4. tool \in Assigners => SavedIsReadBack'
  BY <1>1, <1>2 DEF SavedIsReadBack, Assigners, Generators
<1>5. CASE tool = "mk_auth"
  BY <1>1, <1>3, <1>4, <1>5, OtherTool, OtherScreens, PlainLive
     DEF Answers, FirstTools, OtherTools, OtherMode, DraftTools, Assigners
<1>6. CASE tool = "mk_auth_tui"
  BY <1>1, <1>3, <1>4, <1>6, OtherTool, OtherScreens, MkAuthStepOver
     DEF Answers, ToolInv, FirstTools, OtherTools, OtherMode, DraftTools, Assigners
<1>7. CASE tool = "first_meet"
  BY <1>1, <1>3, <1>4, <1>7, OtherTool, OtherScreens, FirstStepOver
     DEF Answers, ToolInv, FirstTools, OtherTools, OtherMode, DraftTools, Assigners
<1>8. CASE tool = "generate"
  BY <1>1, <1>3, <1>8, OtherTool, OtherScreens, DraftOneStepOver DEF Answers, ToolInv, FirstTools, OtherTools, OtherMode
<1>9. CASE tool = "generate_v2"
  BY <1>1, <1>3, <1>9, OtherTool, OtherScreens, DraftTwoStepOver DEF Answers, ToolInv, FirstTools, OtherTools, OtherMode
<1>10. CASE tool \in OtherTools
  BY <1>1, <1>3, <1>10, OtherTool, OtherScreens, OtherStepOver DEF Answers, ToolInv, OtherTools, OtherMode, DraftTools
<1> QED BY <1>1, <1>5, <1>6, <1>7, <1>8, <1>9, <1>10, ToolIs DEF ChangeTools, OtherTools, OtherMode

\* What is on the screen of the attempt under way follows from the invariants.
LEMMA AttemptShown ==
  ASSUME MkAuthInv, InputInv, RetrieveInv, BoardInv, ~ Stopping,
         tool = "generate_v2" => m.loc \in DrawLines \cup SaveLines /\ m.mode = "GENERATE",
         tool = "other_change_mk" /\ m.loc = "session202" => RetiredIs(d)
  PROVE  OnlyThisAttempt
<1>1. tool = "mk_auth_tui" /\ d.salt # None =>
        MkAuth!PanelComputed(d).auth \in {<<MkAuth!PanelTyped(d).mk, d.salt>>, Garbage}
  BY DEF MkAuthInv, MkAuth!PanelComputed, MkAuth!PanelTyped
<1>2. tool = "generate_v2" =>
        /\ Draft2!PanelInput(d).id = m.id /\ Draft2!PanelInput(d).name = m.name
        /\ m.loc \in {"gen370", "gen386", "gen216"} => Draft2!PanelSave(d).pwd = None
  <2> SUFFICES ASSUME tool = "generate_v2"
               PROVE  /\ Draft2!PanelInput(d).id = m.id /\ Draft2!PanelInput(d).name = m.name
                      /\ m.loc \in DrawLines => Draft2!PanelSave(d).pwd = None
    BY DEF DrawLines
  <2>1. ~ AtStart
    BY DEF AtStart
  <2>2. /\ d.seen_input = TRUE /\ d.id = m.id /\ d.name = m.name
        /\ m.loc \in DrawLines => d.save_pwd = None
    BY <2>1 DEF InputInv
  <2> QED BY <2>2 DEF Draft2!PanelInput, Draft2!PanelSave
<1>3. tool = "retrieve" /\ m.loc \in {"retEnter", "ret34"} =>
        /\ Retrieval!PanelInput(d).typed = None /\ Retrieval!PanelRam(d).raw = None
        /\ Retrieval!PanelTable(d).window = None
  BY DEF RetrieveInv, Cleared, Retrieval!PanelInput, Retrieval!PanelRam, Retrieval!PanelTable
<1>4. tool = "other_change_mk" /\ m.loc = "session202" =>
        d.retired = IF m.result = "OK" THEN m.flash[CommitTarget(m)].auth ELSE m.s_key
  BY DEF RetiredIs
<1> QED BY <1>1, <1>2, <1>3, <1>4 DEF OnlyThisAttempt

LEMMA AttemptShownNext ==
  (/\ MkAuthInv /\ InputInv /\ RetrieveInv /\ BoardInv /\ ~ Stopping
   /\ tool = "generate_v2" => m.loc \in DrawLines \cup SaveLines /\ m.mode = "GENERATE"
   /\ tool = "other_change_mk" /\ m.loc = "session202" => RetiredIs(d)
   => OnlyThisAttempt)'
BY AttemptShown, PTL


\* While nothing is on the screen, and the power is not cut, nothing is promised.
LEMMA NothingShown ==
  ASSUME ~ OnScreen', pc' # "unplugged"
  PROVE  Promises'
BY DEF Promises, ScreenIsCurrent, OnlyThisAttempt, ShownEntryIsPrinted, At, SavedIsReadBack, TargetIsWritten,
       PowerLossVerdict, OnScreen

LEMMA RunsKeeps == ASSUME IInv, BoardRuns PROVE IInv'
<1>1. CoreRuns /\ BoardInv'
  BY BoardRunsDoes DEF IInv
<1>2. ChangeOk
  BY DEF ChangeOk, IInv, ToolInv, ChangeInv
<1>3. Control'
  BY <1>1, <1>2, ControlRuns DEF IInv
<1>4. ToolInv'
  BY <1>1, <1>2, MkAuthRuns, FirstRuns, ChangeRuns, OtherRuns, RetrieveRuns, DrawRuns
     DEF IInv, ToolInv
<1>5. ~ OnScreen' /\ pc' # "unplugged" /\ m'.panics = m.panics
  BY <1>1 DEF CoreRuns, OnScreen
<1> QED BY <1>1, <1>3, <1>4, <1>5, NothingShown DEF IInv

LEMMA PanicKeeps == ASSUME IInv, PanicButton PROVE IInv'
<1>1. DOMAIN m = Fields /\ Panic
  BY DEF IInv, BoardInv, Types, PanicButton
<1>2. BoardInv'
  BY <1>1, PanicInv DEF IInv
<1>3. m'.panics = m.panics + 1
  BY <1>1 DEF Panic, Fields
<1>4. Control'
  BY <1>1, ControlPanic DEF IInv
<1>5. ToolInv'
  BY <1>1, MkAuthPanic, FirstRest, ChangePanic, OtherPanic, RetrieveRest, DrawPanic DEF IInv, ToolInv
<1>6. ~ OnScreen' /\ pc' # "unplugged"
  BY DEF PanicButton, OnScreen
<1> QED BY <1>2, <1>3, <1>4, <1>5, <1>6, NothingShown DEF IInv

\* A pause between the two stops of a handler, and the way back to the core.
LEMMA ResumesKeeps == ASSUME IInv, Enter \/ Step PROVE IInv'
<1>1. Resumes
  BY ResumesDoes
<1>2. m' = m /\ ~ OnScreen' /\ pc' # "unplugged"
  BY <1>1 DEF Resumes
<1>3. BoardInv'
  <2>1. BoardInv
    BY DEF IInv
  <2> QED BY <1>2, <2>1 DEF BoardInv, Types, IsSlot, IsTable, Places, Sessions, Keying, Committing,
                            Naming, Reading, Valid, NewVersion, CommitTarget
<1>4. Control'
  BY ControlEnter, ControlStep DEF IInv
<1>5. ToolInv'
  BY <1>1, MkAuthRest, FirstRest, ChangeRest, OtherRest, RetrieveRest, DrawRest
     DEF IInv, ToolInv, BoardInv, Types
<1> QED BY <1>2, <1>3, <1>4, <1>5, NothingShown DEF IInv

LEMMA StopKeeps == ASSUME IInv, Stop PROVE IInv'
<1>1. BoardInv /\ Control /\ ToolInv /\ ChangeInv /\ ChangeOk
  BY DEF ChangeOk, IInv, ToolInv, ChangeInv
<1>2. /\ StopsAt(m) /\ ~ Stopping' /\ m' = m /\ tool' = tool
      /\ pc' \in {"pause", "next", "pauseNext", "hold", "ended"}
  BY <1>1, StopDoes
<1>3. BoardInv'
  BY <1>1, <1>2 DEF BoardInv, Types, IsSlot, IsTable, Places, Sessions, Keying, Committing,
                    Naming, Reading, Valid, NewVersion, CommitTarget
<1>4. ChangeInv' /\ Keeps /\ (tool \in ChangeTools => TargetIsWritten')
  BY <1>1, ChangeStop
<1>5. Control'
  BY <1>1, <1>4, ControlStop
<1>6. Answers
  BY <1>1, ToolStop
<1>7. ToolInv'
  BY <1>4, <1>6 DEF ToolInv, Answers
<1>8. ScreenIsCurrent'
  BY <1>6 DEF Answers, Current, ScreenIsCurrent
<1>13. OnlyThisAttempt'
  <2>1. (tool = "generate_v2" => m.loc \in DrawLines \cup SaveLines /\ m.mode = "GENERATE")'
    BY <1>1, <1>2 DEF StopsAt, DrawLines, SaveLines, BoardInv, Places
  <2>2. (tool = "other_change_mk" /\ m.loc = "session202" => RetiredIs(d))'
    BY <1>2, <1>6 DEF Answers, RetiredIs
  <2> QED BY <1>2, <1>3, <1>6, <2>1, <2>2, AttemptShownNext DEF Answers
<1>9. SavedIsReadBack'
  BY <1>2 DEF SavedIsReadBack, StopsAt
<1>10. TargetIsWritten'
  BY <1>2, <1>4 DEF TargetIsWritten
<1>11. PowerLossVerdict'
  BY <1>2 DEF PowerLossVerdict
<1>12. m'.panics \in Nat
  BY <1>2 DEF IInv
<1> QED BY <1>3, <1>5, <1>6, <1>7, <1>8, <1>9, <1>10, <1>11, <1>12, <1>13 DEF IInv, Promises, Answers

LEMMA StepOverKeeps == ASSUME IInv, StepOver PROVE IInv'
<1>1. BoardInv /\ Control /\ ToolInv
  BY DEF IInv
<1>2. /\ m' = m /\ tool' = tool /\ pc = "stepping" /\ halted /\ pc' = "pause" /\ ~ Stopping'
      /\ tool \notin ChangeTools
  BY <1>1, SteppersAre DEF StepOver, Stopping
<1>3. BoardInv'
  BY <1>1, <1>2 DEF BoardInv, Types, IsSlot, IsTable, Places, Sessions, Keying, Committing,
                    Naming, Reading, Valid, NewVersion, CommitTarget
<1>4. Control'
  BY <1>1, ControlStepOver
<1>5. Answers /\ SavedIsReadBack'
  BY <1>1, ToolStepOver
<1>6. ChangeInv'
  BY <1>2 DEF ChangeInv
<1>7. ToolInv'
  BY <1>5, <1>6 DEF ToolInv, Answers
<1>8. OnScreen'
  BY <1>2 DEF OnScreen
<1>9. ScreenIsCurrent'
  BY <1>5, <1>8 DEF Answers, Current, ScreenIsCurrent
<1>11. OnlyThisAttempt'
  <2>1. (tool = "generate_v2" => m.loc \in DrawLines \cup SaveLines /\ m.mode = "GENERATE")'
    BY <1>1, <1>2 DEF Control, Assigners, SaveLines, BoardInv, Places
  <2>2. (tool = "other_change_mk" /\ m.loc = "session202" => RetiredIs(d))'
    BY <1>2, <1>5 DEF Answers, RetiredIs
  <2> QED BY <1>2, <1>3, <1>5, <2>1, <2>2, AttemptShownNext DEF Answers
<1>10. TargetIsWritten' /\ PowerLossVerdict' /\ m'.panics \in Nat
  BY <1>2 DEF TargetIsWritten, PowerLossVerdict, IInv
<1> QED BY <1>3, <1>4, <1>5, <1>7, <1>9, <1>10, <1>11 DEF IInv, Promises, Answers

LEMMA PowerCutKeeps == ASSUME IInv, PowerCut PROVE IInv'
<1>1. BoardInv /\ Control /\ ToolInv /\ ChangeInv /\ DOMAIN m = Fields
  BY DEF IInv, ToolInv, BoardInv, Types
<1>2. m' = Boot(m.flash, m.runs, m.panics) /\ pc' = "unplugged"
  BY DEF PowerCut, Unplug
<1>3. BoardInv'
  <2>1. m.runs \in Nat /\ DOMAIN m.flash = Sectors /\ \A s \in Sectors : IsSlot(m.flash[s], m.runs)
    BY <1>1 DEF BoardInv, Types
  <2> QED BY <1>2, <2>1, BootInvNext DEF BootKeeps
<1>4. Control'
  BY <1>1, ControlPowerCut
<1>5. ToolInv'
  BY <1>1, MkAuthRest, FirstRest, ChangeRest, OtherRest, RetrieveRest, DrawRest DEF ToolInv
<1>6. PowerLossVerdict'
  BY <1>1, PowerCutVerdict
<1>7. Promises'
  BY <1>2, <1>6 DEF Promises, ScreenIsCurrent, OnlyThisAttempt, ShownEntryIsPrinted, At, SavedIsReadBack,
                    TargetIsWritten, OnScreen
<1>8. m'.panics = m.panics
  BY <1>2 DEF Boot
<1> QED BY <1>3, <1>4, <1>5, <1>7, <1>8 DEF IInv

\* A step that changes nothing.
LEMMA StutterKeeps == ASSUME IInv, UNCHANGED vars PROVE IInv'
<1>1. UNCHANGED <<m, halted, stepping, armed, tool, d, pc, calm, fixedFor>>
  BY DEF vars, boardVars
<1>2. BoardInv' /\ m'.panics \in Nat
  BY <1>1 DEF IInv, BoardInv, Types, IsSlot, IsTable, Places, Sessions, Keying, Committing, Naming,
              Reading, Valid, NewVersion, CommitTarget
<1>3. Control'
  BY <1>1 DEF IInv, Control, Stopping, OnScreen, Stops
<1>4. Stopping' <=> Stopping
  BY <1>1 DEF Stopping
<1>5. MkAuthInv' /\ FirstInv' /\ RetrieveInv'
  BY <1>1, <1>4 DEF IInv, ToolInv, MkAuthInv, FirstInv, EntriesMatch, RetrieveInv, Shows,
                    Seen, Cleared
<1>6. ChangeInv'
  BY <1>1, <1>4 DEF IInv, ToolInv, ChangeInv, ChangeFields, HoldsAt, PowerLossRecord
<1>7. OtherInv' /\ DrawInv' /\ InputInv'
  BY <1>1, <1>4 DEF IInv, ToolInv, OtherInv, OtherChangeInv, OtherSaveInv, EntriesMatch, DrawInv, InputInv,
                    AtStart
<1>8. ScreenIsCurrent'
  BY <1>1 DEF IInv, Promises, ScreenIsCurrent, OnScreen, Live, PanicUnseen
<1>10. OnlyThisAttempt'
  BY <1>1 DEF IInv, Promises, OnlyThisAttempt, OnScreen, CommitTarget
<1>9. ShownEntryIsPrinted' /\ SavedIsReadBack' /\ TargetIsWritten' /\ PowerLossVerdict'
  BY <1>1 DEF IInv, Promises, ShownEntryIsPrinted, SavedIsReadBack, TargetIsWritten, PowerLossVerdict,
              OnScreen, At
<1> QED BY <1>2, <1>3, <1>5, <1>6, <1>7, <1>8, <1>9, <1>10 DEF IInv, ToolInv, Promises

\* The invariant is inductive.
LEMMA NextKeeps == ASSUME IInv, [Next]_vars PROVE IInv'
BY RunsKeeps, PanicKeeps, StopKeeps, ResumesKeeps, StepOverKeeps, PowerCutKeeps, StutterKeeps DEF Next

-----------------------------------------------------------------------------
(* The verdict on the screen and the branch the core takes.                 *)

\* How the core leaves the lines at which a tool has given a verdict.
LEMMA Departs ==
  ASSUME BoardInv, Moves
  PROVE  /\ m.loc = "first63" => (m'.loc = "setNewKey" <=> EntriesMatch(m))
         /\ m.loc = "change87" => (m'.loc = "change66" <=> EntriesMatch(m) /\ m.s_key # None)
         /\ m.loc = "session161" => (m'.loc = "app167" <=> m.result = "OK")
         /\ m.loc = "ret80" /\ ~ Leaves(m.line) =>
              m'.printed = IF ParseId(m.line) < Entries THEN m.table[ParseId(m.line)] ELSE None
         /\ m.loc = "gen216" /\ ~ m.cancelled =>
              m'.pwd = IF m.value < Threshold THEN Append(m.pwd, m.value % CharsetLen) ELSE m.pwd
<1>1. DOMAIN m = Fields
  BY DEF BoardInv, Types
<1>2. m.loc # "flash72" => ~ CommitEnds
  BY <1>1, CommitEndsDoes DEF From
<1>3. m.loc = "first63" => (m'.loc = "setNewKey" <=> EntriesMatch(m))
  BY <1>2 DEF Moves, LoginMoves, KeyMoves, RetrieveMoves, GenerateMoves, From, Begins, Ends
<1>4. m.loc = "change87" => (m'.loc = "change66" <=> EntriesMatch(m) /\ m.s_key # None)
  BY <1>2 DEF Moves, LoginMoves, KeyMoves, RetrieveMoves, GenerateMoves, From, Begins, Ends
<1>5. m.loc = "session161" => (m'.loc = "app167" <=> m.result = "OK")
  BY <1>2 DEF Moves, LoginMoves, KeyMoves, RetrieveMoves, GenerateMoves, From, Begins, Ends
<1>6. m.loc = "ret80" /\ ~ Leaves(m.line) =>
        m'.printed = IF ParseId(m.line) < Entries THEN m.table[ParseId(m.line)] ELSE None
  BY <1>2 DEF Moves, LoginMoves, KeyMoves, RetrieveMoves, GenerateMoves, From, Begins
<1>7. m.loc = "gen216" /\ ~ m.cancelled =>
        m'.pwd = IF m.value < Threshold THEN Append(m.pwd, m.value % CharsetLen) ELSE m.pwd
  BY <1>2 DEF Moves, LoginMoves, KeyMoves, RetrieveMoves, GenerateMoves, From, Begins
<1> QED BY <1>3, <1>4, <1>5, <1>6, <1>7

\* The condition under which a step must take the branch shown.
Unhindered == pc = "wait" /\ calm /\ m' # m /\ m'.panics = m.panics

\* Only the core itself moves on without a panic.
LEMMA UnhinderedRuns ==
  ASSUME IInv, [Next]_vars, Unhindered
  PROVE  CoreRuns /\ ~ Stopping
<1>1. ~ UNCHANGED vars /\ ~ Stop /\ ~ Enter /\ ~ Step /\ ~ StepOver /\ ~ PowerCut
  BY DEF Unhindered, vars, Stop, Enter, Step, StepOver, PowerCut, boardVars
<1>2. ~ PanicButton
  <2> SUFFICES ASSUME PanicButton PROVE FALSE
    OBVIOUS
  <2>1. DOMAIN m = Fields /\ Panic /\ m.panics \in Nat
    BY DEF IInv, BoardInv, Types, PanicButton
  <2>2. m'.panics = m.panics + 1
    BY <2>1 DEF Panic, Fields
  <2> QED BY <2>1, <2>2 DEF Unhindered
<1>3. CoreRuns
  BY <1>1, <1>2, BoardRunsDoes DEF Next, IInv
<1> QED BY <1>3 DEF CoreRuns, CoreGoes, Stopping

LEMMA VerdictStep ==
  ASSUME IInv, [Next]_vars
  PROVE  Unhindered => Verdicts
<1> SUFFICES ASSUME Unhindered PROVE Verdicts
  OBVIOUS
<1>1. Moves /\ ~ Stopping /\ calm /\ BoardInv /\ ToolInv
  BY UnhinderedRuns DEF CoreRuns, Unhindered, IInv
<1>2. m.loc = "first63" /\ tool \in FirstTools => (d.verdict <=> m'.loc = "setNewKey")
  BY <1>1, Departs DEF ToolInv, FirstInv
<1>3. m.loc = "change87" /\ m.g_state = "CHANGE_MK" =>
        /\ m'.loc = "change66" <=> EntriesMatch(m)
        /\ EntriesMatch(m) <=> m.line = m.s_new
  <2>1. m.loc = "change87" /\ m.g_state = "CHANGE_MK" => m.s_key # None /\ m.s_new \in Keys
    BY <1>1 DEF BoardInv, Sessions, KeyLines, Keying
  <2> QED BY <1>1, <2>1, Departs, NoneAssumption DEF EntriesMatch
<1>4. m.loc = "change87" /\ tool = "other_change_mk" => (d.verdict <=> m'.loc = "change66")
  BY <1>1, <1>3 DEF ToolInv, OtherInv, OtherChangeInv
<1>5. m.loc = "change87" /\ tool \in ChangeTools => (d.confirm_match <=> m'.loc = "change66")
  BY <1>1, <1>3 DEF ToolInv, ChangeInv
<1>6. m.loc = "session161" /\ tool = "mk_auth_tui" =>
        (m'.loc = "app167" <=> d.verdict = "MATCH" /\ d.result = "OK")
  <2>1. m.loc = "session161" /\ m.result = "OK" => m.derived = m.flash[m.s_active].auth
    BY <1>1 DEF BoardInv, Keying
  <2> QED BY <1>1, <2>1, Departs DEF ToolInv, MkAuthInv
<1>7. m.loc = "ret80" /\ tool = "retrieve" /\ ~ Leaves(m.line) =>
        m'.printed = IF d.valid THEN d.dec ELSE None
  BY <1>1, Departs DEF ToolInv, RetrieveInv, Shows
<1>8. m.loc = "gen216" /\ tool \in {"generate", "generate_v2"} =>
        m'.pwd = IF d.accepted THEN Append(d.pwd_so_far, d.mapped_char) ELSE d.pwd_so_far
  BY <1>1, Departs DEF ToolInv, DrawInv, DraftTools
<1> QED BY <1>2, <1>4, <1>5, <1>6, <1>7, <1>8 DEF Verdicts, FirstTools

-----------------------------------------------------------------------------
(* The theorems, for any number of runs and panics, keys, entries and tools. *)

\* In every reachable state the board's memory is consistent, the breakpoints
\* are those of the tool, its dictionary holds what its handlers read at the
\* lines they stopped at, and every promise of the screen is kept.
THEOREM Invariance == Spec => []IInv
<1>1. Init => IInv
  BY InitInv
<1>2. IInv /\ [Next]_vars => IInv'
  BY NextKeeps
<1> QED BY <1>1, <1>2, PTL DEF Spec

\* At every pause of every tool the session and the flash on the screen are what
\* the memory holds, but for the session at the two stops of retrieve_trace_tui.py
\* that do not read it again, when a panic has closed it (PanicUnseen).
THEOREM ScreensAreCurrent == Spec => []ScreenIsCurrent
<1>1. IInv => ScreenIsCurrent
  BY DEF IInv, Promises
<1> QED BY <1>1, Invariance, PTL

\* Of the four tools OnlyThisAttempt names, nothing of an earlier login, generation,
\* retrieval or key change is on the screen with this one's.
THEOREM AttemptsAreSeparate == Spec => []OnlyThisAttempt
<1>1. IInv => OnlyThisAttempt
  BY DEF IInv, Promises
<1> QED BY <1>1, Invariance, PTL

\* The entry a retrieval tool shows is the one the firmware has printed, or the
\* blank one of a panic, in the window and beside the ciphertext of the same id.
THEOREM ShownEntriesArePrinted == Spec => []ShownEntryIsPrinted
<1>1. IInv => ShownEntryIsPrinted
  BY DEF IInv, Promises
<1> QED BY <1>1, Invariance, PTL

\* The ciphertext a generate tool reads back after the save is that of the
\* entry it showed if and only if the save has succeeded.
THEOREM SavesAreReadBack == Spec => []SavedIsReadBack
<1>1. IInv => SavedIsReadBack
  BY DEF IInv, Promises
<1> QED BY <1>1, Invariance, PTL

\* The partition a change tool has watched is the one a change has written,
\* when the active partition is still the one it chose the target against.
THEOREM TargetsAreWritten == Spec => []TargetIsWritten
<1>1. IInv => TargetIsWritten
  BY DEF IInv, Promises
<1> QED BY <1>1, Invariance, PTL

\* The power-loss test announces which partition the next boot opens.
THEOREM PowerLossVerdicts == Spec => []PowerLossVerdict
<1>1. IInv => PowerLossVerdict
  BY DEF IInv, Promises
<1> QED BY <1>1, Invariance, PTL

\* The verdict a tool shows at a line is the branch the firmware then takes,
\* unless a panic comes first.
THEOREM VerdictsAreTaken == Spec => VerdictIsTaken
<1>1. IInv /\ [Next]_vars => [Unhindered => Verdicts]_vars
  BY VerdictStep
<1>2. Spec => [][Unhindered => Verdicts]_vars
  BY <1>1, Invariance, PTL DEF Spec
<1> QED BY <1>2 DEF VerdictIsTaken, Unhindered

=============================================================================
