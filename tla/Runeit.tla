------------------------------- MODULE Runeit -------------------------------
(***************************************************************************)
(* app.c: the main loop over the five modes, interrupted anywhere by the   *)
(* panic button and by power losses, on top of the atomic store that the   *)
(* two flash partitions implement.                                         *)
(***************************************************************************)
EXTENDS ModeFirstMeet, ModeMkAuth, ModeChangeMk, ModeRetrieve, ModeGenerate

AppFrame == UNCHANGED <<sesVars, modeVars, storeVars, screenGen>>

-----------------------------------------------------------------------------
(* App_Run. *)

\* g_state is read once; entered is the edge against the previous pass
ReadState ==
  /\ pc = "top"
  /\ st' = g
  /\ ent' = (g # prev)
  /\ Goto("guard")
  /\ AppFrame /\ UNCHANGED <<rx, g, prev, callVars>>

StateNeedsSession(s) == s \notin {"INIT", "FIRST_MEET", "MK_AUTH"}

\* mutant: the session is not checked again
GuardDropped ==
  /\ pc = "guard"
  /\ prev' = st
  /\ Goto("switch")
  /\ AppFrame /\ UNCHANGED <<rx, g, st, ent, callVars>>

\* nothing past the login screens runs without a session
Guard ==
  /\ pc = "guard"
  /\ IF StateNeedsSession(st) /\ ~authd
       THEN g' = "INIT" /\ st' = "INIT" /\ prev' = "INIT"
       ELSE UNCHANGED <<g, st>> /\ prev' = st
  /\ Goto("switch")
  /\ AppFrame /\ UNCHANGED <<rx, ent, callVars>>

HandleInit ==
  /\ pc = "switch" /\ st = "INIT"
  /\ g' = IF cell = None THEN "FIRST_MEET" ELSE "MK_AUTH"
  /\ EndPass
  /\ AppFrame /\ UNCHANGED <<rx, st, ent, prev>>

\* HandleModeSelection up to USART_Drv_TakeLine
MenuPoll ==
  /\ pc = "switch" /\ st = "MODE_SELECTION"
  /\ \/ rx = None /\ EndPass /\ UNCHANGED rx
     \/ TakeLine /\ Goto("menu") /\ UNCHANGED <<derived, result>>
  /\ AppFrame /\ UNCHANGED appVars

MenuPick ==
  /\ pc = "menu"
  /\ g' = CASE line = "1" -> "RETRIEVE"
            [] line = "2" -> "GENERATE"
            [] line = "3" -> "CHANGE_MK"
            [] OTHER      -> g
  /\ EndPass
  /\ AppFrame /\ UNCHANGED <<rx, st, ent, prev>>

\* a mode reported that it is done
LeaveMode ==
  /\ pc = "leave"
  /\ g' = "MODE_SELECTION"
  /\ EndPass
  /\ AppFrame /\ UNCHANGED <<rx, st, ent, prev>>

App == ReadState \/ Guard \/ HandleInit \/ MenuPoll \/ MenuPick \/ LeaveMode

Main == App \/ FirstMeet \/ MkAuth \/ ChangeMk \/ Retrieve \/ Generate
        \/ Authenticate \/ SetNewKey \/ LoadTable

Next == Main \/ Type \/ Panic \/ PowerLoss

Spec == Init /\ [][Next]_vars

\* The processor keeps executing the main loop: its steps are never starved,
\* because the interrupts are short and their number is bounded.  Nothing is
\* assumed of the user, the button or the power supply.
FairSpec == Spec /\ WF_vars(Main)

-----------------------------------------------------------------------------
(* Types. *)

Labels ==
  {"top", "guard", "switch", "run", "menu", "leave"}
  \cup {"fmPrompted", "fmFirst", "fmKept", "fmConfirm", "maPrompted", "maCheck"}
  \cup {"cmPrompted", "cmNew", "cmKept", "cmConfirm", "rtLine", "gnLine"}
  \cup {"auStart", "auDerive", "auOpen", "auDone", "ldKey", "ldRead", "ldDone"}
  \cup {"snPolicy", "snSalt", "snGen", "snKdf", "snDerive", "snCheck"}
  \cup {"snCommit", "snWrite", "snVerify", "snOpen", "snDone"}
  \cup {"gnSave", "gnCommit", "gnWrite", "gnVerify", "gnReport", "gnPrint", "gnEnd"}

FmStates == [sub : {"prompt", "waitFirst", "waitConfirm"}, first : MasterKeys \cup {None}]
CmStates == [sub : {"prompt", "waitNew", "waitConfirm"}, new : MasterKeys \cup {None}, work : Tables]
RtStates == [sub : {"show", "wait"}, table : Tables]
GnStates == [sub : Prompts \cup LineWaits \cup Sampling \cup {"save"}, table : Tables,
             loaded : BOOLEAN, wiped : BOOLEAN, id : Ids \cup {None},
             pwd : Passwords \cup {None}]

LoopTypes ==
  /\ pc \in Labels
  /\ g \in AppStates /\ st \in AppStates /\ prev \in AppStates /\ ent \in BOOLEAN
LineTypes ==
  rx \in Lines \cup {None} /\ line \in Lines \cup {None}
KeyTypes ==
  /\ skey \in DerivedKeys \cup {None} /\ authd \in BOOLEAN
  /\ derived \in DerivedKeys \cup {None} /\ result \in Results \cup {None}
CountTypes ==
  gen \in 0..MaxPanics /\ opgen \in 0..MaxPanics /\ screenGen \in 0..MaxPanics
ModeTypes ==
  /\ fm \in FmStates /\ ma \in {"prompt", "wait"} /\ cm \in CmStates
  /\ rt \in RtStates /\ gn \in GnStates

TypeOK == LoopTypes /\ LineTypes /\ KeyTypes /\ CountTypes /\ ModeTypes /\ Store!TypeOK

-----------------------------------------------------------------------------
(* Safety under panics. *)

\* A derivation in flight when the button was pressed never publishes its
\* result (README, session): an open session was opened by an operation that
\* started after the last panic.
SessionIsCurrent == authd => gen = opgen

\* The key in RAM opens the partition in flash, except between the commit of
\* a new key and the opening of its session; and there is none while locked.
SessionMatchesStore ==
  IF authd THEN cell # None /\ (skey = cell.key \/ (pc \in {"snVerify", "snOpen"} /\ derived = cell.key))
           ELSE skey = None

\* Defence in depth (App_Run): no screen past the login screens starts
\* without a session, whichever of the loop's writes of g_state the panic
\* interrupt's own write came before; what the panic hits midway is the last.
GuardedScreens ==
  pc = "switch" /\ StateNeedsSession(st) => authd \/ g = "INIT"

\* A login screen that waits for a line was entered after the last panic, so
\* it holds nothing typed before it; otherwise the next pass returns to INIT.
LoginScreenIsFresh ==
  pc = "switch" /\ ~ent /\ st \in {"FIRST_MEET", "MK_AUTH"} => screenGen = gen \/ g = "INIT"

\* What a panic must not leave behind is gone when the login screen polls:
\* key, entries being typed, table being changed and generated password,
\* although the code that the panic interrupted went on running.  (s_table
\* of RETRIEVE and s_new of CHANGE_MK can stay: see NothingStaysInRam.  s_name of
\* GENERATE is not a secret to the code, which never wipes it, and no variable;
\* nor is a password before its last character.)
LockedScreenIsClean ==
  pc = "switch" /\ st = "MK_AUTH" =>
    /\ skey = None
    /\ fm.first = None
    /\ cm.work = EmptyTable
    /\ gn.table = EmptyTable /\ gn.pwd = None

\* The password GENERATE prints as saved is the one stored under that id, or
\* blank when a panic wiped it: never one that is not in flash.
PrintedIsSaved ==
  pc = "gnPrint" /\ gn.pwd # None => cell.table[gn.id] = gn.pwd

\* A save (SaveEntry) stores the produced password under the id the user chose:
\* whatever happens between loading the table and the commit, the other entries
\* and the key stay.
SaveChangesOneEntry ==
  [][pc = "gnWrite" /\ cell' # cell =>
       /\ gn.pwd \in Passwords
       /\ cell' = [cell EXCEPT !.table[gn.id] = gn.pwd]]_vars

\* A key change whose screen has seen no panic seals the same table under a
\* key that can be typed, and such a setup stores no entries, wherever the
\* power is cut.
\* (After a panic it may not: see KeyCanBeTyped and KeyChangeKeepsTable.)
NewKeyKeepsTable ==
  [][pc = "snWrite" /\ screenGen = gen /\ cell' # cell =>
       /\ cell'.key.mk \in MasterKeys
       /\ cell'.table = IF cell = None THEN EmptyTable ELSE cell.table]_vars

-----------------------------------------------------------------------------
(* Liveness. *)

\* a login screen entered after the last panic is waiting for the user
AtLoginPrompt == /\ pc = "top" /\ g = st /\ screenGen = gen
                 /\ \/ st = "FIRST_MEET" /\ fm.sub # "prompt"
                    \/ st = "MK_AUTH" /\ ma = "wait"

\* A device without a session ends up at a login prompt (README: the panic
\* button returns to the login screen), wherever in the code the panic came
\* and whatever g_state the interrupted code wrote after it.
LockedEndsAtLogin == ~authd ~> (AtLoginPrompt \/ authd)

-----------------------------------------------------------------------------
(* What the documentation says and the code does not do. *)

\* TESTING.md, rule 4 of layer C5, and T-C5.6: one of the keys opens the
\* device.  Zero bytes are no key that Session_MkPolicyOk accepts.
KeyCanBeTyped == cell # None => cell.key.mk \in MasterKeys

\* TESTING.md, rule 4 of layer C5: the table is intact after a key change.
KeyChangeKeepsTable ==
  [][cell # None /\ pc = "snWrite" => cell'.table = cell.table]_vars

\* README: pressing the button at any point returns to the login screen.  A
\* login opens a session only if the button was not pressed since the screen
\* was entered.  Not so (session.c:147), and part of no run.
LoginIsFromThisScreen == authd /\ st = "MK_AUTH" => screenGen = gen

\* TESTING.md, rule 5 of layer C5: no secret is left in RAM after a panic.
NothingStaysInRam ==
  pc = "switch" /\ st = "MK_AUTH" => rt.table = EmptyTable /\ cm.new = None
=============================================================================
