----------------------------- MODULE RuneitProofs -----------------------------
(***************************************************************************)
(* What the panic interrupt and power losses cannot break, for every value *)
(* of the constants: the sessions, then the screens, and in the last part  *)
(* the keys, tables and passwords in RAM.                                  *)
(***************************************************************************)
EXTENDS Runeit, TLAPS

(* The steps between which a session, its key and the partition in flash   *)
(* may differ: from the start of a commit, or the derivation of a login,   *)
(* to the opening of the session.                                          *)
Opening == {"auDerive", "auOpen", "snWrite", "snVerify", "snOpen", "gnCommit", "gnWrite", "gnVerify"}

\* a step that has nothing to do with any of this
Elsewhere == /\ UNCHANGED <<skey, authd, gen, cell>>
             /\ opgen' \in {opgen, gen}
             /\ pc \notin Opening /\ pc' \notin Opening

LEMMA FirstMeetElsewhere == FirstMeet => Elsewhere
<1> USE DEF Elsewhere, Opening, FmFrame, sesVars, storeVars, callVars, appVars,
            Goto, EndPass, Leave, Entering, Running, Store!Return
<1>1. CASE FmEnter   BY <1>1 DEF FmEnter
<1>2. CASE FmPrompt  BY <1>2 DEF FmPrompt
<1>3. CASE FmPoll    BY <1>3 DEF FmPoll, TakeLine
<1>4. CASE FmFirst   BY <1>4 DEF FmFirst
<1>5. CASE FmConfirm BY <1>5 DEF FmConfirm
<1>6. CASE FmDone    BY <1>6 DEF FmDone
<1> QED BY <1>1, <1>2, <1>3, <1>4, <1>5, <1>6 DEF FirstMeet

LEMMA MkAuthElsewhere == MkAuth => Elsewhere
<1> USE DEF Elsewhere, Opening, MaFrame, sesVars, storeVars, callVars, appVars,
            Goto, EndPass, Leave, Entering, Running
<1>1. CASE MaEnter  BY <1>1 DEF MaEnter
<1>2. CASE MaPrompt BY <1>2 DEF MaPrompt
<1>3. CASE MaPoll   BY <1>3 DEF MaPoll, TakeLine
<1>4. CASE MaCheck  BY <1>4 DEF MaCheck
<1>5. CASE MaDone   BY <1>5 DEF MaDone
<1> QED BY <1>1, <1>2, <1>3, <1>4, <1>5 DEF MkAuth

LEMMA ChangeMkElsewhere == ChangeMk => Elsewhere
<1> USE DEF Elsewhere, Opening, CmFrame, sesVars, storeVars, callVars, appVars,
            Goto, EndPass, Leave, Entering, Running, Store!Return
<1>1. CASE CmEnter   BY <1>1 DEF CmEnter
<1>2. CASE CmPrompt  BY <1>2 DEF CmPrompt
<1>3. CASE CmPoll    BY <1>3 DEF CmPoll, TakeLine
<1>4. CASE CmNew     BY <1>4 DEF CmNew
<1>5. CASE CmConfirm BY <1>5 DEF CmConfirm
<1>6. CASE CmLoaded  BY <1>6 DEF CmLoaded
<1>7. CASE CmDone    BY <1>7 DEF CmDone
<1> QED BY <1>1, <1>2, <1>3, <1>4, <1>5, <1>6, <1>7 DEF ChangeMk

LEMMA RetrieveElsewhere == Retrieve => Elsewhere
<1> USE DEF Elsewhere, Opening, RtFrame, sesVars, storeVars, callVars, appVars,
            Goto, EndPass, Leave, Entering, Running, Store!Return
<1>1. CASE RtEnter  BY <1>1 DEF RtEnter
<1>2. CASE RtLoaded BY <1>2 DEF RtLoaded
<1>3. CASE RtShow   BY <1>3 DEF RtShow
<1>4. CASE RtPoll   BY <1>4 DEF RtPoll, TakeLine
<1>5. CASE RtLine   BY <1>5 DEF RtLine
<1> QED BY <1>1, <1>2, <1>3, <1>4, <1>5 DEF Retrieve

\* SaveEntry and the three steps of its commit are not among them
GenerateAsks == GnEnter \/ GnLoaded \/ GnRefuse \/ GnPrompt \/ GnPoll \/ GnLine \/ GnSample
                \/ GnSave \/ GnReport \/ GnPrint \/ GnEnd

LEMMA GenerateElsewhere == GenerateAsks => Elsewhere
<1> USE DEF Elsewhere, Opening, GnFrame, sesVars, storeVars, callVars, appVars,
            Goto, EndPass, Leave, Entering, Running, MayRun, Store!Return
<1>1. CASE GnEnter  BY <1>1 DEF GnEnter
<1>2. CASE GnLoaded BY <1>2 DEF GnLoaded
<1>3. CASE GnRefuse BY <1>3 DEF GnRefuse
<1>4. CASE GnPrompt BY <1>4 DEF GnPrompt
<1>5. CASE GnPoll   BY <1>5 DEF GnPoll, TakeLine
<1>6. CASE GnLine   BY <1>6 DEF GnLine
<1>7. CASE GnSample BY <1>7 DEF GnSample
<1>8. CASE GnSave   BY <1>8 DEF GnSave
<1>9. CASE GnReport BY <1>9 DEF GnReport
<1>10. CASE GnPrint BY <1>10 DEF GnPrint
<1>11. CASE GnEnd   BY <1>11 DEF GnEnd
<1> QED
  BY <1>1, <1>2, <1>3, <1>4, <1>5, <1>6, <1>7, <1>8, <1>9, <1>10, <1>11 DEF GenerateAsks

LEMMA AppElsewhere == App => Elsewhere
<1> USE DEF Elsewhere, Opening, AppFrame, sesVars, storeVars, callVars, appVars,
            Goto, EndPass
<1>1. CASE ReadState  BY <1>1 DEF ReadState
<1>2. CASE Guard      BY <1>2 DEF Guard
<1>3. CASE HandleInit BY <1>3 DEF HandleInit
<1>4. CASE MenuPoll   BY <1>4 DEF MenuPoll, TakeLine
<1>5. CASE MenuPick   BY <1>5 DEF MenuPick
<1>6. CASE LeaveMode  BY <1>6 DEF LeaveMode
<1> QED BY <1>1, <1>2, <1>3, <1>4, <1>5, <1>6 DEF App

\* the steps of session.c on the way to these, and LoadTable
SessionPrepares == SnPolicy \/ SnSalt \/ SnGen \/ SnKdf \/ SnDerive \/ SnCheck \/ LoadTable

LEMMA SessionElsewhere == SessionPrepares => Elsewhere
<1> USE DEF Elsewhere, Opening, SnFrame, sesVars, storeVars, callVars, appVars, Goto
<1>1. CASE SnPolicy BY <1>1 DEF SnPolicy
<1>2. CASE SnSalt   BY <1>2 DEF SnSalt
<1>3. CASE SnGen    BY <1>3 DEF SnGen
<1>4. CASE SnKdf    BY <1>4 DEF SnKdf
<1>5. CASE SnDerive BY <1>5 DEF SnDerive
<1>6. CASE SnCheck  BY <1>6 DEF SnCheck
<1>7. CASE LdKey    BY <1>7 DEF LdKey
<1>8. CASE LdRead   BY <1>8 DEF LdRead, Store!Load
<1> QED
  BY <1>1, <1>2, <1>3, <1>4, <1>5, <1>6, <1>7, <1>8 DEF SessionPrepares, LoadTable

-----------------------------------------------------------------------------
(* The inductive invariant: what is known between the start of a commit and *)
(* the opening of its session.                                              *)

\* a session's key opens the partition in flash, unless a commit with the
\* key that is about to replace it has just taken effect
OpenKey ==
  authd => /\ cell # None
           /\ \/ skey = cell.key
              \/ /\ derived = cell.key
                 /\ pc = "snOpen" \/ (pc = "snVerify" /\ applied)

\* there is a partition while a login derives its key, and then the login
\* derived its key; a commit stores the key that was derived; a save cannot
\* be interrupted and stores the session's key
OperationKey ==
  /\ pc = "auDerive" => cell # None
  /\ pc \in {"auOpen", "snOpen"} => cell # None /\ derived = cell.key
  /\ pc \in {"snWrite", "snVerify"} => /\ pending.key = derived
                                       /\ applied => cell = pending /\ cell # None
  /\ pc = "snWrite" => ~applied
  /\ pc = "gnCommit" => authd /\ derived = skey
  /\ pc \in {"gnWrite", "gnVerify"} => authd /\ pending.key = skey

SessionInv == /\ SessionIsCurrent
              /\ ~authd => skey = None
              /\ OpenKey
              /\ OperationKey

USE DEF SessionIsCurrent

LEMMA SessionInit == Init => SessionInv
BY DEF Init, SessionInv, OpenKey, OperationKey, Store!Init

LEMMA ElsewhereSessionInv == SessionInv /\ Elsewhere => SessionInv'
BY DEF SessionInv, OpenKey, OperationKey, Elsewhere, Opening

LEMMA OpenIfCurrentSessionInv ==
  ASSUME NEW then \in {"auDone", "snDone"}, pc \in {"auOpen", "snOpen"},
         SessionInv, OpenIfCurrent(then)
  PROVE  SessionInv'
<1> USE DEF SessionInv, OpenKey, OperationKey, OpenIfCurrent, Goto, Opening, storeVars
<1>1. CASE gen = opgen  BY <1>1
<1>2. CASE gen # opgen  BY <1>2
<1> QED BY <1>1, <1>2

LEMMA AuthenticateSessionInv == SessionInv /\ Authenticate => SessionInv'
<1> SUFFICES ASSUME SessionInv, Authenticate PROVE SessionInv'
  OBVIOUS
<1>1. CASE AuStart
  BY <1>1 DEF AuStart, SessionInv, OpenKey, OperationKey, Goto, storeVars
<1>2. CASE AuDerive
  BY <1>2 DEF AuDerive, SessionInv, OpenKey, OperationKey, Goto, sesVars, storeVars
<1>3. CASE AuOpen
  <2>1. pc = "auOpen" /\ OpenIfCurrent("auDone")
    BY <1>3 DEF AuOpen
  <2>2. "auDone" \in {"auDone", "snDone"} /\ pc \in {"auOpen", "snOpen"}
    BY <2>1
  <2> QED BY <2>1, <2>2, OpenIfCurrentSessionInv
<1> QED BY <1>1, <1>2, <1>3 DEF Authenticate

LEMMA SetNewKeySessionInv == SessionInv /\ SetNewKey => SessionInv'
<1> SUFFICES ASSUME SessionInv, SetNewKey PROVE SessionInv'
  OBVIOUS
<1> USE DEF SessionInv, OpenKey, OperationKey, SnFrame, Goto
<1>1. CASE SnPolicy \/ SnSalt \/ SnGen \/ SnKdf \/ SnDerive \/ SnCheck
  BY <1>1, SessionElsewhere, ElsewhereSessionInv DEF SessionPrepares
<1>2. CASE SnCommit
  BY <1>2 DEF SnCommit, Store!Request
<1>3. CASE SnWrite
  <2>1. CASE Store!Persist
    BY <1>3, <2>1 DEF SnWrite, Store!Persist
  <2>2. CASE UNCHANGED storeVars
    BY <1>3, <2>2 DEF SnWrite, storeVars
  <2> QED BY <1>3, <2>1, <2>2 DEF SnWrite
<1>4. CASE SnVerify
  <2>1. CASE applied
    BY <1>4, <2>1 DEF SnVerify, Store!Answer
  <2>2. CASE ~applied
    BY <1>4, <2>2 DEF SnVerify, Store!Answer
  <2> QED BY <2>1, <2>2
<1>5. CASE SnOpen
  <2>1. pc = "snOpen" /\ OpenIfCurrent("snDone")
    BY <1>5 DEF SnOpen
  <2>2. "snDone" \in {"auDone", "snDone"} /\ pc \in {"auOpen", "snOpen"}
    BY <2>1
  <2> QED BY <2>1, <2>2, OpenIfCurrentSessionInv
<1> QED BY <1>1, <1>2, <1>3, <1>4, <1>5 DEF SetNewKey

LEMMA GenerateSessionInv == SessionInv /\ Generate => SessionInv'
<1> SUFFICES ASSUME SessionInv, Generate PROVE SessionInv'
  OBVIOUS
<1> USE DEF SessionInv, OpenKey, OperationKey, GnFrame, sesVars, callVars, Goto
<1>1. CASE GenerateAsks
  BY <1>1, GenerateElsewhere, ElsewhereSessionInv
<1>2. CASE SaveEntry
  BY <1>2 DEF SaveEntry, storeVars
<1>3. CASE GnCommit
  BY <1>3 DEF GnCommit, Store!Request
<1>4. CASE GnWrite
  <2>1. CASE Store!Persist
    BY <1>4, <2>1 DEF GnWrite, Store!Persist
  <2>2. CASE UNCHANGED storeVars
    BY <1>4, <2>2 DEF GnWrite, storeVars
  <2> QED BY <1>4, <2>1, <2>2 DEF GnWrite
<1>5. CASE GnVerify
  BY <1>5 DEF GnVerify, Store!Answer
<1> QED BY <1>1, <1>2, <1>3, <1>4, <1>5 DEF Generate, GenerateAsks

\* the environment: a panic leaves a commit running, outside SaveEntry
LEMMA EnvironmentSessionInv ==
  SessionInv /\ (Type \/ Panic \/ PowerLoss \/ UNCHANGED vars) => SessionInv'
<1> SUFFICES ASSUME SessionInv, Type \/ Panic \/ PowerLoss \/ UNCHANGED vars PROVE SessionInv'
  OBVIOUS
<1> USE DEF SessionInv, OpenKey, OperationKey
<1>1. CASE Type
  BY <1>1 DEF Type, sesVars, callVars, storeVars
<1>2. CASE Panic
  BY <1>2 DEF Panic, WipeOnPanic, Masked, callVars, storeVars
<1>3. CASE PowerLoss
  BY <1>3 DEF PowerLoss, Store!PowerLoss
<1>4. CASE UNCHANGED vars
  BY <1>4 DEF vars, sesVars, callVars, storeVars
<1> QED BY <1>1, <1>2, <1>3, <1>4

LEMMA SessionNext == SessionInv /\ [Next]_vars => SessionInv'
<1> SUFFICES ASSUME SessionInv, [Next]_vars PROVE SessionInv'
  OBVIOUS
<1>1. CASE App \/ FirstMeet \/ MkAuth \/ ChangeMk \/ Retrieve
  BY <1>1, AppElsewhere, FirstMeetElsewhere, MkAuthElsewhere, ChangeMkElsewhere,
     RetrieveElsewhere, ElsewhereSessionInv
<1>2. CASE LoadTable
  BY <1>2, SessionElsewhere, ElsewhereSessionInv DEF SessionPrepares
<1>3. CASE Authenticate \/ SetNewKey \/ Generate
  BY <1>3, AuthenticateSessionInv, SetNewKeySessionInv, GenerateSessionInv
<1>4. CASE Type \/ Panic \/ PowerLoss \/ UNCHANGED vars
  BY <1>4, EnvironmentSessionInv
<1> QED BY <1>1, <1>2, <1>3, <1>4 DEF Next, Main

LEMMA SessionInvariant == Spec => []SessionInv
BY SessionInit, SessionNext, PTL DEF Spec

\* A derivation that was running when the button was pressed never opens a
\* session, however many panics and power losses there are.
THEOREM OpenSessionIsCurrent == Spec => []SessionIsCurrent
<1>1. SessionInv => SessionIsCurrent
  BY DEF SessionInv
<1> QED BY <1>1, SessionInvariant, PTL

\* The key in RAM opens the partition in flash, but for the window between
\* the commit of a new key and the opening of its session; a closed session
\* has no key.
THEOREM SessionKeyOpensFlash == Spec => []SessionMatchesStore
<1>1. SessionInv => SessionMatchesStore
  BY DEF SessionInv, OpenKey, SessionMatchesStore
<1> QED BY <1>1, SessionInvariant, PTL
-----------------------------------------------------------------------------
(* Which screen App_Run shows: the loop and the panic interrupt both write  *)
(* g_state, without a lock.                                                 *)


Login == {"FIRST_MEET", "MK_AUTH"}

\* a login screen was entered after the last panic
Fresh(s) == s \in Login => screenGen = gen

\* At the top of the loop a screen that is shown again is fresh; further on
\* st is that screen, unless the panic interrupt has already sent the loop
\* back to INIT.  A pass that enters a screen makes it fresh.
ScreenInv ==
  /\ pc = "top" => (g = prev => Fresh(prev))
  /\ pc = "guard" => (~ent => Fresh(st) \/ g = "INIT")
  /\ pc = "switch" => prev = st /\ (~ent => Fresh(st) \/ g = "INIT")
  /\ pc \notin {"top", "guard", "switch"} => prev = st /\ (Fresh(st) \/ g = "INIT")
  /\ GuardedScreens

-----------------------------------------------------------------------------
(* What every step of a screen does: it stays on the screen or ends the     *)
(* pass, only then with a new g_state, and that is not a login screen.      *)

ScreenStep ==
  /\ pc \notin {"top", "guard"} /\ pc' \notin {"guard", "switch"}
  /\ UNCHANGED <<st, prev, gen>>
  /\ screenGen' \in {screenGen, gen}
  /\ pc = "switch" /\ ent => screenGen' = gen \/ st \notin Login
  /\ g' = g \/ (g' \notin Login /\ pc' = "top")

USE DEF Login

LEMMA FirstMeetScreen == FirstMeet => ScreenStep
<1> USE DEF ScreenStep, FmFrame, sesVars, appVars, Goto, EndPass, Leave, Entering, Running
<1>1. CASE FmEnter   BY <1>1 DEF FmEnter
<1>2. CASE FmPrompt  BY <1>2 DEF FmPrompt
<1>3. CASE FmPoll    BY <1>3 DEF FmPoll
<1>4. CASE FmFirst   BY <1>4 DEF FmFirst
<1>5. CASE FmConfirm BY <1>5 DEF FmConfirm
<1>6. CASE FmDone    BY <1>6 DEF FmDone
<1> QED BY <1>1, <1>2, <1>3, <1>4, <1>5, <1>6 DEF FirstMeet

LEMMA MkAuthScreen == MkAuth => ScreenStep
<1> USE DEF ScreenStep, MaFrame, sesVars, appVars, Goto, EndPass, Leave, Entering, Running
<1>1. CASE MaEnter  BY <1>1 DEF MaEnter
<1>2. CASE MaPrompt BY <1>2 DEF MaPrompt
<1>3. CASE MaPoll   BY <1>3 DEF MaPoll
<1>4. CASE MaCheck  BY <1>4 DEF MaCheck
<1>5. CASE MaDone   BY <1>5 DEF MaDone
<1> QED BY <1>1, <1>2, <1>3, <1>4, <1>5 DEF MkAuth

LEMMA ChangeMkScreen == ChangeMk => ScreenStep
<1> USE DEF ScreenStep, CmFrame, sesVars, appVars, Goto, EndPass, Leave, Entering, Running
<1>1. CASE CmEnter   BY <1>1 DEF CmEnter
<1>2. CASE CmPrompt  BY <1>2 DEF CmPrompt
<1>3. CASE CmPoll    BY <1>3 DEF CmPoll
<1>4. CASE CmNew     BY <1>4 DEF CmNew
<1>5. CASE CmConfirm BY <1>5 DEF CmConfirm
<1>6. CASE CmLoaded  BY <1>6 DEF CmLoaded
<1>7. CASE CmDone    BY <1>7 DEF CmDone
<1> QED BY <1>1, <1>2, <1>3, <1>4, <1>5, <1>6, <1>7 DEF ChangeMk

LEMMA RetrieveScreen == Retrieve => ScreenStep
<1> USE DEF ScreenStep, RtFrame, sesVars, appVars, Goto, EndPass, Leave, Entering, Running
<1>1. CASE RtEnter  BY <1>1 DEF RtEnter
<1>2. CASE RtLoaded BY <1>2 DEF RtLoaded
<1>3. CASE RtShow   BY <1>3 DEF RtShow
<1>4. CASE RtPoll   BY <1>4 DEF RtPoll
<1>5. CASE RtLine   BY <1>5 DEF RtLine
<1> QED BY <1>1, <1>2, <1>3, <1>4, <1>5 DEF Retrieve

LEMMA GenerateScreen == Generate => ScreenStep
<1> USE DEF ScreenStep, GnFrame, sesVars, appVars, Goto, EndPass, Leave, Entering, Running,
            MayRun
<1>1. CASE GnEnter    BY <1>1 DEF GnEnter
<1>2. CASE GnLoaded   BY <1>2 DEF GnLoaded
<1>3. CASE GnRefuse   BY <1>3 DEF GnRefuse
<1>4. CASE GnPrompt   BY <1>4 DEF GnPrompt
<1>5. CASE GnPoll     BY <1>5 DEF GnPoll
<1>6. CASE GnLine     BY <1>6 DEF GnLine
<1>7. CASE GnSample   BY <1>7 DEF GnSample
<1>8. CASE GnSave     BY <1>8 DEF GnSave
<1>9. CASE SaveEntry  BY <1>9 DEF SaveEntry
<1>10. CASE GnCommit  BY <1>10 DEF GnCommit
<1>11. CASE GnWrite   BY <1>11 DEF GnWrite
<1>12. CASE GnVerify  BY <1>12 DEF GnVerify
<1>13. CASE GnReport  BY <1>13 DEF GnReport
<1>14. CASE GnPrint   BY <1>14 DEF GnPrint
<1>15. CASE GnEnd     BY <1>15 DEF GnEnd
<1> QED
  BY <1>1, <1>2, <1>3, <1>4, <1>5, <1>6, <1>7, <1>8, <1>9, <1>10, <1>11, <1>12,
     <1>13, <1>14, <1>15 DEF Generate

LEMMA SessionScreen == Authenticate \/ SetNewKey \/ LoadTable => ScreenStep
<1> USE DEF ScreenStep, SnFrame, sesVars, appVars, Goto, OpenIfCurrent
<1>1. CASE Authenticate
  BY <1>1 DEF Authenticate, AuStart, AuDerive, AuOpen
<1>2. CASE SnPolicy \/ SnSalt \/ SnGen \/ SnKdf \/ SnDerive
  BY <1>2 DEF SnPolicy, SnSalt, SnGen, SnKdf, SnDerive
<1>3. CASE SnCheck \/ SnCommit \/ SnWrite \/ SnVerify \/ SnOpen
  BY <1>3 DEF SnCheck, SnCommit, SnWrite, SnVerify, SnOpen
<1>4. CASE LoadTable
  BY <1>4 DEF LoadTable, LdKey, LdRead
<1> QED BY <1>1, <1>2, <1>3, <1>4 DEF SetNewKey

\* the steps of App_Run that are the end of a pass in the menu or in a mode
LEMMA AppScreen == MenuPoll \/ MenuPick \/ LeaveMode => ScreenStep
<1> USE DEF ScreenStep, AppFrame, sesVars, appVars, Goto, EndPass
<1>1. CASE MenuPoll  BY <1>1 DEF MenuPoll
<1>2. CASE MenuPick  BY <1>2 DEF MenuPick
<1>3. CASE LeaveMode BY <1>3 DEF LeaveMode
<1> QED BY <1>1, <1>2, <1>3

-----------------------------------------------------------------------------
(* The invariant.                                                           *)

USE DEF ScreenInv, Fresh, GuardedScreens, StateNeedsSession

LEMMA ScreenInit == Init => ScreenInv
BY DEF Init

LEMMA ScreenStepInv == ScreenInv /\ ScreenStep => ScreenInv'
BY DEF ScreenStep

\* the steps of App_Run that choose the screen of a pass
LEMMA AppScreenInv == ScreenInv /\ App => ScreenInv'
<1> SUFFICES ASSUME ScreenInv, App PROVE ScreenInv'
  OBVIOUS
<1> USE DEF AppFrame, sesVars, Goto, EndPass
<1>1. CASE ReadState
  BY <1>1 DEF ReadState
<1>2. CASE Guard
  BY <1>2 DEF Guard
<1>3. CASE HandleInit
  BY <1>3 DEF HandleInit
<1>4. CASE MenuPoll \/ MenuPick \/ LeaveMode
  BY <1>4, AppScreen, ScreenStepInv
<1> QED BY <1>1, <1>2, <1>3, <1>4 DEF App

\* the panic interrupt makes a screen stale, and sends the loop to INIT
LEMMA EnvironmentScreenInv ==
  ScreenInv /\ (Type \/ Panic \/ PowerLoss \/ UNCHANGED vars) => ScreenInv'
<1> SUFFICES ASSUME ScreenInv, Type \/ Panic \/ PowerLoss \/ UNCHANGED vars PROVE ScreenInv'
  OBVIOUS
<1>1. CASE Type
  BY <1>1 DEF Type, appVars, sesVars
<1>2. CASE Panic
  BY <1>2 DEF Panic, WipeOnPanic
<1>3. CASE PowerLoss
  BY <1>3 DEF PowerLoss
<1>4. CASE UNCHANGED vars
  BY <1>4 DEF vars, appVars, sesVars
<1> QED BY <1>1, <1>2, <1>3, <1>4

LEMMA ScreenNext == ScreenInv /\ [Next]_vars => ScreenInv'
<1> SUFFICES ASSUME ScreenInv, [Next]_vars PROVE ScreenInv'
  OBVIOUS
<1>1. CASE App
  BY <1>1, AppScreenInv
<1>2. CASE FirstMeet \/ MkAuth \/ ChangeMk \/ Retrieve \/ Generate
  BY <1>2, FirstMeetScreen, MkAuthScreen, ChangeMkScreen, RetrieveScreen, GenerateScreen,
     ScreenStepInv
<1>3. CASE Authenticate \/ SetNewKey \/ LoadTable
  BY <1>3, SessionScreen, ScreenStepInv
<1>4. CASE Type \/ Panic \/ PowerLoss \/ UNCHANGED vars
  BY <1>4, EnvironmentScreenInv
<1> QED BY <1>1, <1>2, <1>3, <1>4 DEF Next, Main

LEMMA ScreenInvariant == Spec => []ScreenInv
BY ScreenInit, ScreenNext, PTL DEF Spec

\* No screen past the login screens starts a pass without a session, however
\* the loop's writes of g_state and those of the panic interrupt interleave.
THEOREM ScreensAreGuarded == Spec => []GuardedScreens
<1>1. ScreenInv => GuardedScreens
  OBVIOUS
<1> QED BY <1>1, ScreenInvariant, PTL

\* A login screen that goes on waiting for a line was entered after the last
\* panic, or the next pass leaves it: nothing typed before a panic stays.
THEOREM LoginScreensAreFresh == Spec => []LoginScreenIsFresh
<1>1. ScreenInv => LoginScreenIsFresh
  BY DEF LoginScreenIsFresh
<1> QED BY <1>1, ScreenInvariant, PTL

-----------------------------------------------------------------------------
(***************************************************************************)
(* What happens to the tables, the keys being typed and the generated      *)
(* password on their way through RAM, while the panic interrupt wipes them *)
(* under the code that uses them.                                          *)
(***************************************************************************)

(* The inductive invariant.                                                 *)

\* the pass of a mode that its Enter function has begun, or the loop between
\* two passes of it
On(s) == \/ pc = "top" /\ g = s /\ prev = s
         \/ pc \in {"guard", "switch"} /\ st = s /\ ~ent
         \/ pc \notin {"top", "guard", "switch", "leave"} /\ st = s

Deriving == {"snGen", "snKdf", "snDerive", "snCheck", "snCommit"}
Storing  == {"snWrite", "snVerify", "snOpen", "snDone"}
Saving   == {"gnCommit", "gnWrite", "gnVerify"}

\* each function is called in the states that call it
Places ==
  /\ pc = "menu" => st = "MODE_SELECTION"
  /\ pc \in {"fmPrompted", "fmFirst", "fmKept", "fmConfirm"} => st = "FIRST_MEET"
  /\ pc \in {"maPrompted", "maCheck", "auStart", "auDerive", "auOpen", "auDone"} => st = "MK_AUTH"
  /\ pc \in {"cmPrompted", "cmNew", "cmKept", "cmConfirm"} => st = "CHANGE_MK"
  /\ pc = "rtLine" => st = "RETRIEVE"
  /\ pc \in {"gnLine", "gnSave", "gnReport", "gnPrint", "gnEnd"} \cup Saving => st = "GENERATE"
  /\ pc \in {"ldKey", "ldRead", "ldDone"} => st \in {"RETRIEVE", "GENERATE", "CHANGE_MK"}
  /\ pc \in {"snPolicy", "snSalt"} \cup Deriving \cup Storing => st \in {"FIRST_MEET", "CHANGE_MK"}
  /\ pc = "run" => st \in {"FIRST_MEET", "MK_AUTH", "RETRIEVE", "GENERATE", "CHANGE_MK"}

\* within a pass only the panic interrupt writes g_state
Passes == pc # "top" => g \in {st, "INIT"}

\* a session is open only past the login screens, or when one of them is about
\* to be left
Locked ==
  authd => /\ pc \notin {"auDone", "snDone", "leave"} => StateNeedsSession(g)
           /\ pc \notin {"top", "auDone", "snDone", "leave"} => StateNeedsSession(st)
           /\ pc \in {"auDone", "snDone"} /\ st \in Login => result = "ok"
           /\ pc = "ldRead" => derived = skey
           /\ pc = "ldDone" => result = "ok"

\* which login screen, and a derivation that a panic has cut off
Setup ==
  /\ g = "MK_AUTH" \/ (pc # "top" /\ st = "MK_AUTH") => cell # None
  /\ pc = "top" /\ g = "FIRST_MEET" => cell = None
  /\ pc # "top" /\ st = "FIRST_MEET" => \/ cell = None
                                        \/ pc = "snVerify" /\ applied
                                        \/ pc = "snOpen"
                                        \/ pc = "snDone" /\ (result = "ok" \/ g = "INIT")
                                        \/ pc = "leave"
  /\ pc \in (Deriving \cup Storing) \ {"snGen", "snDone"} /\ gen # opgen => g = "INIT"
  /\ pc = "ldDone" /\ result = "ok" => cell # None
  /\ st = "CHANGE_MK" /\ pc \in {"snPolicy", "snSalt"} \cup Deriving \cup Storing => cell # None

\* the buffers of a mode are clean when its screen is not shown
Cleaned ==
  /\ fm.first # None => cell = None \/ (st = "FIRST_MEET" /\ pc \in Storing)
  /\ cm.work # EmptyTable =>
       st = "CHANGE_MK" /\ pc \in {"ldDone", "snPolicy", "snSalt"} \cup Deriving \cup Storing
  /\ gn.table # EmptyTable \/ gn.pwd # None =>
       /\ On("GENERATE") /\ pc \notin {"ldKey", "ldRead"}
       /\ authd \/ (gn.wiped /\ pc \in {"ldDone", "run", "gnEnd"})
  /\ pc = "ldRead" /\ st = "GENERATE" => authd \/ gn.wiped

\* what GENERATE works on, unless a panic has wiped it
Asked ==
  /\ gn.sub \notin {"promptId", "waitId"} => gn.id \in Ids
  /\ pc \in {"gnSave", "gnReport", "gnPrint"} \cup Saving => gn.sub = "save"
  /\ pc = "gnSave" => gn.loaded
  /\ pc = "gnLine" => gn.sub \in LineWaits
  /\ pc = "ldDone" /\ st = "GENERATE" /\ result = "ok" /\ ~gn.wiped =>
       authd /\ cell # None /\ gn.table = cell.table
  /\ On("GENERATE") /\ pc \notin {"ldKey", "ldRead", "ldDone"} /\ ~gn.wiped =>
       /\ gn.loaded /\ pc \in {"top", "guard", "switch", "run", "gnLine", "gnSave"} =>
            authd /\ cell # None /\ gn.table = cell.table
       /\ gn.sub = "save" /\ pc # "gnEnd" => gn.pwd \in Passwords

\* the commit of a save, and what is printed after it
Saved ==
  /\ pc \in Saving => ~gn.wiped /\ cell # None
  /\ pc = "gnCommit" => gn.table = [cell.table EXCEPT ![gn.id] = gn.pwd]
  /\ pc = "gnWrite" => ~applied /\ pending.table = [cell.table EXCEPT ![gn.id] = gn.pwd]
  /\ pc = "gnVerify" => (applied => cell.table[gn.id] = gn.pwd)
  /\ pc = "gnReport" /\ result = "ok" /\ ~gn.wiped => cell.table[gn.id] = gn.pwd
  /\ PrintedIsSaved

\* the commit of a new key, unless a panic came since its screen was entered
Typed ==
  /\ screenGen <= gen
  /\ screenGen = gen =>
       /\ /\ On("FIRST_MEET")
          /\ \/ fm.sub = "waitConfirm"
             \/ pc \in {"fmKept", "fmConfirm", "snPolicy", "snSalt"} \cup Deriving
          => fm.first \in MasterKeys
       /\ /\ On("CHANGE_MK")
          /\ \/ cm.sub = "waitConfirm"
             \/ pc \in {"cmKept", "cmConfirm", "ldKey", "ldRead", "ldDone"}
             \/ pc \in {"snPolicy", "snSalt"} \cup Deriving
          => cm.new \in MasterKeys
       /\ /\ st = "CHANGE_MK"
          /\ \/ pc = "ldDone" /\ result = "ok"
             \/ pc \in {"snPolicy", "snSalt", "snWrite"} \cup Deriving
          => cm.work = cell.table
       /\ pc \in {"snDerive", "snCheck", "snCommit"} => derived.mk \in MasterKeys
       /\ pc = "snWrite" => /\ pending.key.mk \in MasterKeys
                            /\ pending.table = IF cell = None THEN EmptyTable ELSE cell.table

\* a derivation that goes on has a key, and so has an open session
Keyed ==
  /\ authd => skey \in DerivedKeys
  /\ \/ pc \in {"auDerive", "auOpen", "ldRead", "gnCommit"}
     \/ pc \in Deriving \cup {"snWrite", "snVerify", "snOpen"}
     => derived \in DerivedKeys

TableInv == Places /\ Passes /\ Keyed /\ Locked /\ Setup /\ Cleaned /\ Asked /\ Saved /\ Typed

\* From ScreenInv: prev is the state of the running pass
Previous == pc \notin {"top", "guard"} => prev = st

-----------------------------------------------------------------------------
(* Each part is kept by every step.  The actions are expanded everywhere;   *)
(* the parts of the invariant only where they are named.                    *)

USE DEF Goto, EndPass, Leave, Entering, Running, sesVars, callVars, appVars, modeVars, storeVars,
        TakeLine, MkPolicyOk,
        Store!Return, Store!Request, Store!Persist, Store!Answer, Store!Load, Store!PowerLoss,
        OpenIfCurrent, MkBuffer, TableBuffer,
        FmEnter, FmPrompt, FmPoll, FmFirst, FmConfirm, FmDone, FmFrame, FmWiped, FmMatch,
        MaEnter, MaPrompt, MaPoll, MaCheck, MaDone, MaFrame,
        CmEnter, CmPrompt, CmPoll, CmNew, CmConfirm, CmLoaded, CmDone, CmFrame, CmWiped, CmMatch,
        RtEnter, RtLoaded, RtShow, RtPoll, RtLine, RtFrame,
        GnEnter, GnLoaded, GnRefuse, GnPrompt, GnPoll, GnLine, GnSample, GnSave, SaveEntry,
        GnCommit, GnWrite, GnVerify, GnReport, GnPrint, GnEnd, GnFrame, GnClear, MayRun, Prompts,
        LineWaits, Sampling, Quits, NextSub,
        ReadState, Guard, HandleInit, MenuPoll, MenuPick, LeaveMode, AppFrame,
        AuStart, AuDerive, AuOpen,
        SnPolicy, SnSalt, SnGen, SnKdf, SnDerive, SnCheck, SnCommit, SnWrite, SnVerify, SnOpen,
        SnFrame,
        LdKey, LdRead,
        Type, Panic, PowerLoss, WipeOnPanic, Masked, RtWiped, GnReset

\* the places of the code and the states of App_Run
LEMMA NextLoopTypes ==
  ASSUME TypeOK, SessionInv, Previous, TableInv, [Next]_vars
  PROVE  LoopTypes'
<1> USE DEF LoopTypes, Labels, AppStates
<1>0. LoopTypes /\ LineTypes /\ KeyTypes /\ CountTypes /\ ModeTypes /\ Store!TypeOK
      /\ Places /\ Passes /\ Keyed /\ Locked /\ Setup /\ Cleaned /\ Asked /\ Saved /\ Typed
  BY DEF TableInv, TypeOK
<1>1. CASE FirstMeet
  <2>1. CASE FmEnter \/ FmPrompt \/ FmPoll \/ FmFirst \/ FmDone
    BY <1>0, <2>1
  <2>2. CASE FmConfirm
    <3> HIDE DEF FmMatch
    <3> QED BY <1>0, <2>2
  <2> QED BY <1>1, <2>1, <2>2 DEF FirstMeet
<1>2. CASE MkAuth
  BY <1>0, <1>2 DEF MkAuth
<1>3. CASE ChangeMk
  <2>1. CASE CmEnter \/ CmPrompt \/ CmPoll \/ CmNew \/ CmLoaded \/ CmDone
    BY <1>0, <2>1
  <2>2. CASE CmConfirm
    <3> HIDE DEF CmMatch
    <3> QED BY <1>0, <2>2
  <2> QED BY <1>3, <2>1, <2>2 DEF ChangeMk
<1>4. CASE Retrieve
  BY <1>0, <1>4 DEF Retrieve
<1>5. CASE Generate
  <2>1. CASE GnEnter \/ GnLoaded \/ GnRefuse \/ GnPrompt \/ GnPoll \/ GnSample \/ GnSave
             \/ SaveEntry \/ GnCommit \/ GnWrite \/ GnVerify \/ GnReport \/ GnPrint \/ GnEnd
    BY ZenonT(40), <1>0, <2>1
  <2>2. CASE GnLine
    <3> HIDE DEF NextSub, Quits
    <3> QED BY <1>0, <2>2
  <2> QED BY <1>5, <2>1, <2>2 DEF Generate
<1>6. CASE App
  <2>1. CASE ReadState \/ Guard \/ HandleInit
    BY ZenonT(40), <1>0, <2>1
  <2>2. CASE MenuPoll \/ MenuPick \/ LeaveMode
    BY <1>0, <2>2
  <2> QED BY <1>6, <2>1, <2>2 DEF App
<1>7. CASE Authenticate
  BY <1>0, <1>7 DEF Authenticate
<1>8. CASE SetNewKey
  BY <1>0, <1>8 DEF SetNewKey
<1>9. CASE LoadTable
  BY <1>0, <1>9 DEF LoadTable
<1>10. CASE Type \/ Panic \/ PowerLoss \/ UNCHANGED vars
  BY ZenonT(40), <1>0, <1>10 DEF vars
<1> QED BY <1>1, <1>2, <1>3, <1>4, <1>5, <1>6, <1>7, <1>8, <1>9, <1>10 DEF Next, Main

\* lines are lines, typed or taken
LEMMA NextLineTypes ==
  ASSUME TypeOK, SessionInv, Previous, TableInv, [Next]_vars
  PROVE  LineTypes'
<1> USE DEF LineTypes
<1>0. LoopTypes /\ LineTypes /\ KeyTypes /\ CountTypes /\ ModeTypes /\ Store!TypeOK
      /\ Places /\ Passes /\ Keyed /\ Locked /\ Setup /\ Cleaned /\ Asked /\ Saved /\ Typed
  BY DEF TableInv, TypeOK
<1>1. CASE FirstMeet
  BY <1>0, <1>1 DEF FirstMeet
<1>2. CASE MkAuth
  BY <1>0, <1>2 DEF MkAuth
<1>3. CASE ChangeMk
  BY <1>0, <1>3 DEF ChangeMk
<1>4. CASE Retrieve
  BY <1>0, <1>4 DEF Retrieve
<1>5. CASE Generate
  BY <1>0, <1>5 DEF Generate
<1>6. CASE App
  BY <1>0, <1>6 DEF App
<1>7. CASE Authenticate
  BY <1>0, <1>7 DEF Authenticate
<1>8. CASE SetNewKey
  BY <1>0, <1>8 DEF SetNewKey
<1>9. CASE LoadTable
  BY <1>0, <1>9 DEF LoadTable
<1>10. CASE Type \/ Panic \/ PowerLoss \/ UNCHANGED vars
  BY <1>0, <1>10 DEF vars
<1> QED BY <1>1, <1>2, <1>3, <1>4, <1>5, <1>6, <1>7, <1>8, <1>9, <1>10 DEF Next, Main

\* keys of a session and of an operation, and its result
LEMMA NextKeyTypes ==
  ASSUME TypeOK, SessionInv, Previous, TableInv, [Next]_vars
  PROVE  KeyTypes'
<1> USE DEF KeyTypes, Results, Deriving
<1>0. LoopTypes /\ LineTypes /\ KeyTypes /\ CountTypes /\ ModeTypes /\ Store!TypeOK
      /\ Places /\ Passes /\ Keyed /\ Locked /\ Setup /\ Cleaned /\ Asked /\ Saved /\ Typed
  BY DEF TableInv, TypeOK
<1>1. CASE FirstMeet
  BY <1>0, <1>1 DEF FirstMeet
<1>2. CASE MkAuth
  BY <1>0, <1>2 DEF MkAuth
<1>3. CASE ChangeMk
  BY <1>0, <1>3 DEF ChangeMk
<1>4. CASE Retrieve
  BY <1>0, <1>4 DEF Retrieve
<1>5. CASE Generate
  BY <1>0, <1>5 DEF Generate
<1>6. CASE App
  BY <1>0, <1>6 DEF App
<1>7. CASE Authenticate
  <2>1. CASE AuDerive \/ AuOpen
    BY <1>0, <2>1
  <2>2. CASE AuStart
    <3>1. cell # None => cell.key.salt \in Salts
      BY <1>0 DEF Store!TypeOK, Store!Contents, DerivedKeys
    <3>2. ASSUME pc' = "auDerive" PROVE derived' \in DerivedKeys
      BY <2>2, <3>1, <3>2 DEF DerivedKeys
    <3>3. pc' = "auDerive" \/ (derived' = derived /\ result' \in {"wrong", "noPartition"})
      BY <2>2
    <3> QED BY <1>0, <2>2, <3>2, <3>3
  <2> QED BY <1>7, <2>1, <2>2 DEF Authenticate
<1>8. CASE SetNewKey
  <2>1. CASE SnPolicy \/ SnGen \/ SnDerive \/ SnCheck \/ SnCommit \/ SnWrite \/ SnVerify \/ SnOpen
    BY <1>0, <2>1
  <2>2. CASE SnSalt
    <3>1. derived' \in DerivedKeys
      BY <2>2 DEF DerivedKeys
    <3> QED BY <1>0, <2>2, <3>1
  <2>3. CASE SnKdf
    <3>1. derived' \in DerivedKeys
      BY <1>0, <2>3 DEF DerivedKeys, Keyed
    <3> QED BY <1>0, <2>3, <3>1
  <2> QED BY <1>8, <2>1, <2>2, <2>3 DEF SetNewKey
<1>9. CASE LoadTable
  BY <1>0, <1>9 DEF LoadTable
<1>10. CASE Type \/ Panic \/ PowerLoss \/ UNCHANGED vars
  BY <1>0, <1>10 DEF vars
<1> QED BY <1>1, <1>2, <1>3, <1>4, <1>5, <1>6, <1>7, <1>8, <1>9, <1>10 DEF Next, Main

\* the counters of panics stay within the bound
LEMMA NextCountTypes ==
  ASSUME TypeOK, SessionInv, Previous, TableInv, [Next]_vars
  PROVE  CountTypes'
<1> USE DEF CountTypes
<1>0. LoopTypes /\ LineTypes /\ KeyTypes /\ CountTypes /\ ModeTypes /\ Store!TypeOK
      /\ Places /\ Passes /\ Keyed /\ Locked /\ Setup /\ Cleaned /\ Asked /\ Saved /\ Typed
  BY DEF TableInv, TypeOK
<1>1. CASE FirstMeet
  BY <1>0, <1>1 DEF FirstMeet
<1>2. CASE MkAuth
  BY <1>0, <1>2 DEF MkAuth
<1>3. CASE ChangeMk
  BY <1>0, <1>3 DEF ChangeMk
<1>4. CASE Retrieve
  BY <1>0, <1>4 DEF Retrieve
<1>5. CASE Generate
  BY <1>0, <1>5 DEF Generate
<1>6. CASE App
  BY <1>0, <1>6 DEF App
<1>7. CASE Authenticate
  BY <1>0, <1>7 DEF Authenticate
<1>8. CASE SetNewKey
  BY <1>0, <1>8 DEF SetNewKey
<1>9. CASE LoadTable
  BY <1>0, <1>9 DEF LoadTable
<1>10. CASE Type \/ Panic \/ PowerLoss \/ UNCHANGED vars
  <2>1. CASE Type \/ UNCHANGED vars
    BY <1>0, <2>1 DEF vars
  <2>2. CASE Panic
    BY <1>0, <2>2, MaxPanicsAssumption
  <2>3. CASE PowerLoss
    BY <1>0, <2>3, MaxPanicsAssumption
  <2> QED BY <1>10, <2>1, <2>2, <2>3
<1> QED BY <1>1, <1>2, <1>3, <1>4, <1>5, <1>6, <1>7, <1>8, <1>9, <1>10 DEF Next, Main

\* the statics of the five modes
LEMMA NextModeTypes ==
  ASSUME TypeOK, SessionInv, Previous, TableInv, [Next]_vars
  PROVE  ModeTypes'
<1> USE DEF ModeTypes, FmStates, CmStates, RtStates, GnStates, Tables, EmptyTable
<1>0. LoopTypes /\ LineTypes /\ KeyTypes /\ CountTypes /\ ModeTypes /\ Store!TypeOK
      /\ Places /\ Passes /\ Keyed /\ Locked /\ Setup /\ Cleaned /\ Asked /\ Saved /\ Typed
  BY DEF TableInv, TypeOK
<1>1. CASE FirstMeet
  <2>1. CASE FmEnter \/ FmPrompt \/ FmPoll \/ FmFirst \/ FmDone
    BY <1>0, <2>1
  <2>2. CASE FmConfirm
    <3> HIDE DEF FmMatch
    <3> QED BY <1>0, <2>2
  <2> QED BY <1>1, <2>1, <2>2 DEF FirstMeet
<1>2. CASE MkAuth
  BY <1>0, <1>2 DEF MkAuth
<1>3. CASE ChangeMk
  <2>1. CASE CmEnter \/ CmPrompt \/ CmPoll \/ CmNew \/ CmLoaded \/ CmDone
    BY <1>0, <2>1
  <2>2. CASE CmConfirm
    <3> HIDE DEF CmMatch
    <3> QED BY <1>0, <2>2
  <2> QED BY <1>3, <2>1, <2>2 DEF ChangeMk
<1>4. CASE Retrieve
  BY <1>0, <1>4 DEF Retrieve
<1>5. CASE Generate
  <2>1. CASE GnRefuse \/ GnPoll \/ GnSave \/ SaveEntry
    BY <1>0, <2>1
  <2>2. CASE GnCommit \/ GnWrite \/ GnVerify \/ GnReport
    BY <1>0, <2>2
  <2>3. CASE GnPrint
    BY <1>0, <2>3
  <2>4. CASE GnEnter
    BY <1>0, <2>4
  <2>5. CASE GnLoaded
    <3>1. (result = "ok") \in BOOLEAN
      OBVIOUS
    <3>2. PICK b \in BOOLEAN : b = (result = "ok")
      BY <3>1, Zenon
    <3>3. gn' = [gn EXCEPT !.loaded = b, !.sub = "promptId"]
      BY <2>5, <3>2
    <3>4. gn' \in GnStates
      BY <1>0, <3>3 DEF Prompts
    <3> QED BY <1>0, <2>5, <3>4
  <2>6. CASE GnPrompt
    BY <1>0, <2>6
  <2>7. CASE GnLine
    <3>1. PICK s \in {"promptId", "waitOverwrite", "promptName", "promptClasses",
                       "promptLength", "startRound"} :
            gn.sub \in LineWaits => s = NextSub
      BY <1>0, <2>7
    <3>2. PICK i \in Ids \cup {None} : i = IF gn.sub = "waitId" /\ line \in Ids THEN line ELSE gn.id
      BY <1>0
    <3>3. UNCHANGED gn \/ gn' = [gn EXCEPT !.sub = s, !.id = i]
      BY <1>0, <2>7, <3>1, <3>2 DEF Asked
    <3>4. gn' \in GnStates
      BY ZenonT(40), <1>0, <3>3
    <3> QED BY <1>0, <2>7, <3>4
  <2>8. CASE GnSample
    <3>1. \/ UNCHANGED gn
          \/ \E s \in {"waitTemp", "waitLight", "startRound"} : gn' = [gn EXCEPT !.sub = s]
          \/ \E p \in Passwords : gn' = [gn EXCEPT !.sub = "save", !.pwd = p]
      BY <2>8
    <3>2. gn' \in GnStates
      BY ZenonT(40), <1>0, <3>1
    <3> QED BY <1>0, <2>8, <3>2
  <2>9. CASE GnEnd
    BY <1>0, <2>9
  <2> QED BY <1>5, <2>1, <2>2, <2>3, <2>4, <2>5, <2>6, <2>7, <2>8, <2>9 DEF Generate
<1>6. CASE App
  BY <1>0, <1>6 DEF App
<1>7. CASE Authenticate
  BY <1>0, <1>7 DEF Authenticate
<1>8. CASE SetNewKey
  BY <1>0, <1>8 DEF SetNewKey
<1>9. CASE LoadTable
  <2>1. CASE LdKey
    BY <1>0, <2>1
  <2>2. CASE LdRead
    <3>1. PICK t \in Tables : t = IF loaded' # None THEN loaded' ELSE EmptyTable
      BY <1>0, <2>2 DEF Store!TypeOK, Store!Contents
    <3>2. /\ rt' = rt \/ rt' = [rt EXCEPT !.table = t]
          /\ gn' = gn \/ gn' = [gn EXCEPT !.table = t]
          /\ cm' = cm \/ cm' = [cm EXCEPT !.work = t]
      BY <2>2, <3>1
    <3> HIDE DEF Tables
    <3>3. rt' \in RtStates
      BY <1>0, <3>2
    <3>4. gn' \in GnStates
      BY <1>0, <3>2
    <3>5. cm' \in CmStates
      BY <1>0, <3>2
    <3> QED BY <1>0, <2>2, <3>3, <3>4, <3>5
  <2> QED BY <1>9, <2>1, <2>2 DEF LoadTable
<1>10. CASE Type \/ Panic \/ PowerLoss \/ UNCHANGED vars
  <2>1. CASE Type
    BY <1>0, <2>1
  <2>2. CASE Panic
    BY <1>0, <2>2
  <2>3. CASE PowerLoss
    BY <1>0, <2>3
  <2>4. CASE UNCHANGED vars
    BY <1>0, <2>4 DEF vars
  <2> QED BY <1>10, <2>1, <2>2, <2>3, <2>4
<1> QED BY <1>1, <1>2, <1>3, <1>4, <1>5, <1>6, <1>7, <1>8, <1>9, <1>10 DEF Next, Main

\* what is asked of the partition store is a content: a commit has a derived
\* key and a table
LEMMA NextStoreTypes ==
  ASSUME TypeOK, SessionInv, Previous, TableInv, [Next]_vars
  PROVE  Store!TypeOK'
<1> USE DEF Store!TypeOK, Store!Contents, Deriving
<1>0. LoopTypes /\ LineTypes /\ KeyTypes /\ CountTypes /\ ModeTypes /\ Store!TypeOK
      /\ Places /\ Passes /\ Keyed /\ Locked /\ Setup /\ Cleaned /\ Asked /\ Saved /\ Typed
  BY DEF TableInv, TypeOK
<1>1. CASE FirstMeet
  BY <1>0, <1>1 DEF FirstMeet
<1>2. CASE MkAuth
  BY <1>0, <1>2 DEF MkAuth
<1>3. CASE ChangeMk
  BY <1>0, <1>3 DEF ChangeMk
<1>4. CASE Retrieve
  BY <1>0, <1>4 DEF Retrieve
<1>5. CASE Generate
  <2>1. CASE GnEnter \/ GnLoaded \/ GnRefuse \/ GnPrompt \/ GnPoll \/ GnLine \/ GnSample \/ GnSave
             \/ SaveEntry \/ GnWrite \/ GnVerify \/ GnReport \/ GnPrint \/ GnEnd
    BY <1>0, <2>1
  <2>2. CASE GnCommit
    <3>1. derived \in DerivedKeys /\ gn.table \in Tables
      BY <1>0, <2>2 DEF Keyed, ModeTypes, GnStates
    <3> QED BY <1>0, <2>2, <3>1
  <2> QED BY <1>5, <2>1, <2>2 DEF Generate
<1>6. CASE App
  BY <1>0, <1>6 DEF App
<1>7. CASE Authenticate
  BY <1>0, <1>7 DEF Authenticate
<1>8. CASE SetNewKey
  <2>1. CASE SnPolicy \/ SnSalt \/ SnGen \/ SnKdf \/ SnDerive \/ SnCheck \/ SnWrite \/ SnVerify
             \/ SnOpen
    BY <1>0, <2>1
  <2>2. CASE SnCommit
    <3>1. derived \in DerivedKeys /\ TableBuffer \in Tables
      BY <1>0, <2>2 DEF Keyed, ModeTypes, CmStates, Tables, EmptyTable
    <3> HIDE DEF TableBuffer
    <3> QED BY <1>0, <2>2, <3>1
  <2> QED BY <1>8, <2>1, <2>2 DEF SetNewKey
<1>9. CASE LoadTable
  BY <1>0, <1>9 DEF LoadTable
<1>10. CASE Type \/ Panic \/ PowerLoss \/ UNCHANGED vars
  BY <1>0, <1>10 DEF vars
<1> QED BY <1>1, <1>2, <1>3, <1>4, <1>5, <1>6, <1>7, <1>8, <1>9, <1>10 DEF Next, Main

\* every call goes on in the state that made it
LEMMA NextPlaces ==
  ASSUME TypeOK, SessionInv, Previous, TableInv, [Next]_vars
  PROVE  Places'
<1> USE LinesAssumption DEF Places, Deriving, Storing, Saving
<1>0. Places /\ Passes /\ Keyed /\ Locked /\ Setup /\ Cleaned /\ Asked /\ Saved /\ Typed
  BY DEF TableInv, TypeOK
<1>1. CASE FirstMeet
  BY <1>0, <1>1 DEF FirstMeet
<1>2. CASE MkAuth
  BY <1>0, <1>2 DEF MkAuth
<1>3. CASE ChangeMk
  BY <1>0, <1>3 DEF ChangeMk
<1>4. CASE Retrieve
  BY <1>0, <1>4 DEF Retrieve
<1>5. CASE Generate
  BY <1>0, <1>5 DEF Generate
<1>6. CASE App
  BY <1>0, <1>6 DEF App
<1>7. CASE Authenticate
  BY <1>0, <1>7 DEF Authenticate
<1>8. CASE SetNewKey
  BY <1>0, <1>8 DEF SetNewKey
<1>9. CASE LoadTable
  BY <1>0, <1>9 DEF LoadTable
<1>10. CASE Type \/ Panic \/ PowerLoss \/ UNCHANGED vars
  BY <1>0, <1>10 DEF vars
<1> QED BY <1>1, <1>2, <1>3, <1>4, <1>5, <1>6, <1>7, <1>8, <1>9, <1>10 DEF Next, Main

\* g_state is written at the end of a pass
LEMMA NextPasses ==
  ASSUME TypeOK, SessionInv, Previous, TableInv, [Next]_vars
  PROVE  Passes'
<1> USE LinesAssumption DEF Passes
<1>0. Places /\ Passes /\ Keyed /\ Locked /\ Setup /\ Cleaned /\ Asked /\ Saved /\ Typed
  BY DEF TableInv, TypeOK
<1>1. CASE FirstMeet
  BY <1>0, <1>1 DEF FirstMeet
<1>2. CASE MkAuth
  BY <1>0, <1>2 DEF MkAuth
<1>3. CASE ChangeMk
  BY <1>0, <1>3 DEF ChangeMk
<1>4. CASE Retrieve
  BY <1>0, <1>4 DEF Retrieve
<1>5. CASE Generate
  BY <1>0, <1>5 DEF Generate
<1>6. CASE App
  BY <1>0, <1>6 DEF App
<1>7. CASE Authenticate
  BY <1>0, <1>7 DEF Authenticate
<1>8. CASE SetNewKey
  BY <1>0, <1>8 DEF SetNewKey
<1>9. CASE LoadTable
  BY <1>0, <1>9 DEF LoadTable
<1>10. CASE Type \/ Panic \/ PowerLoss \/ UNCHANGED vars
  BY <1>0, <1>10 DEF vars
<1> QED BY <1>1, <1>2, <1>3, <1>4, <1>5, <1>6, <1>7, <1>8, <1>9, <1>10 DEF Next, Main

\* nothing is opened or sealed before its key is derived
LEMMA NextKeyed ==
  ASSUME TypeOK, SessionInv, Previous, TableInv, [Next]_vars
  PROVE  Keyed'
<1> USE LinesAssumption DEF Keyed, Places, Deriving, Storing, Saving
<1>0. Places /\ Passes /\ Keyed /\ Locked /\ Setup /\ Cleaned /\ Asked /\ Saved /\ Typed
  BY DEF TableInv, TypeOK
<1>1. CASE FirstMeet
  BY <1>0, <1>1 DEF FirstMeet
<1>2. CASE MkAuth
  BY <1>0, <1>2 DEF MkAuth
<1>3. CASE ChangeMk
  BY <1>0, <1>3 DEF ChangeMk
<1>4. CASE Retrieve
  BY <1>0, <1>4 DEF Retrieve
<1>5. CASE Generate
  <2>1. CASE GnEnter \/ GnLoaded \/ GnRefuse \/ GnPrompt \/ GnPoll
    BY <1>0, <2>1
  <2>2. CASE GnSave \/ GnCommit \/ GnWrite \/ GnVerify \/ GnReport
    BY <1>0, <2>2
  <2>3. CASE GnPrint \/ GnEnd
    BY <1>0, <2>3
  <2>4. CASE GnLine
    BY <1>0, <2>4
  <2>5. CASE GnSample
    BY <1>0, <2>5
  <2>6. CASE SaveEntry
    BY <1>0, <2>6
  <2> QED BY <1>5, <2>1, <2>2, <2>3, <2>4, <2>5, <2>6 DEF Generate
<1>6. CASE App
  BY <1>0, <1>6 DEF App
<1>7. CASE Authenticate
  <2>1. CASE AuDerive \/ AuOpen
    BY <1>0, <2>1
  <2>2. CASE AuStart
    <3>1. cell # None => cell.key.salt \in Salts
      BY DEF TypeOK, Store!TypeOK, Store!Contents, DerivedKeys
    <3>2. CASE pc' = "auDone"
      BY <1>0, <2>2, <3>2
    <3>3. CASE pc' = "auDerive"
      <4>1. derived' \in DerivedKeys
        BY <2>2, <3>1, <3>3 DEF DerivedKeys
      <4> QED BY <1>0, <2>2, <3>3, <4>1
    <3> QED BY <2>2, <3>2, <3>3
  <2> QED BY <1>7, <2>1, <2>2 DEF Authenticate
<1>8. CASE SetNewKey
  <2>1. CASE SnPolicy \/ SnGen \/ SnDerive \/ SnCheck \/ SnCommit \/ SnWrite \/ SnVerify \/ SnOpen
    BY <1>0, <2>1
  <2>2. CASE SnSalt
    BY <1>0, <2>2 DEF DerivedKeys
  <2>3. CASE SnKdf
    BY <1>0, <2>3 DEF DerivedKeys
  <2> QED BY <1>8, <2>1, <2>2, <2>3 DEF SetNewKey
<1>9. CASE LoadTable
  BY <1>0, <1>9 DEF LoadTable
<1>10. CASE Type \/ Panic \/ PowerLoss \/ UNCHANGED vars
  BY <1>0, <1>10 DEF vars
<1> QED BY <1>1, <1>2, <1>3, <1>4, <1>5, <1>6, <1>7, <1>8, <1>9, <1>10 DEF Next, Main

\* a session opens only where its screen is then left
LEMMA NextLocked ==
  ASSUME TypeOK, SessionInv, Previous, TableInv, [Next]_vars
  PROVE  Locked'
<1> USE LinesAssumption DEF Locked, Places, Passes, StateNeedsSession, Login, Deriving, Storing,
Saving
<1>0. Places /\ Passes /\ Keyed /\ Locked /\ Setup /\ Cleaned /\ Asked /\ Saved /\ Typed
  BY DEF TableInv, TypeOK
<1>1. CASE FirstMeet
  BY <1>0, <1>1 DEF FirstMeet
<1>2. CASE MkAuth
  BY <1>0, <1>2 DEF MkAuth
<1>3. CASE ChangeMk
  BY <1>0, <1>3 DEF ChangeMk
<1>4. CASE Retrieve
  BY <1>0, <1>4 DEF Retrieve
<1>5. CASE Generate
  BY ZenonT(40), <1>0, <1>5 DEF Generate
<1>6. CASE App
  BY <1>0, <1>6 DEF App
<1>7. CASE Authenticate
  BY <1>0, <1>7 DEF Authenticate
<1>8. CASE SetNewKey
  BY <1>0, <1>8 DEF SetNewKey
<1>9. CASE LoadTable
  <2>1. CASE LdKey
    BY <1>0, <2>1
  <2>2. CASE LdRead
    <3>1. authd => cell # None /\ skey = cell.key
      BY <2>2 DEF SessionInv, OpenKey
    <3>2. cell # None => cell.table # None
      BY NoTableAssumption DEF TypeOK, Store!TypeOK, Store!Contents
    <3> QED BY <1>0, <2>2, <3>1, <3>2
  <2> QED BY <1>9, <2>1, <2>2 DEF LoadTable
<1>10. CASE Type \/ Panic \/ PowerLoss \/ UNCHANGED vars
  BY <1>0, <1>10 DEF vars
<1> QED BY <1>1, <1>2, <1>3, <1>4, <1>5, <1>6, <1>7, <1>8, <1>9, <1>10 DEF Next, Main

\* FIRST_MEET runs until there is a partition, and no longer
LEMMA NextSetup ==
  ASSUME TypeOK, SessionInv, Previous, TableInv, [Next]_vars
  PROVE  Setup'
<1> USE LinesAssumption DEF Setup, Places, Passes, Deriving, Storing, Saving, SessionInv
<1>0. Places /\ Passes /\ Keyed /\ Locked /\ Setup /\ Cleaned /\ Asked /\ Saved /\ Typed
  BY DEF TableInv, TypeOK
<1>1. CASE FirstMeet
  BY <1>0, <1>1 DEF FirstMeet
<1>2. CASE MkAuth
  BY <1>0, <1>2 DEF MkAuth
<1>3. CASE ChangeMk
  BY <1>0, <1>3 DEF ChangeMk
<1>4. CASE Retrieve
  BY <1>0, <1>4 DEF Retrieve
<1>5. CASE Generate
  BY <1>0, <1>5 DEF Generate
<1>6. CASE App
  BY <1>0, <1>6 DEF App
<1>7. CASE Authenticate
  BY <1>0, <1>7 DEF Authenticate
<1>8. CASE SetNewKey
  BY <1>0, <1>8 DEF SetNewKey
<1>9. CASE LoadTable
  BY <1>0, <1>9 DEF LoadTable
<1>10. CASE Type \/ Panic \/ PowerLoss \/ UNCHANGED vars
  BY <1>0, <1>10 DEF vars
<1> QED BY <1>1, <1>2, <1>3, <1>4, <1>5, <1>6, <1>7, <1>8, <1>9, <1>10 DEF Next, Main

\* each mode wipes its buffers on every way out, or the interrupt did
LEMMA NextCleaned ==
  ASSUME TypeOK, SessionInv, Previous, TableInv, [Next]_vars
  PROVE  Cleaned'
<1> USE LinesAssumption DEF Cleaned, Places, On, Deriving, Storing, Saving, Previous
<1>0. Places /\ Passes /\ Keyed /\ Locked /\ Setup /\ Cleaned /\ Asked /\ Saved /\ Typed
  BY DEF TableInv, TypeOK
<1>types. fm \in FmStates /\ cm \in CmStates /\ gn \in GnStates /\ gen \in Nat
  BY MaxPanicsAssumption DEF TypeOK, ModeTypes, CountTypes
<1>1. CASE FirstMeet
  <2>1. CASE FmEnter \/ FmPoll \/ FmDone
    BY <1>0, <2>1
  <2>2. CASE FmPrompt
    BY <1>0, <1>types, <2>2 DEF FmStates, Lines, PlainLines
  <2>3. CASE FmFirst
    BY <1>0, <1>types, <2>3 DEF FmStates, Setup
  <2>4. CASE FmConfirm
    <3> HIDE DEF FmMatch
    <3> QED BY <1>0, <1>types, <2>4 DEF FmStates
  <2> QED BY <1>1, <2>1, <2>2, <2>3, <2>4 DEF FirstMeet
<1>2. CASE MkAuth
  BY <1>0, <1>2 DEF MkAuth
<1>3. CASE ChangeMk
  <2>1. CASE CmEnter \/ CmPoll \/ CmLoaded \/ CmDone
    BY <1>0, <2>1
  <2>2. CASE CmPrompt
    BY <1>0, <1>types, <2>2 DEF CmStates, Lines, PlainLines
  <2>3. CASE CmNew
    BY <1>0, <1>types, <2>3 DEF CmStates, Lines, PlainLines
  <2>4. CASE CmConfirm
    <3> HIDE DEF CmMatch
    <3> QED BY <1>0, <1>types, <2>4 DEF CmStates
  <2> QED BY <1>3, <2>1, <2>2, <2>3, <2>4 DEF ChangeMk
<1>4. CASE Retrieve
  BY <1>0, <1>4 DEF Retrieve
<1>5. CASE Generate
  <2>1. CASE GnRefuse \/ GnSave \/ GnCommit
    BY <1>0, <2>1
  <2>2. CASE GnVerify \/ GnReport \/ GnPrint
    BY <1>0, <2>2
  <2>3. CASE GnEnter
    BY <1>0, <2>3
  <2>4. CASE GnLoaded
    BY <1>0, <2>4
  <2>5. CASE GnPrompt
    <3> HIDE DEF NextSub, Quits
    <3> QED BY <1>0, <1>types, <2>5 DEF GnStates, Locked, Passes, StateNeedsSession
  <2>6. CASE GnPoll
    <3> HIDE DEF NextSub, Quits
    <3> QED BY <1>0, <1>types, <2>6 DEF GnStates, Locked, Passes, StateNeedsSession
  <2>7. CASE GnLine
    <3> HIDE DEF NextSub, Quits
    <3> QED BY <1>0, <1>types, <2>7 DEF GnStates, Locked, Passes, StateNeedsSession
  <2>8. CASE GnSample
    <3>1. authd /\ g = "GENERATE" /\ pc \in {"run", "switch"} /\ pc' \in {"top", "gnEnd"}
      BY <1>0, <2>8 DEF Locked, Passes, StateNeedsSession, Asked
    <3> QED BY <1>0, <2>8, <3>1
  <2>9. CASE SaveEntry
    <3>1. authd \/ (gn.table = EmptyTable /\ gn.pwd = None)
      BY <1>0, <2>9
    <3>2. gn'.pwd = gn.pwd /\ gn'.wiped = gn.wiped /\ (~authd => gn'.table = EmptyTable)
      BY <1>types, <2>9, <3>1 DEF GnStates, EmptyTable
    <3> QED BY <1>0, <2>9, <3>1, <3>2 DEF Locked
  <2>10. CASE GnWrite
    BY <1>0, <1>types, <2>10 DEF GnStates, Saved
  <2>11. CASE GnEnd
    BY <1>0, <2>11
  <2> QED BY <1>5, <2>1, <2>2, <2>3, <2>4, <2>5, <2>6, <2>7, <2>8, <2>9, <2>10, <2>11 DEF Generate
<1>6. CASE App
  <2>1. CASE HandleInit \/ MenuPoll
    BY <1>0, <2>1
  <2>2. CASE MenuPick \/ LeaveMode
    BY <1>0, <2>2
  <2>3. CASE ReadState
    BY <1>0, <2>3
  <2>4. CASE Guard
    BY <1>0, <2>4
  <2> QED BY <1>6, <2>1, <2>2, <2>3, <2>4 DEF App
<1>7. CASE Authenticate
  BY <1>0, <1>7 DEF Authenticate
<1>8. CASE SetNewKey
  <2>1. CASE SnPolicy \/ SnSalt \/ SnGen \/ SnKdf \/ SnDerive \/ SnCheck \/ SnCommit \/ SnVerify
             \/ SnOpen
    BY <1>0, <2>1
  <2>2. CASE SnWrite
    BY <1>0, <2>2 DEF Setup
  <2> QED BY <1>8, <2>1, <2>2 DEF SetNewKey
<1>9. CASE LoadTable
  <2>1. CASE LdKey
    BY <1>0, <2>1
  <2>2. CASE LdRead
    BY <1>0, <2>2
  <2> QED BY <1>9, <2>1, <2>2 DEF LoadTable
<1>10. CASE Type \/ Panic \/ PowerLoss \/ UNCHANGED vars
  <2>1. CASE Type
    BY <1>0, <2>1
  <2>2. CASE Panic
    BY <1>0, <2>2
  <2>3. CASE PowerLoss
    BY <1>0, <2>3
  <2>4. CASE UNCHANGED vars
    BY <1>0, <2>4 DEF vars
  <2> QED BY <1>10, <2>1, <2>2, <2>3, <2>4
<1> QED BY <1>1, <1>2, <1>3, <1>4, <1>5, <1>6, <1>7, <1>8, <1>9, <1>10 DEF Next, Main

\* between two lines of the user the table that GENERATE works on stays that
\* of the partition
LEMMA NextAsked ==
  ASSUME TypeOK, SessionInv, Previous, TableInv, [Next]_vars
  PROVE  Asked'
<1> USE LinesAssumption DEF Asked, Places, On, Saving, Deriving, Storing, Previous
<1>0. Places /\ Passes /\ Keyed /\ Locked /\ Setup /\ Cleaned /\ Asked /\ Saved /\ Typed
  BY DEF TableInv, TypeOK
<1>types. fm \in FmStates /\ cm \in CmStates /\ gn \in GnStates /\ gen \in Nat
  BY MaxPanicsAssumption DEF TypeOK, ModeTypes, CountTypes
<1>1. CASE FirstMeet
  BY <1>0, <1>1 DEF FirstMeet
<1>2. CASE MkAuth
  BY <1>0, <1>2 DEF MkAuth
<1>3. CASE ChangeMk
  BY <1>0, <1>3 DEF ChangeMk
<1>4. CASE Retrieve
  BY <1>0, <1>4 DEF Retrieve
<1>5. CASE Generate
  <2>1. CASE GnRefuse \/ GnPoll \/ GnSave \/ GnCommit
    BY <1>0, <2>1
  <2>2. CASE GnWrite \/ GnVerify \/ GnReport \/ GnPrint
    BY <1>0, <2>2
  <2>3. CASE GnEnter
    BY <1>0, <2>3
  <2>4. CASE GnLoaded
    BY <1>0, <1>types, <2>4 DEF GnStates
  <2>5. CASE GnPrompt
    BY <1>0, <2>5
  <2>6. CASE GnLine
    <3>1. PICK s, i : s = NextSub /\ i = IF gn.sub = "waitId" /\ line \in Ids THEN line ELSE gn.id
      OBVIOUS
    <3>2. s # "save"
          /\ \/ s \in {"promptId", "waitId"}
             \/ gn.sub = "waitId" /\ line \in Ids
             \/ gn.sub \notin {"promptId", "waitId"} /\ gn.id \in Ids
      BY <1>0, <2>6, <3>1
    <3>3. \/ UNCHANGED gn /\ pc' = "gnEnd"
          \/ gn' = [gn EXCEPT !.sub = s, !.id = i] /\ pc' = "top"
      BY <2>6, <3>1
    <3>4. CASE UNCHANGED gn /\ pc' = "gnEnd"
      <4> HIDE DEF NextSub, Quits
      <4> QED BY <1>0, <2>6, <3>4
    <3>5. CASE gn' = [gn EXCEPT !.sub = s, !.id = i] /\ pc' = "top"
      <4>1. /\ gn'.sub = s /\ gn'.id = i
            /\ gn'.table = gn.table /\ gn'.pwd = gn.pwd /\ gn'.loaded = gn.loaded /\ gn'.wiped = gn.wiped
        <5>1. PICK r \in GnStates : r = gn
          BY <1>types
        <5>2. PICK q : q = [r EXCEPT !.sub = s, !.id = i]
          OBVIOUS
        <5>3. gn' = q
          BY <3>5, <5>1, <5>2
        <5>4. /\ q.sub = s /\ q.id = i
              /\ q.table = r.table /\ q.pwd = r.pwd /\ q.loaded = r.loaded /\ q.wiped = r.wiped
          BY <5>1, <5>2 DEF GnStates
        <5> QED BY <5>1, <5>3, <5>4
      <4> HIDE DEF NextSub, Quits
      <4> QED BY <1>0, <2>6, <3>1, <3>2, <3>5, <4>1
    <3> QED BY <3>3, <3>4, <3>5
  <2>7. CASE GnSample
    BY <1>0, <1>types, <2>7 DEF GnStates
  <2>8. CASE SaveEntry
    BY <1>0, <1>types, <2>8 DEF GnStates
  <2>9. CASE GnEnd
    BY <1>0, <2>9
  <2> QED BY <1>5, <2>1, <2>2, <2>3, <2>4, <2>5, <2>6, <2>7, <2>8, <2>9 DEF Generate
<1>6. CASE App
  BY ZenonT(40), <1>0, <1>6 DEF App
<1>7. CASE Authenticate
  BY <1>0, <1>7 DEF Authenticate
<1>8. CASE SetNewKey
  BY <1>0, <1>8 DEF SetNewKey
<1>9. CASE LoadTable
  <2>1. CASE LdKey
    BY <1>0, <2>1
  <2>2. CASE LdRead
    BY <1>0, <2>2 DEF Cleaned
  <2> QED BY <1>9, <2>1, <2>2 DEF LoadTable
<1>10. CASE Type \/ Panic \/ PowerLoss \/ UNCHANGED vars
  <2>1. CASE Type
    BY <1>0, <2>1
  <2>2. CASE Panic
    BY <1>0, <2>2
  <2>3. CASE PowerLoss
    BY <1>0, <2>3
  <2>4. CASE UNCHANGED vars
    BY <1>0, <2>4 DEF vars
  <2> QED BY <1>10, <2>1, <2>2, <2>3, <2>4
<1> QED BY <1>1, <1>2, <1>3, <1>4, <1>5, <1>6, <1>7, <1>8, <1>9, <1>10 DEF Next, Main

\* a save writes that table with one entry replaced
LEMMA NextSaved ==
  ASSUME TypeOK, SessionInv, Previous, TableInv, [Next]_vars
  PROVE  Saved'
<1> USE LinesAssumption DEF Saved, Places, Saving, PrintedIsSaved, Asked
<1>0. Places /\ Passes /\ Keyed /\ Locked /\ Setup /\ Cleaned /\ Asked /\ Saved /\ Typed
  BY DEF TableInv, TypeOK
<1>types. fm \in FmStates /\ cm \in CmStates /\ gn \in GnStates /\ gen \in Nat
  BY MaxPanicsAssumption DEF TypeOK, ModeTypes, CountTypes
<1>1. CASE FirstMeet
  BY <1>0, <1>1 DEF FirstMeet
<1>2. CASE MkAuth
  BY <1>0, <1>2 DEF MkAuth
<1>3. CASE ChangeMk
  BY <1>0, <1>3 DEF ChangeMk
<1>4. CASE Retrieve
  BY <1>0, <1>4 DEF Retrieve
<1>5. CASE Generate
  <2>1. CASE GnEnter \/ GnLoaded \/ GnRefuse \/ GnPrompt \/ GnPoll
    BY <1>0, <2>1
  <2>2. CASE GnSave \/ GnCommit \/ GnVerify \/ GnReport \/ GnPrint
    BY <1>0, <2>2
  <2>3. CASE GnEnd
    BY <1>0, <2>3
  <2>4. CASE GnLine
    BY <1>0, <2>4
  <2>5. CASE GnSample
    BY <1>0, <2>5
  <2>6. CASE SaveEntry
    <3>1. CASE gn.wiped
      BY <1>0, <2>6, <3>1
    <3>2. CASE ~gn.wiped
      <4>1. cell # None /\ gn.table = cell.table
        BY <1>0, <2>6, <3>2 DEF On
      <4>2. gn' = [gn EXCEPT !.table[gn.id] = gn.pwd] /\ UNCHANGED cell
        BY <2>6, <3>2
      <4>3. gn'.table = [gn.table EXCEPT ![gn.id] = gn.pwd] /\ gn'.id = gn.id /\ gn'.pwd = gn.pwd
            /\ gn'.wiped = gn.wiped
        BY <1>types, <4>2 DEF GnStates
      <4> QED BY <1>0, <2>6, <3>2, <4>1, <4>2, <4>3
    <3> QED BY <3>1, <3>2
  <2>7. CASE GnWrite
    <3>1. gn.sub = "save" /\ gn.id \in Ids
      BY <1>0, <2>7
    <3>2. cell # None /\ cell.table \in Tables
      BY <1>0, <2>7 DEF TypeOK, Store!TypeOK, Store!Contents
    <3>3. [cell.table EXCEPT ![gn.id] = gn.pwd][gn.id] = gn.pwd
      BY <3>1, <3>2 DEF Tables
    <3>4. CASE Store!Persist
      <4>1. cell' = pending /\ pending # None /\ pending.table = [cell.table EXCEPT ![gn.id] = gn.pwd]
        BY <1>0, <2>7, <3>4
      <4>2. cell' # None /\ cell'.table[gn.id] = gn.pwd
        BY <3>3, <4>1
      <4> QED BY <1>0, <2>7, <3>4, <4>2
    <3>5. CASE UNCHANGED storeVars
      BY <1>0, <2>7, <3>5
    <3> QED BY <2>7, <3>4, <3>5
  <2> QED BY <1>5, <2>1, <2>2, <2>3, <2>4, <2>5, <2>6, <2>7 DEF Generate
<1>6. CASE App
  BY <1>0, <1>6 DEF App
<1>7. CASE Authenticate
  BY <1>0, <1>7 DEF Authenticate
<1>8. CASE SetNewKey
  BY <1>0, <1>8 DEF SetNewKey
<1>9. CASE LoadTable
  BY <1>0, <1>9 DEF LoadTable
<1>10. CASE Type \/ Panic \/ PowerLoss \/ UNCHANGED vars
  <2>1. CASE Type
    BY <1>0, <2>1
  <2>2. CASE Panic
    BY <1>0, <2>2
  <2>3. CASE PowerLoss
    BY <1>0, <2>3
  <2>4. CASE UNCHANGED vars
    BY <1>0, <2>4 DEF vars
  <2> QED BY <1>10, <2>1, <2>2, <2>3, <2>4
<1> QED BY <1>1, <1>2, <1>3, <1>4, <1>5, <1>6, <1>7, <1>8, <1>9, <1>10 DEF Next, Main

\* without a panic, the two entries of a key and the table that was loaded
\* reach the commit as they are
LEMMA NextTyped ==
  ASSUME TypeOK, SessionInv, Previous, TableInv, [Next]_vars
  PROVE  Typed'
<1> USE LinesAssumption DEF Typed, Places, On, Deriving, Storing, Saving, Previous
<1>0. Places /\ Passes /\ Keyed /\ Locked /\ Setup /\ Cleaned /\ Asked /\ Saved /\ Typed
  BY DEF TableInv, TypeOK
<1>types. fm \in FmStates /\ cm \in CmStates /\ gn \in GnStates /\ gen \in Nat
  BY MaxPanicsAssumption DEF TypeOK, ModeTypes, CountTypes
<1>1. CASE FirstMeet
  <2>1. CASE FmDone
    BY <1>0, <2>1
  <2>2. CASE FmEnter
    BY <1>0, <1>types, <2>2
  <2>3. CASE FmPrompt
    BY <1>0, <1>types, <2>3 DEF FmStates, Lines, PlainLines
  <2>4. CASE FmPoll
    BY <1>0, <1>types, <2>4 DEF FmStates, Lines
  <2>5. CASE FmFirst
    BY <1>0, <1>types, <2>5 DEF FmStates, Lines, PlainLines
  <2>6. CASE FmConfirm
    <3> HIDE DEF FmMatch
    <3> QED BY <1>0, <1>types, <2>6 DEF FmStates
  <2> QED BY <1>1, <2>1, <2>2, <2>3, <2>4, <2>5, <2>6 DEF FirstMeet
<1>2. CASE MkAuth
  <2>1. CASE MaEnter
    BY <1>0, <1>types, <2>1
  <2>2. CASE MaPrompt \/ MaPoll \/ MaCheck \/ MaDone
    BY <1>0, <2>2
  <2> QED BY <1>2, <2>1, <2>2 DEF MkAuth
<1>3. CASE ChangeMk
  <2>1. CASE CmLoaded \/ CmDone
    BY <1>0, <2>1
  <2>2. CASE CmEnter
    BY <1>0, <1>types, <2>2
  <2>3. CASE CmPrompt
    BY <1>0, <1>types, <2>3 DEF CmStates, Lines
  <2>4. CASE CmPoll
    BY <1>0, <1>types, <2>4 DEF CmStates, Lines
  <2>5. CASE CmNew
    BY <1>0, <1>types, <2>5 DEF CmStates, Lines, PlainLines
  <2>6. CASE CmConfirm
    <3> HIDE DEF CmMatch
    <3> QED BY <1>0, <1>types, <2>6 DEF CmStates
  <2> QED BY <1>3, <2>1, <2>2, <2>3, <2>4, <2>5, <2>6 DEF ChangeMk
<1>4. CASE Retrieve
  BY <1>0, <1>4 DEF Retrieve
<1>5. CASE Generate
  BY <1>0, <1>5 DEF Generate
<1>6. CASE App
  BY ZenonT(40), <1>0, <1>6 DEF App
<1>7. CASE Authenticate
  BY <1>0, <1>7 DEF Authenticate
<1>8. CASE SetNewKey
  <2>1. CASE SnPolicy \/ SnSalt \/ SnGen
    BY <1>0, <2>1
  <2>2. CASE SnDerive \/ SnCheck \/ SnWrite
    BY <1>0, <2>2
  <2>3. CASE SnVerify \/ SnOpen
    BY <1>0, <2>3
  <2>4. CASE SnKdf
    BY <1>0, <2>4
  <2>5. CASE SnCommit
    BY <1>0, <2>5 DEF Setup
  <2> QED BY <1>8, <2>1, <2>2, <2>3, <2>4, <2>5 DEF SetNewKey
<1>9. CASE LoadTable
  <2>1. CASE LdKey
    BY <1>0, <2>1
  <2>2. CASE LdRead
    BY <1>0, <2>2
  <2> QED BY <1>9, <2>1, <2>2 DEF LoadTable
<1>10. CASE Type \/ Panic \/ PowerLoss \/ UNCHANGED vars
  <2>1. CASE Type \/ PowerLoss \/ UNCHANGED vars
    BY <1>0, <2>1 DEF vars
  <2>2. CASE Panic
    BY <1>0, <2>2, MaxPanicsAssumption DEF TypeOK, CountTypes
  <2> QED BY <1>10, <2>1, <2>2
<1> QED BY <1>1, <1>2, <1>3, <1>4, <1>5, <1>6, <1>7, <1>8, <1>9, <1>10 DEF Next, Main

-----------------------------------------------------------------------------
(* The theorems.                                                            *)

LEMMA TableInit == Init => TypeOK /\ TableInv
<1> SUFFICES ASSUME Init PROVE TypeOK /\ TableInv
  OBVIOUS
<1> USE DEF Init, FmWiped, CmWiped, RtWiped, GnReset, Store!Init
<1>1. LoopTypes /\ LineTypes /\ KeyTypes /\ Store!TypeOK
  BY DEF LoopTypes, LineTypes, KeyTypes, Store!TypeOK, Labels, AppStates
<1>2. CountTypes
  BY MaxPanicsAssumption DEF CountTypes
<1>3. ModeTypes
  BY DEF ModeTypes, FmStates, CmStates, RtStates, GnStates, Tables, EmptyTable, Prompts
<1>4. Places /\ Passes /\ Keyed /\ Locked
  BY DEF Places, Passes, Keyed, Locked, Deriving, Storing, Saving, StateNeedsSession
<1>5. Setup /\ Cleaned
  BY DEF Setup, Cleaned, Deriving, Storing, Saving
<1>6. Asked /\ Saved /\ Typed
  BY DEF Asked, Saved, Typed, Deriving, Storing, Saving, On, PrintedIsSaved
<1> QED BY <1>1, <1>2, <1>3, <1>4, <1>5, <1>6 DEF TypeOK, TableInv

LEMMA TableNext ==
  TypeOK /\ SessionInv /\ ScreenInv /\ TableInv /\ [Next]_vars => TypeOK' /\ TableInv'
<1> SUFFICES ASSUME TypeOK, SessionInv, ScreenInv, TableInv, [Next]_vars PROVE TypeOK' /\ TableInv'
  OBVIOUS
<1>1. Previous
  BY DEF Previous, ScreenInv
<1>2. TypeOK'
  BY <1>1, NextLoopTypes, NextLineTypes, NextKeyTypes, NextCountTypes, NextModeTypes,
     NextStoreTypes DEF TypeOK
<1>3. TableInv'
  BY <1>1, NextPlaces, NextPasses, NextKeyed, NextLocked, NextSetup, NextCleaned, NextAsked,
     NextSaved, NextTyped DEF TableInv
<1> QED BY <1>2, <1>3

LEMMA TableInvariant == Spec => [](TypeOK /\ TableInv)
BY TableInit, TableNext, SessionInvariant, ScreenInvariant, PTL DEF Spec

\* The variables of the main loop and of the modes keep their types; in
\* particular nothing is ever sealed without a key.
THEOREM RuneitTypes == Spec => []TypeOK
BY TableInvariant, PTL

\* When the login screen polls for a line, the session's key, the first entry of a
\* first setup, the working table of a key change, and the table and the complete
\* password of GENERATE are zero, wherever in the code the panic interrupt came
\* and whatever that code did after it.  Other buffers are not claimed.
THEOREM LockedIsClean == Spec => []LockedScreenIsClean
<1>1. SessionInv /\ TableInv => LockedScreenIsClean
  BY DEF LockedScreenIsClean, SessionInv, TableInv, Locked, Setup, Cleaned, On, StateNeedsSession,
         Deriving, Storing
<1> QED BY <1>1, SessionInvariant, TableInvariant, PTL

\* GENERATE never prints a password as saved that is not in the flash under
\* the id that was asked for.
THEOREM PrintedSaved == Spec => []PrintedIsSaved
<1>1. TableInv => PrintedIsSaved
  BY DEF TableInv, Saved
<1> QED BY <1>1, TableInvariant, PTL

\* who writes to the flash: the two commits, each in its own step
LEMMA OnlyCommitsWrite ==
  ASSUME [Next]_vars, cell' # cell, pc \in {"gnWrite", "snWrite"}
  PROVE  cell' = pending /\ pending # None
<1>1. ~Elsewhere /\ ~Authenticate
  BY DEF Elsewhere, Opening, Authenticate
<1>2. ~App /\ ~FirstMeet /\ ~MkAuth /\ ~ChangeMk /\ ~Retrieve /\ ~LoadTable
      /\ ~GenerateAsks /\ ~SessionPrepares
  BY <1>1, AppElsewhere, FirstMeetElsewhere, MkAuthElsewhere, ChangeMkElsewhere,
     RetrieveElsewhere, GenerateElsewhere, SessionElsewhere DEF SessionPrepares
<1>3. CASE Generate
  BY <1>2, <1>3 DEF Generate, GenerateAsks
<1>4. CASE SetNewKey
  BY <1>2, <1>4 DEF SetNewKey, SessionPrepares
<1>5. CASE Type \/ Panic \/ PowerLoss \/ UNCHANGED vars
  BY <1>5 DEF vars
<1> QED BY <1>1, <1>2, <1>3, <1>4, <1>5 DEF Next, Main

\* A save replaces the entry of the chosen id by the produced password and leaves
\* every other entry, and the key, as they are in flash: although the table was
\* loaded many lines of input ago, and panics and power losses may have come since.
THEOREM SaveOneEntry == Spec => SaveChangesOneEntry
<1>1. ASSUME TypeOK, SessionInv, TableInv, [Next]_vars, pc = "gnWrite", cell' # cell
      PROVE  gn.pwd \in Passwords /\ cell' = [cell EXCEPT !.table[gn.id] = gn.pwd]
  <2>1. cell' = pending /\ pending # None
    BY <1>1, OnlyCommitsWrite
  <2>2. /\ gn.sub = "save" /\ gn.id \in Ids /\ ~gn.wiped /\ cell # None
        /\ pending.table = [cell.table EXCEPT ![gn.id] = gn.pwd] /\ On("GENERATE")
    BY <1>1 DEF TableInv, Asked, Saved, Saving, Places, On
  <2>3. gn.pwd \in Passwords
    BY <1>1, <2>2 DEF TableInv, Asked
  <2>4. pending.key = cell.key
    BY <1>1 DEF SessionInv, OpenKey, OperationKey
  <2>5. cell \in [key : DerivedKeys, table : Tables]
    BY <1>1, <2>2 DEF TypeOK, Store!TypeOK, Store!Contents
  <2>6. pending \in [key : DerivedKeys, table : Tables]
    BY <1>1, <2>1 DEF TypeOK, Store!TypeOK, Store!Contents
  <2>7. pending = [cell EXCEPT !.table[gn.id] = gn.pwd]
    BY <2>2, <2>4, <2>5, <2>6
  <2> QED BY <2>1, <2>3, <2>7
<1>2. TypeOK /\ SessionInv /\ TableInv /\ [Next]_vars =>
        [pc = "gnWrite" /\ cell' # cell =>
           /\ gn.pwd \in Passwords
           /\ cell' = [cell EXCEPT !.table[gn.id] = gn.pwd]]_vars
  BY <1>1
<1> QED BY <1>2, SessionInvariant, TableInvariant, PTL DEF Spec, SaveChangesOneEntry

\* A key change whose screen has seen no panic seals the same table under a
\* key that satisfies the policy; a first setup seals a table without entries.
THEOREM NewKeyTable == Spec => NewKeyKeepsTable
<1>1. ASSUME TableInv, [Next]_vars, pc = "snWrite", screenGen = gen, cell' # cell
      PROVE  /\ cell'.key.mk \in MasterKeys
             /\ cell'.table = IF cell = None THEN EmptyTable ELSE cell.table
  <2>1. cell' = pending
    BY <1>1, OnlyCommitsWrite
  <2> QED BY <1>1, <2>1 DEF TableInv, Typed
<1>2. TableInv /\ [Next]_vars =>
        [pc = "snWrite" /\ screenGen = gen /\ cell' # cell =>
           /\ cell'.key.mk \in MasterKeys
           /\ cell'.table = IF cell = None THEN EmptyTable ELSE cell.table]_vars
  BY <1>1
<1> QED BY <1>2, TableInvariant, PTL DEF Spec, NewKeyKeepsTable
=============================================================================
