----------------------------- MODULE StatusLed ------------------------------
(***************************************************************************)
(* status_led.c over led_drv.c: the LEDs are switched by three contexts.   *)
(* The main thread calls Status_Led_Show once per pass of App_Run and,     *)
(* around the noise sampling of a key change, Show(QUIET) and Restore.     *)
(* The SysTick interrupt (Tick) steps the chase and preempts the main      *)
(* thread.  The panic interrupt preempts both.                             *)
(*                                                                         *)
(* Every access to s_mode and every LED switched is a step of its own.     *)
(* Of the rest of the firmware only what drives the display is kept: which *)
(* kind of state a pass is in, whether there is a session, and whether the *)
(* ADC is converting.                                                      *)
(***************************************************************************)
EXTENDS Naturals, Sequences

CONSTANTS
  StepMs,    \* STATUS_LED_STEP_MS
  MaxRounds, \* ES_MAX_ROUNDS, the blocks one Entropy_Source_GetBytes converts
  MaxPanics  \* bound on the number of panics

ASSUME StepMsAssumption == StepMs \in Nat \ {0}
ASSUME MaxRoundsAssumption == MaxRounds \in Nat
ASSUME MaxPanicsAssumption == MaxPanics \in Nat

Chase == <<"BLUE", "RED", "YELLOW">>
Leds  == {"BLUE", "RED", "YELLOW", "GREEN"}
\* the order in which Led_Drv_AllOff switches them
AllLeds == Append(Chase, "GREEN")
Modes == {"LOCKED", "IDLE", "BUSY", "QUIET"}

VARIABLES
  pc,      \* where the main thread is
  state,   \* the kind of state App_Run is in
  entered, \* App_Run: entered
  authd,   \* s_authorized
  sampling,\* Mode_Generate_IsSampling
  adc,     \* a block of samples is being converted
  arg,     \* Status_Led_Show: mode
  old,     \* Status_Led_Show: prev
  ret,     \* where Status_Led_Show returns to
  i,       \* Led_Drv_AllOff: i, counted from 1
  rounds,  \* Entropy_Source_GetBytes: rounds
  ledPrev, \* Entropy_Source_GetBytes: led_prev
  mode, lit, step, ms,  \* s_mode, s_lit, s_step (counted from 1), s_ms
  tick,    \* where the Tick interrupt is, "off" when it is not running
  leds,    \* the LEDs that are on
  panics

mainVars == <<pc, state, entered, sampling, adc, arg, old, ret, i, rounds, ledPrev>>
tickVars == <<lit, step, ms, tick>>
vars == <<mainVars, tickVars, authd, mode, leds, panics>>

MainTypes == /\ pc \in {"top", "pick", "call", "write", "green", "off", "body",
                        "sample", "restore", "derive"}
             /\ state \in {"LOGIN", "MENU", "GENERATE", "CHANGE_MK"}
             /\ entered \in BOOLEAN /\ authd \in BOOLEAN
             /\ sampling \in BOOLEAN /\ adc \in BOOLEAN

ShowTypes == /\ arg \in Modes /\ old \in Modes /\ ledPrev \in Modes /\ mode \in Modes
             /\ ret \in {"body", "sample"}
             /\ i \in 1..Len(AllLeds) /\ rounds \in 0..MaxRounds

TickTypes == /\ lit \in BOOLEAN /\ step \in 1..Len(Chase) /\ ms \in 0..StepMs
             /\ tick \in {"off", "dark", "first", "second", "third"}
             /\ leds \subseteq Leds
             /\ panics \in 0..MaxPanics

TypeOK == MainTypes /\ ShowTypes /\ TickTypes

Init == /\ pc = "top" /\ state = "LOGIN" /\ entered = FALSE /\ authd = FALSE /\ sampling = FALSE /\ adc = FALSE
        /\ arg = "LOCKED" /\ old = "LOCKED" /\ ret = "body" /\ i = 1 /\ rounds = 0 /\ ledPrev = "LOCKED"
        /\ mode = "LOCKED" /\ lit = FALSE /\ step = 1 /\ ms = 0 /\ tick = "off"
        /\ leds = {}
        /\ panics = 0

-----------------------------------------------------------------------------
(* Status_Led_Show(m), called with Show(m, r): returns to r. *)

Show(m, r) == arg' = m /\ ret' = r /\ pc' = "call"

ShowRead ==
  /\ pc = "call"
  /\ old' = mode
  /\ pc' = "write"
  /\ UNCHANGED <<state, entered, sampling, adc, arg, ret, i, rounds, ledPrev, mode, leds>>

ShowWrite ==
  /\ pc = "write"
  /\ mode' = arg
  /\ i' = 1
  /\ pc' = IF arg \in {"IDLE", "BUSY"} THEN "green" ELSE "off"
  /\ UNCHANGED <<state, entered, sampling, adc, arg, old, ret, rounds, ledPrev, leds>>

Return == pc' = ret /\ ledPrev' = IF ret = "sample" THEN old ELSE ledPrev

ShowGreen ==
  /\ pc = "green"
  /\ leds' = leds \cup {"GREEN"}
  /\ Return
  /\ UNCHANGED <<state, entered, sampling, adc, arg, old, ret, i, rounds, mode>>

\* mutant: Led_Drv_AllOff stops one LED early
ShowOffShort ==
  /\ pc = "off"
  /\ leds' = leds \ {AllLeds[i]}
  /\ IF i < Len(AllLeds) - 1 THEN i' = i + 1 /\ UNCHANGED <<pc, ledPrev>>
                             ELSE Return /\ UNCHANGED i
  /\ UNCHANGED <<state, entered, sampling, adc, arg, old, ret, rounds, mode>>

ShowOff ==
  /\ pc = "off"
  /\ leds' = leds \ {AllLeds[i]}
  /\ IF i < Len(AllLeds) THEN i' = i + 1 /\ UNCHANGED <<pc, ledPrev>>
                         ELSE Return /\ UNCHANGED i
  /\ UNCHANGED <<state, entered, sampling, adc, arg, old, ret, rounds, mode>>

ShowSteps == ShowRead \/ ShowWrite \/ ShowGreen \/ ShowOff

\* Status_Led_Restore, one critical section
Restored(m) == /\ mode' = m
               /\ leds' = IF m \in {"IDLE", "BUSY"} THEN leds \cup {"GREEN"} ELSE {}

Restore ==
  /\ pc = "restore"
  /\ IF mode = "QUIET" THEN Restored(ledPrev) ELSE UNCHANGED <<mode, leds>>
  /\ pc' = "derive"
  /\ UNCHANGED <<state, entered, sampling, adc, arg, old, ret, i, rounds, ledPrev>>

-----------------------------------------------------------------------------
(* The main thread. *)

\* the top of App_Run with its guard; the user moves between the modes, and
\* GENERATE ends between two blocks (that a block times out is left out)
Top ==
  /\ pc = "top"
  /\ state' \in IF ~authd THEN {"LOGIN"}
               ELSE IF state = "MENU" THEN {"MENU", "GENERATE", "CHANGE_MK"}
               ELSE IF state = "GENERATE" /\ adc THEN {"GENERATE"}
               ELSE {state, "MENU"} \ {"LOGIN"}
  /\ entered' = (state' # state)
  /\ pc' = "pick"
  /\ UNCHANGED <<sampling, adc, arg, old, ret, i, rounds, ledPrev, mode, leds>>

\* mutant: the session is not asked
LedModeByState ==
  IF state = "GENERATE" THEN (IF sampling THEN "QUIET" ELSE "BUSY")
  ELSE IF state = "CHANGE_MK" THEN "BUSY" ELSE "IDLE"

LedModeFor ==
  IF ~authd THEN "LOCKED"
  ELSE IF state = "GENERATE" THEN (IF sampling THEN "QUIET" ELSE "BUSY")
  ELSE IF state = "CHANGE_MK" THEN "BUSY" ELSE "IDLE"

Pick ==
  /\ pc = "pick"
  /\ Show(LedModeFor, "body")
  /\ UNCHANGED <<state, entered, sampling, adc, old, i, rounds, ledPrev, mode, leds>>

\* a pass that does not change what is displayed
BodyIdle ==
  /\ pc = "body" /\ ~(state = "GENERATE" /\ entered)
  /\ pc' = "top"
  /\ UNCHANGED <<state, entered, sampling, adc, arg, old, ret, i, rounds, ledPrev, mode, leds, authd>>

\* a login: the key derivation takes seconds, so a block that a panic left
\* converting has ended
BodyLogin ==
  /\ pc = "body" /\ state = "LOGIN" /\ ~adc
  /\ authd' = TRUE
  /\ pc' = "top"
  /\ UNCHANGED <<state, entered, sampling, adc, arg, old, ret, i, rounds, ledPrev, mode, leds>>

\* Mode_Generate_Enter leaves the sampling states that a panic may have left
\* s_sub in; then HandleLength starts them, StepSampling starts a block and
\* leaves them when enough is collected; after a panic Run refuses
BodyGenerate ==
  /\ pc = "body" /\ state = "GENERATE" /\ (entered \/ authd)
  /\ \/ entered /\ sampling' = FALSE /\ UNCHANGED adc
     \/ ~entered /\ ~sampling /\ sampling' = TRUE /\ UNCHANGED adc
     \/ ~entered /\ sampling /\ ~adc /\ adc' = TRUE /\ UNCHANGED sampling
     \/ ~entered /\ sampling /\ ~adc /\ sampling' = FALSE /\ UNCHANGED adc
  /\ pc' = "top"
  /\ UNCHANGED <<state, entered, arg, old, ret, i, rounds, ledPrev, mode, leds, authd>>

\* Session_SetNewKey, reached in FIRST_MEET and, with a session, in CHANGE_MK:
\* MakeSalt calls Entropy_Source_GetBytes
BodyNewKey ==
  /\ pc = "body" /\ ~adc
  /\ state = "LOGIN" \/ (state = "CHANGE_MK" /\ authd)
  /\ Show("QUIET", "sample")
  /\ rounds' = 0
  /\ UNCHANGED <<state, entered, sampling, adc, old, i, ledPrev, mode, leds, authd>>

\* RunBlock, repeated until there are enough bytes
Sample ==
  /\ pc = "sample"
  /\ ~adc
  /\ \/ rounds < MaxRounds /\ rounds' = rounds + 1 /\ adc' = TRUE /\ UNCHANGED pc
     \/ pc' = "restore" /\ UNCHANGED <<adc, rounds>>
  /\ UNCHANGED <<state, entered, sampling, arg, old, ret, i, ledPrev, mode, leds, authd>>

\* the derivation and the commit: the session opens, or stays as it was.  That a
\* panic came is no obstacle when it came before MakeSalt was over: only then is
\* the generation read, in either state.
Derive ==
  /\ pc = "derive"
  /\ authd' \in {authd, TRUE}
  /\ pc' = "top"
  /\ UNCHANGED <<state, entered, sampling, adc, arg, old, ret, i, rounds, ledPrev, mode, leds>>

Main == /\ tick = "off"
        /\ \/ (ShowSteps \/ Restore \/ Top \/ Pick) /\ UNCHANGED authd
           \/ BodyIdle \/ BodyLogin \/ BodyGenerate \/ BodyNewKey \/ Sample \/ Derive
        /\ UNCHANGED <<tickVars, panics>>

\* the block is complete
AdcDone == /\ adc
           /\ adc' = FALSE
           /\ UNCHANGED <<pc, state, entered, sampling, arg, old, ret, i, rounds, ledPrev, tickVars, authd, mode, leds, panics>>

-----------------------------------------------------------------------------
(* The interrupts. *)

TickStart ==
  /\ tick = "off"
  /\ \/ mode # "BUSY" /\ lit /\ tick' = "dark" /\ UNCHANGED ms
     \/ mode # "BUSY" /\ ~lit /\ ms' = 0 /\ UNCHANGED tick
     \/ mode = "BUSY" /\ ~lit /\ tick' = "first" /\ UNCHANGED ms
     \/ /\ mode = "BUSY" /\ lit
        /\ IF ms + 1 >= StepMs THEN ms' = 0 /\ tick' = "second"
                               ELSE ms' = ms + 1 /\ UNCHANGED tick
  /\ UNCHANGED <<lit, step, leds>>

\* mutant: the LED that a preempted step lit is not remembered
TickFirstUnlit ==
  /\ tick = "first"
  /\ leds' = leds \cup {Chase[step]}
  /\ ms' = 0 /\ tick' = "off"
  /\ UNCHANGED <<lit, step>>

TickFirst ==
  /\ tick = "first"
  /\ leds' = leds \cup {Chase[step]}
  /\ lit' = TRUE /\ ms' = 0 /\ tick' = "off"
  /\ UNCHANGED step

TickDark ==
  /\ tick = "dark"
  /\ leds' = leds \ {Chase[step]}
  /\ lit' = FALSE /\ ms' = 0 /\ tick' = "off"
  /\ UNCHANGED step

TickNext ==
  /\ \/ /\ tick = "second"
        /\ leds' = leds \ {Chase[step]}
        /\ step' = (step % Len(Chase)) + 1
        /\ tick' = "third"
     \/ /\ tick = "third"
        /\ leds' = leds \cup {Chase[step]}
        /\ tick' = "off" /\ UNCHANGED step
  /\ UNCHANGED <<lit, ms>>

Tick == /\ TickStart \/ TickFirst \/ TickDark \/ TickNext
        /\ UNCHANGED <<mainVars, authd, mode, panics>>

\* App_PanicHandler: Session_Wipe, then Status_Led_Off
Panic == /\ panics < MaxPanics
         /\ panics' = panics + 1
         /\ authd' = FALSE
         /\ mode' = "LOCKED"
         /\ leds' = {}
         /\ UNCHANGED <<mainVars, tickVars>>

Next == Main \/ AdcDone \/ Tick \/ Panic

Spec == Init /\ [][Next]_vars

\* The ticks come, and between two of them the processor runs the main loop,
\* which is never able to run for good (a tick can always preempt it): strong
\* fairness.  A conversion that was started ends.
FairSpec == Spec /\ SF_vars(Main) /\ WF_vars(Tick) /\ WF_vars(AdcDone)

-----------------------------------------------------------------------------
(* Properties. *)

\* LED switching would leak a pattern into the noise (status_led.h), and a
\* login screen shows nothing: no LED is on while a block is converted, or in
\* a pass of a login screen, whatever Tick was doing when the display went
\* QUIET or was switched off, and whatever a panic interrupted.
DarkWhenItMatters ==
  /\ adc => leds = {}
  /\ pc = "body" /\ state = "LOGIN" => leds = {} /\ mode = "LOCKED"

\* Outside BUSY Tick undoes a write that the panic interrupt preempted halfway
\* through (status_led.c): it only forgets a chase LED that is off.
ChaseIsRemembered ==
  tick = "off" => leds \ {"GREEN"} \subseteq (IF lit THEN {Chase[step]} ELSE {})

\* A device that stays without a session ends up dark and stays dark: the
\* chase LED that a tick lights after the panic that preempted it, the mode
\* that Restore brings back and the GREEN of a Show that goes on after the
\* panic are all undone.
LockedGoesDark == <>[]~authd => <>[](leds = {})

\* Not so, and part of no run: status_led.h says that Restore goes back to the
\* former display unless the panic button changed the display in the meantime,
\* so that a key derivation which runs on after a panic shows no open session.
RestoreSparesPanic == pc = "derive" /\ ~authd => mode \notin {"IDLE", "BUSY"}
=============================================================================
