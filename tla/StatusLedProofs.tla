-------------------------- MODULE StatusLedProofs --------------------------
(***************************************************************************)
(* No LED is on while noise is sampled or the login screen is shown, and   *)
(* Tick knows of every chase LED that is on: for every length of a step of *)
(* the chase, every number of blocks and of panics.                        *)
(*                                                                         *)
(* The argument: the main thread does not run while Tick does, so when it  *)
(* writes a dim mode no step of the chase is under way, and none begins    *)
(* before a display that is not dim is written.  From then on Tick can     *)
(* only switch LEDs off, and so can a panic.                               *)
(***************************************************************************)
EXTENDS StatusLed, SequenceTheorems, TLAPS

DimModes == {"QUIET", "LOCKED"}

\* Tick lights nothing.
Dim == mode \in DimModes /\ tick \in {"off", "dark"}

Dark == Dim /\ leds = {}

Showing == {"call", "write", "green", "off"}

\* The chase LED that may be on, at each of Tick's own steps.
ChaseLit ==
    /\ tick \in {"dark", "second", "third"} => lit
    /\ tick = "first" => ~lit
    /\ leds \ {"GREEN"} \subseteq (IF lit /\ tick # "third" THEN {Chase[step]} ELSE {})

\* What Show is asked for, by the state of the pass it is called in.
Asked ==
    /\ pc = "pick" /\ state = "LOGIN" => ~authd
    /\ pc = "green" => arg \in {"IDLE", "BUSY"}
    /\ pc = "off" => arg \in DimModes
    /\ pc \in Showing /\ ret = "sample" => arg = "QUIET" /\ ~adc
    /\ pc = "sample" => arg = "QUIET"
    /\ pc = "body" => ret = "body"
    /\ pc \in Showing \union {"body"} /\ ret = "body" =>
        /\ state = "LOGIN" => arg = "LOCKED"
        /\ state = "GENERATE" /\ sampling => arg \in DimModes

\* What is shown once it has been written: what was asked for, unless a panic
\* came.
Shown ==
    /\ pc \in {"green", "off", "body", "sample"} => mode \in {arg, "LOCKED"}
    /\ pc = "off" => Dim /\ \A k \in 1..(i - 1) : AllLeds[k] \notin leds
    /\ pc \in {"body", "sample"} /\ arg \in DimModes => Dark

\* Where the main thread can be while a block is converted.
Converting ==
    adc => /\ Dark
           /\ pc \notin {"restore", "derive"}
           /\ \/ pc = "sample"
              \/ state = "GENERATE" /\ sampling /\ ~entered
              \/ state = "LOGIN" /\ ~authd

LedInv == TypeOK /\ ChaseLit /\ Asked /\ Shown /\ Converting

-----------------------------------------------------------------------------
LEMMA LedOrder ==
    /\ Len(Chase) = 3 /\ \A k \in 1..3 : Chase[k] \in Leds \ {"GREEN"}
    /\ Len(AllLeds) = 4
    /\ \A l \in Leds : \E k \in 1..4 : AllLeds[k] = l
<1>1. Chase \in Seq(Leds) /\ Len(Chase) = 3 /\ "GREEN" \in Leds
  BY DEF Chase, Leds
<1>2. /\ Len(AllLeds) = 4 /\ AllLeds[4] = "GREEN"
      /\ \A k \in 1..3 : AllLeds[k] = Chase[k]
  <2>1. ASSUME NEW s \in Seq(Leds), Len(s) = 3, NEW e \in Leds
        PROVE  /\ Len(Append(s, e)) = 4 /\ Append(s, e)[4] = e
               /\ \A k \in 1..3 : Append(s, e)[k] = s[k]
    BY <2>1
  <2> QED BY <1>1, <2>1, Zenon DEF AllLeds
<1>3. Chase[1] = "BLUE" /\ Chase[2] = "RED" /\ Chase[3] = "YELLOW"
  BY DEF Chase
<1>4. \A k \in 1..3 : Chase[k] \in Leds \ {"GREEN"}
  BY <1>3 DEF Leds
<1>5. \A l \in Leds : \E k \in 1..4 : AllLeds[k] = l
  BY <1>2, <1>3 DEF Leds
<1> QED BY <1>1, <1>2, <1>4, <1>5

LEMMA MainSteps ==
    ASSUME Main
    PROVE  /\ tick = "off" /\ UNCHANGED <<lit, step, ms, tick, panics>>
           /\ \/ (ShowRead \/ ShowWrite \/ ShowGreen \/ ShowOff \/ Restore \/ Top \/ Pick)
                 /\ UNCHANGED authd
              \/ BodyIdle \/ BodyLogin \/ BodyGenerate \/ BodyNewKey \/ Sample \/ Derive
BY DEF Main, ShowSteps, tickVars

LEMMA NextTypes == TypeOK /\ [Next]_vars => TypeOK'
<1> SUFFICES ASSUME MainTypes, ShowTypes, TickTypes, [Next]_vars
             PROVE  MainTypes' /\ ShowTypes' /\ TickTypes'
  BY DEF TypeOK
<1> USE StepMsAssumption, MaxRoundsAssumption, MaxPanicsAssumption DEF mainVars, tickVars
<1>1. CASE Main
  <2>a. TickTypes'
    <3>1. leds' \subseteq Leds
      BY <1>1, MainSteps DEF ShowRead, ShowWrite, ShowGreen, ShowOff, Restore, Restored, Top, Pick,
         BodyIdle, BodyLogin, BodyGenerate, BodyNewKey, Sample, Derive, TickTypes, Leds
    <3> QED BY <1>1, <3>1, MainSteps DEF TickTypes
  <2> USE <1>1, MainSteps
  <2>1. CASE
          \/ (ShowRead \/ ShowGreen \/ Restore) /\ UNCHANGED authd
          \/ Derive
    <3>1. MainTypes'
      BY <2>1 DEF ShowRead, ShowGreen, Return, Restore, Derive, MainTypes, ShowTypes
    <3>2. ShowTypes'
      BY <2>1 DEF ShowRead, ShowGreen, Return, Restore, Restored, Derive, ShowTypes
    <3> QED BY <2>a, <3>1, <3>2
  <2>2. CASE (ShowWrite \/ ShowOff) /\ UNCHANGED authd
    <3>1. MainTypes'
      BY <2>2 DEF ShowWrite, ShowOff, Return, MainTypes, ShowTypes
    <3>2. ShowTypes'
      BY <2>2, LedOrder DEF ShowWrite, ShowOff, Return, ShowTypes
    <3> QED BY <2>a, <3>1, <3>2
  <2>3. CASE
          \/ Top /\ UNCHANGED authd
          \/ BodyIdle \/ BodyLogin \/ BodyGenerate
    <3>1. MainTypes'
      BY <2>3 DEF Top, BodyIdle, BodyLogin, BodyGenerate, MainTypes
    <3>2. ShowTypes'
      BY <2>3 DEF Top, BodyIdle, BodyLogin, BodyGenerate, ShowTypes
    <3> QED BY <2>a, <3>1, <3>2
  <2>4. CASE
          \/ Pick /\ UNCHANGED authd
          \/ BodyNewKey \/ Sample
    <3>1. MainTypes'
      BY <2>4 DEF Pick, BodyNewKey, Show, Sample, MainTypes
    <3>2. ShowTypes'
      BY <2>4 DEF Pick, LedModeFor, BodyNewKey, Show, Modes, Sample, ShowTypes
    <3> QED BY <2>a, <3>1, <3>2
  <2> QED BY <2>1, <2>2, <2>3, <2>4
<1>2. CASE AdcDone
  <2>1. MainTypes'
    BY <1>2 DEF AdcDone, MainTypes
  <2>2. ShowTypes'
    BY <1>2 DEF AdcDone, ShowTypes
  <2>3. TickTypes'
    BY <1>2 DEF AdcDone, TickTypes
  <2> QED BY <2>1, <2>2, <2>3
<1>3. CASE Tick
  <2>1. Chase[step] \in Leds /\ (step % Len(Chase)) + 1 \in 1..Len(Chase)
    BY LedOrder DEF TickTypes
  <2>2. MainTypes' /\ ShowTypes'
    BY <1>3 DEF Tick, MainTypes, ShowTypes
  <2>3. TickTypes'
    <3>1. CASE TickStart
      BY <1>3, <3>1 DEF Tick, TickStart, TickTypes
    <3>2. CASE TickFirst \/ TickDark \/ TickNext
      <4>1. leds' \subseteq Leds
        BY <3>2, <2>1 DEF TickFirst, TickDark, TickNext, TickTypes
      <4>2. step' \in 1..Len(Chase)
        BY <3>2, <2>1 DEF TickFirst, TickDark, TickNext, TickTypes
      <4>3. lit' \in BOOLEAN /\ tick' \in {"off", "third"}
        BY <3>2 DEF TickFirst, TickDark, TickNext, TickTypes
      <4>4. ms' \in 0..StepMs
        BY <3>2 DEF TickFirst, TickDark, TickNext, TickTypes
      <4>5. panics' \in 0..MaxPanics
        BY <1>3 DEF Tick, TickTypes
      <4> QED BY <4>1, <4>2, <4>3, <4>4, <4>5 DEF TickTypes
    <3> QED BY <1>3, <3>1, <3>2 DEF Tick
  <2> QED BY <2>2, <2>3
<1>4. CASE Panic
  <2>1. MainTypes'
    BY <1>4 DEF Panic, MainTypes
  <2>2. ShowTypes' /\ TickTypes'
    BY <1>4 DEF Panic, Modes, ShowTypes, TickTypes
  <2> QED BY <2>1, <2>2
<1>5. CASE UNCHANGED vars
  <2>1. MainTypes'
    BY <1>5 DEF vars, MainTypes
  <2>2. ShowTypes' /\ TickTypes'
    BY <1>5 DEF vars, ShowTypes, TickTypes
  <2> QED BY <2>1, <2>2
<1> QED BY <1>1, <1>2, <1>3, <1>4, <1>5 DEF Next

LEMMA NextChaseLit ==
    ASSUME TypeOK, ChaseLit, [Next]_vars
    PROVE  ChaseLit'
<1> USE DEF TypeOK, TickTypes, ChaseLit, mainVars, tickVars
<1>1. CASE Main
  <2>1. leds' \subseteq leds \union {"GREEN"}
    BY <1>1, MainSteps DEF ShowRead, ShowWrite, ShowGreen, ShowOff, Restore, Restored, Top, Pick,
       BodyIdle, BodyLogin, BodyGenerate, BodyNewKey, Sample, Derive
  <2> QED BY <1>1, <2>1, MainSteps
<1>2. CASE AdcDone
  BY <1>2 DEF AdcDone
<1>3. CASE Tick
  BY <1>3, LedOrder DEF Tick, TickStart, TickFirst, TickDark, TickNext
<1>4. CASE Panic
  BY <1>4 DEF Panic
<1>5. CASE UNCHANGED vars
  BY <1>5 DEF vars
<1> QED BY <1>1, <1>2, <1>3, <1>4, <1>5 DEF Next

LEMMA NextAsked ==
    ASSUME LedInv, [Next]_vars
    PROVE  Asked'
<1> USE DEF Asked, mainVars, tickVars, DimModes, Showing
<1>a. TypeOK /\ Asked /\ Converting
  BY DEF LedInv
<1>1. CASE Main
  <2> USE <1>1, <1>a, MainSteps DEF TypeOK, MainTypes, ShowTypes
  <2>1. CASE (ShowRead \/ ShowWrite \/ ShowGreen \/ ShowOff) /\ UNCHANGED authd
    BY <2>1 DEF ShowRead, ShowWrite, ShowGreen, ShowOff, Return, Modes
  <2>2. CASE (Restore \/ Top) /\ UNCHANGED authd
    BY <2>2 DEF Restore, Top
  <2>3. CASE BodyIdle \/ BodyLogin \/ BodyGenerate
    BY <2>3 DEF BodyIdle, BodyLogin, BodyGenerate
  <2>4. CASE Sample
    BY <2>4 DEF Sample
  <2>5. CASE Derive
    BY <2>5 DEF Derive
  <2>6. CASE Pick /\ UNCHANGED authd
    <3>1. arg' = LedModeFor /\ ret' = "body" /\ pc' = "call" /\ UNCHANGED <<state, sampling>>
      BY <2>6 DEF Pick, Show
    <3>2. state = "LOGIN" => arg' = "LOCKED"
      BY <2>6, <3>1 DEF Pick, LedModeFor
    <3>3. state = "GENERATE" /\ sampling => arg' \in DimModes
      BY <3>1 DEF LedModeFor
    <3> QED BY <3>1, <3>2, <3>3
  <2>7. CASE BodyNewKey
    BY <2>7 DEF BodyNewKey, Show
  <2> QED BY <2>1, <2>2, <2>3, <2>4, <2>5, <2>6, <2>7
<1>2. CASE AdcDone
  BY <1>2, <1>a DEF AdcDone
<1>3. CASE Tick
  BY <1>3, <1>a DEF Tick
<1>4. CASE Panic
  BY <1>4, <1>a DEF Panic
<1>5. CASE UNCHANGED vars
  BY <1>5, <1>a DEF vars
<1> QED BY <1>1, <1>2, <1>3, <1>4, <1>5 DEF Next

LEMMA NextShown ==
    ASSUME LedInv, [Next]_vars
    PROVE  Shown'
<1> USE DEF Shown, Dim, Dark, DimModes, mainVars, tickVars
<1>a. TypeOK /\ Asked /\ Shown
  BY DEF LedInv
<1>1. CASE Main
  <2> USE <1>1, <1>a, MainSteps
  <2>1. CASE (ShowRead \/ ShowGreen) /\ UNCHANGED authd
    BY <2>1 DEF ShowRead, ShowGreen, Return, Asked, Showing,
       TypeOK, MainTypes, ShowTypes, TickTypes
  <2>2. CASE ShowWrite /\ UNCHANGED authd
    BY <2>2 DEF ShowWrite, TypeOK, ShowTypes, Modes
  <2>3. CASE ShowOff /\ UNCHANGED authd
    <3>1. mode' = mode /\ arg' = arg /\ tick' = tick /\ Dim /\ arg \in DimModes
          /\ leds' = leds \ {AllLeds[i]} /\ mode \in {arg, "LOCKED"} /\ i \in 1..4
      BY <2>3, LedOrder DEF ShowOff, Asked, TypeOK, MainTypes, ShowTypes, TickTypes
    <3>2. \A k \in 1..i : AllLeds[k] \notin leds'
      BY <2>3, <3>1 DEF ShowOff
    <3>3. CASE i < 4
      BY <2>3, <3>1, <3>2, <3>3, LedOrder DEF ShowOff
    <3>4. CASE i = 4
      <4>1. leds' = {}
        BY <3>1, <3>2, <3>4, LedOrder DEF TypeOK, TickTypes
      <4> QED BY <2>3, <3>1, <3>4, <4>1, LedOrder
               DEF ShowOff, Return, TypeOK, MainTypes, ShowTypes, TickTypes
    <3> QED BY <3>1, <3>3, <3>4
  <2>4. CASE
          \/ (Restore \/ Top \/ Pick) /\ UNCHANGED authd
          \/ BodyIdle \/ BodyLogin \/ BodyGenerate \/ BodyNewKey \/ Derive
    BY <2>4 DEF Restore, Top, Pick, BodyIdle, BodyLogin, BodyGenerate, BodyNewKey, Show, Derive
  <2>5. CASE Sample
    BY <2>5 DEF Sample
  <2> QED BY <2>1, <2>2, <2>3, <2>4, <2>5
<1>2. CASE AdcDone
  BY <1>2, <1>a DEF AdcDone
<1>3. CASE Tick
  BY <1>3, <1>a DEF Tick, TickStart, TickFirst, TickDark, TickNext
<1>4. CASE Panic
  BY <1>4, <1>a DEF Panic
<1>5. CASE UNCHANGED vars
  BY <1>5, <1>a DEF vars
<1> QED BY <1>1, <1>2, <1>3, <1>4, <1>5 DEF Next

LEMMA NextConverting ==
    ASSUME LedInv, [Next]_vars
    PROVE  Converting'
<1> USE DEF Converting, Dim, Dark, DimModes, mainVars, tickVars
<1>a. TypeOK /\ Asked /\ Shown /\ Converting
  BY DEF LedInv
<1>1. CASE Main
  <2> USE <1>1, <1>a, MainSteps
  <2>1. CASE (ShowRead \/ ShowGreen \/ ShowWrite \/ ShowOff) /\ UNCHANGED authd
    BY <2>1 DEF ShowRead, ShowGreen, ShowWrite, ShowOff, Return, Asked, Showing,
       TypeOK, MainTypes, ShowTypes, TickTypes
  <2>2. CASE
          \/ (Top \/ Pick) /\ UNCHANGED authd
          \/ BodyIdle \/ BodyLogin \/ BodyNewKey
    BY <2>2 DEF Top, Pick, BodyIdle, BodyLogin, BodyNewKey, Show,
       TypeOK, MainTypes, ShowTypes, TickTypes
  <2>3. CASE BodyGenerate
    <3>1. /\ pc = "body" /\ state = "GENERATE" /\ pc' = "top"
          /\ UNCHANGED <<state, entered, leds, mode>>
          /\ ~adc /\ adc' => ~entered /\ sampling /\ sampling'
          /\ adc => entered \/ ~sampling
      BY <2>3 DEF BodyGenerate, TypeOK, MainTypes
    <3>2. ~adc
      BY <3>1
    <3>3. CASE adc'
      <4>1. arg \in DimModes
        BY <3>1, <3>2, <3>3 DEF Asked
      <4> QED BY <3>1, <3>2, <3>3, <4>1 DEF Shown
    <3> QED BY <3>3
  <2>4. CASE
          \/ Restore /\ UNCHANGED authd
          \/ Sample \/ Derive
    BY <2>4 DEF Restore, Sample, Derive, Asked, Shown, TypeOK, MainTypes, ShowTypes, TickTypes
  <2> QED BY <2>1, <2>2, <2>3, <2>4
<1>2. CASE AdcDone
  BY <1>2, <1>a DEF AdcDone
<1>3. CASE Tick
  BY <1>3, <1>a DEF Tick, TickStart, TickFirst, TickDark, TickNext
<1>4. CASE Panic
  BY <1>4, <1>a DEF Panic
<1>5. CASE UNCHANGED vars
  BY <1>5, <1>a DEF vars
<1> QED BY <1>1, <1>2, <1>3, <1>4, <1>5 DEF Next

LEMMA Inductive == Spec => []LedInv
<1>1. Init => LedInv
  <2>1. Init => TypeOK
    <3>1. Init => MainTypes
      BY DEF Init, MainTypes
    <3>2. Init => ShowTypes
      BY MaxRoundsAssumption, LedOrder DEF Init, ShowTypes, Modes
    <3>3. Init => TickTypes
      <4>1. 1 \in 1..Len(Chase) /\ 0 \in 0..StepMs /\ 0 \in 0..MaxPanics
        BY StepMsAssumption, MaxPanicsAssumption, LedOrder
      <4> QED BY <4>1 DEF Init, TickTypes
    <3> QED BY <3>1, <3>2, <3>3 DEF TypeOK
  <2>2. Init => ChaseLit /\ Asked /\ Shown /\ Converting
    BY DEF Init, ChaseLit, Asked, Shown, Converting, Showing
  <2> QED BY <2>1, <2>2 DEF LedInv
<1>2. LedInv /\ [Next]_vars => LedInv'
  BY NextTypes, NextChaseLit, NextAsked, NextShown, NextConverting DEF LedInv
<1> QED BY <1>1, <1>2, PTL DEF Spec

\* The values of the variables.
THEOREM LedTypes == Spec => []TypeOK
BY Inductive, PTL DEF LedInv

\* No LED is on while a block of noise is converted or the login screen is
\* shown, wherever in Show, Restore or Tick a tick or a panic comes.
THEOREM StaysDark == Spec => []DarkWhenItMatters
<1>1. LedInv => DarkWhenItMatters
  BY DEF LedInv, TypeOK, ShowTypes, Modes, Asked, Shown, Converting, Dim, Dark, DimModes,
     DarkWhenItMatters
<1> QED BY <1>1, Inductive, PTL

\* Outside Tick, the one chase LED that may be on is the one s_lit and s_step
\* say, although a panic may have come between the two writes of a step.
THEOREM TickForgetsNoLed == Spec => []ChaseIsRemembered
<1>1. LedInv => ChaseIsRemembered
  BY DEF LedInv, ChaseLit, ChaseIsRemembered
<1> QED BY <1>1, Inductive, PTL
=============================================================================
