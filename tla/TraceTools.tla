----------------------------- MODULE TraceTools -----------------------------
(***************************************************************************)
(* The trace tools of tools/ at work: a tool attached to the board, the    *)
(* user who types on the serial terminal and presses Enter at the tool's   *)
(* pauses, and the panic button.  The core runs from line to line; at a    *)
(* breakpoint of the tool it halts, the handler of that line reads the     *)
(* memory and renders its screen, pace() waits, and the core goes on.  How *)
(* a command reaches gdb and gets its answer is in GdbSession; here every  *)
(* command is answered.                                                    *)
(***************************************************************************)
EXTENDS TracedBoard, TraceCommon

CONSTANTS
    Tools,        \* the tools that may be attached
    Uses,         \* for each tool, what the user does beside logging in
    PowerWords    \* values of --power-loss

VARIABLES
    tool,         \* the tool attached
    d,            \* its dictionary, or the block it printed last
    pc,           \* "wait" for a stop, or what Handle left to the main loop
    calm,         \* has no panic come since the last stop?
    fixedFor      \* the active sector when a change tool fixed its target

vars == <<boardVars, tool, d, pc, calm, fixedFor>>

Plain     == INSTANCE MkAuthTrace
MkAuth    == INSTANCE MkAuthTraceTui
ChangeMk  == INSTANCE ChangeMkTraceTui
FirstMeet == INSTANCE FirstMeetTraceTui
Retrieval == INSTANCE RetrieveTraceTui
Draft1    == INSTANCE GenerateTraceTui
Draft2    == INSTANCE GenerateTraceTuiV2
Other     == INSTANCE OtherModesTrace

\* The four modes of other_modes_trace.py count as four tools.
OtherMode ==
    [other_first_meet |-> "first_meet", other_change_mk |-> "change_mk",
     other_retrieve |-> "retrieve", other_generate |-> "generate"]
OtherTools == DOMAIN OtherMode

ChangeTools == {"change_mk", "power_loss"}

AllTools ==
    OtherTools \union ChangeTools \union
    {"mk_auth", "mk_auth_tui", "first_meet", "retrieve", "generate", "generate_v2"}

ASSUME ToolsAssumption == Tools \subseteq AllTools

\* No value is no record of a power-loss point, of the fields HandlePowerLoss gives it.
ASSUME NoRecordAssumption ==
    None \notin
        [sector : Sectors, word : PowerWords, crc_ok : BOOLEAN,
         header : [valid : BOOLEAN, status : {"valid", "empty", "INVALID"}, version : Nat,
                   auth : (Keys \X Nat) \union {None}, crc_ok : BOOLEAN \union {None}]]

FreshState(t) ==
    CASE t = "mk_auth"      -> Plain!FreshState
      [] t = "mk_auth_tui"  -> MkAuth!FreshState
      [] t \in ChangeTools  -> ChangeMk!FreshState
      [] t = "first_meet"   -> FirstMeet!FreshState
      [] t = "retrieve"     -> Retrieval!FreshState
      [] t = "generate"     -> Draft1!FreshState
      [] t = "generate_v2"  -> Draft2!FreshState
      [] t \in OtherTools   -> Other!FreshState

Breakpoints(t, dict) ==
    CASE t = "mk_auth"      -> Plain!Breakpoints
      [] t = "mk_auth_tui"  -> MkAuth!Breakpoints
      [] t \in ChangeTools  -> ChangeMk!Breakpoints(dict)
      [] t = "first_meet"   -> FirstMeet!Breakpoints
      [] t = "retrieve"     -> Retrieval!Breakpoints
      [] t = "generate"     -> Draft1!Breakpoints
      [] t = "generate_v2"  -> Draft2!Breakpoints
      [] t \in OtherTools   -> Other!Breakpoints(OtherMode[t])

Handler ==
    CASE tool = "mk_auth"      -> Plain!Handle(d, m)
      [] tool = "mk_auth_tui"  -> MkAuth!Handle(d, m)
      [] tool \in ChangeTools  -> ChangeMk!Handle(d, m)
      [] tool = "first_meet"   -> FirstMeet!Handle(d, m)
      [] tool = "retrieve"     -> Retrieval!Handle(d, m)
      [] tool = "generate"     -> Draft1!Handle(d, m)
      [] tool = "generate_v2"  -> Draft2!Handle(d, m)
      [] tool \in OtherTools   -> Other!Handle(OtherMode[tool], d, m)

HandlerAfter ==
    CASE tool = "mk_auth"      -> Plain!HandleAfter(d, m)
      [] tool = "mk_auth_tui"  -> MkAuth!HandleAfter(d, m)
      [] tool = "first_meet"   -> FirstMeet!HandleAfter(d, m)
      [] tool = "generate"     -> Draft1!HandleAfter(d, m)
      [] tool = "generate_v2"  -> Draft2!HandleAfter(d, m)
      [] tool \in OtherTools   -> Other!HandleAfter(OtherMode[tool], d, m)

Live ==
    CASE tool = "mk_auth"      -> Plain!Live(d)
      [] tool = "mk_auth_tui"  -> MkAuth!Live(d)
      [] tool \in ChangeTools  -> ChangeMk!Live(d)
      [] tool = "first_meet"   -> FirstMeet!Live(d)
      [] tool = "retrieve"     -> Retrieval!Live(d)
      [] tool = "generate"     -> Draft1!Live(d)
      [] tool = "generate_v2"  -> Draft2!Live(d)
      [] tool \in OtherTools   -> Other!Live(d)

-----------------------------------------------------------------------------
\* A board in use, its other slot empty, older, or spoilt by a cut erase; a
\* blank board where a key can be set for the first time.
Used(k) ==
    LET table == [i \in 0..Entries - 1 |->
                    IF i \in Ids THEN Blank ELSE [name |-> 0, pwd |-> <<i>>]]
        p == [magic |-> "magic", version |-> 2, auth |-> <<k, 0>>, table |-> table,
              words |-> TableWords]
    IN {<<p, Erased>>, <<p, [Erased EXCEPT !.magic = "spoilt"]>>,
        <<[p EXCEPT !.version = 1], p>>}

InitialFlash(t) ==
    LET key    == CHOOSE k \in Keys : TRUE
        slots  == (IF t \in {"first_meet", "other_first_meet"} THEN {} ELSE Used(key))
                  \union (IF "first" \in Uses[t] THEN {<<Erased, Erased>>} ELSE {})
    IN {[i \in Sectors |-> s[i - 1]] : s \in slots}

\* connect(), and the breakpoints; the power-loss test reads the flash first.
Init ==
    /\ tool \in Tools
    /\ \E flash \in InitialFlash(tool) : m = Boot(flash, 0, 0)
    /\ IF tool = "power_loss"
         THEN \E w \in PowerWords : d = ChangeMk!ArmPowerLoss(FreshState(tool), m, w)
         ELSE d = FreshState(tool)
    /\ armed = Breakpoints(tool, d)
    /\ halted = FALSE /\ stepping = FALSE
    /\ pc = "wait" /\ calm = FALSE /\ fixedFor = 0

\* The word of a commit at which a breakpoint could stop it.
Word == IF tool = "power_loss" THEN d.power_loss_word ELSE 0

BoardRuns ==
    /\ pc \in {"wait", "stepping"}
    /\ \/ MainLoop
       \/ Uses[tool] \intersect {"first", "change"} # {} /\ SetKey(Word)
       \/ "retrieve" \in Uses[tool] /\ Retrieve
       \/ "generate" \in Uses[tool] /\ Generate(Word)
    /\ UNCHANGED <<tool, d, pc, calm, fixedFor>>

PanicButton ==
    /\ pc \in {"wait", "stepping"}
    /\ Panic
    /\ calm' = FALSE
    /\ UNCHANGED <<tool, d, pc, fixedFor>>

\* The target of a change tool is fixed when it has none, or starts a new run.
FixesTarget ==
    tool \in ChangeTools /\ (d.target_sector = None \/ (d.step = "menu" /\ m.loc = "change87"))

\* A breakpoint: the handler runs while the core is halted.
Stop ==
    /\ pc = "wait" /\ halted
    /\ d' = Handler.d /\ pc' = Handler.then
    /\ calm' = TRUE
    /\ fixedFor' = IF FixesTarget THEN m.s_active ELSE fixedFor
    /\ UNCHANGED <<boardVars, tool>>

\* pace() returns, and the main loop continues the core.
Enter ==
    /\ pc = "pause"
    /\ pc' = "wait" /\ halted' = FALSE
    /\ UNCHANGED <<m, stepping, armed, tool, d, calm, fixedFor>>

\* session.cmd("next"), at once or after a pause in the handler.
Step ==
    /\ pc \in {"next", "pauseNext"}
    /\ pc' = "stepping" /\ stepping' = TRUE /\ halted' = FALSE
    /\ UNCHANGED <<m, armed, tool, d, calm, fixedFor>>

\* The step is over: the rest of the handler, and its pause.
StepOver ==
    /\ pc = "stepping" /\ halted
    /\ d' = HandlerAfter
    /\ pc' = "pause" /\ stepping' = FALSE
    /\ UNCHANGED <<m, halted, armed, tool, calm, fixedFor>>

\* hold_for_power_cut: the CPU is held until the cable is pulled.
PowerCut ==
    /\ pc = "hold"
    /\ Unplug
    /\ pc' = "unplugged"
    /\ UNCHANGED <<tool, d, calm, fixedFor>>

Next == BoardRuns \/ PanicButton \/ Stop \/ Enter \/ Step \/ StepOver \/ PowerCut

Spec == Init /\ [][Next]_vars

-----------------------------------------------------------------------------
OnScreen == pc \in {"pause", "pauseNext", "hold"}

At(t, loc) == OnScreen /\ tool = t /\ m.loc = loc

\* The values of the variables; d has the fields its tool gives it.
TypeOK ==
    /\ tool \in Tools
    /\ pc \in {"wait", "pause", "pauseNext", "next", "stepping", "hold", "ended", "unplugged"}
    /\ halted \in BOOLEAN /\ stepping \in BOOLEAN /\ calm \in BOOLEAN
    /\ fixedFor \in {0} \union Sectors
    /\ DOMAIN d # {}
    /\ m.s_active \in {0} \union Sectors /\ m.runs \in 0..MaxRuns /\ m.panics \in 0..MaxPanics

\* The stops of retrieve_trace_tui.py at which the session is not read again
\* (handle_decrypted and handle_shown), when a panic has closed it since.
PanicUnseen == tool = "retrieve" /\ m.loc \in {"ret34", "ret88"} /\ m.g_state = "INIT"

\* At every pause the state, s_authorized, the session's key and the headers of
\* both partitions on the screen, and the active partition where the tool shows
\* it by number, are those that memory and flash hold while the core stands
\* still, also after a panic, a failed commit or a step; but for the session at
\* PanicUnseen, where the flash alone is (SessionPanelIsLive is the claim without
\* that exception).
ScreenIsCurrent ==
    OnScreen => IsLive(IF PanicUnseen THEN Retrieval!PanelFlash(d) ELSE Live, m)

\* Four tools show nothing of an earlier attempt where they clear or replace it
\* (mk_auth_trace_tui.py 284-289, generate_trace_tui_v2.py 321-323,
\* retrieve_trace_tui.py 265, other_modes_trace.py): the computed key of a login
\* is that of the key shown as typed; the input of a generation is of this run
\* and no save stands there before it; from the menu to the first id a retrieval
\* shows no line, entry or window; and the key shown as retired is the one the
\* old partition opens with, or, when nothing was committed, the session's.  The
\* first draft of generate, first_meet and change_mk keep values of earlier
\* attempts and are not in this property.
OnlyThisAttempt ==
    OnScreen =>
        /\ tool = "mk_auth_tui" /\ d.salt # None
            => MkAuth!PanelComputed(d).auth
                 \in {<<MkAuth!PanelTyped(d).mk, d.salt>>, Garbage}
        /\ tool = "generate_v2"
            => /\ Draft2!PanelInput(d).id = m.id /\ Draft2!PanelInput(d).name = m.name
               /\ m.loc \in {"gen370", "gen386", "gen216"} => Draft2!PanelSave(d).pwd = None
        /\ tool = "retrieve" /\ m.loc \in {"retEnter", "ret34"}
            => /\ Retrieval!PanelInput(d).typed = None /\ Retrieval!PanelRam(d).raw = None
               /\ Retrieval!PanelTable(d).window = None
        /\ tool = "other_change_mk" /\ m.loc = "session202"
            => d.retired = IF m.result = "OK" THEN m.flash[CommitTarget(m)].auth ELSE m.s_key

\* Not so, and in no run: "live, every pause" (retrieve_trace_tui.py 198).
SessionPanelIsLive == OnScreen /\ tool = "retrieve" => IsLive(Retrieval!PanelSession(d), m)

\* Not so, and in no run: the row marked "[active]" is that of the active partition
\* (retrieve_trace_tui.py 210-216).
ActiveIsMarked == OnScreen /\ tool = "retrieve" => Retrieval!PanelFlash(d).marked = m.s_active

\* Not so, and in no run: the header table titled "active partition, sector N" is
\* the header of partition N (mk_auth_trace_tui.py 255-261).
ActiveHeaderIsShown ==
    OnScreen /\ tool = "mk_auth_tui"
        => MkAuth!PanelHeaderTable(d).header = ReadPartitionHeader(m, m.s_active)

\* The verdict on the screen is the branch the firmware then takes, unless a
\* panic comes first: MATCH of the two entries of a new key, MATCH and the
\* result of a login, the id that was parsed, and a draw accepted and its
\* character.
Verdicts ==
    /\ m.loc = "first63" /\ tool = "first_meet"
        => (d.verdict <=> m'.loc = "setNewKey")
    /\ m.loc = "first63" /\ tool = "other_first_meet"
        => (d.verdict <=> m'.loc = "setNewKey")
    /\ m.loc = "change87" /\ tool = "other_change_mk"
        => (d.verdict <=> m'.loc = "change66")
    /\ m.loc = "change87" /\ tool \in ChangeTools
        => (d.confirm_match <=> m'.loc = "change66")
    /\ m.loc = "session161" /\ tool = "mk_auth_tui"
        => (m'.loc = "app167" <=> d.verdict = "MATCH" /\ d.result = "OK")
    /\ m.loc = "ret80" /\ tool = "retrieve" /\ ~Leaves(m.line)
        => m'.printed = IF d.valid THEN d.dec ELSE None
    /\ m.loc = "gen216" /\ tool \in {"generate", "generate_v2"}
        => m'.pwd = IF d.accepted THEN Append(d.pwd_so_far, d.mapped_char) ELSE d.pwd_so_far

VerdictIsTaken ==
    [][ (pc = "wait" /\ calm /\ m' # m /\ m'.panics = m.panics) => Verdicts ]_vars

\* After the firmware has printed an entry the tool shows that entry, or the
\* blank one a panic left, and shows it in the window of the table; the
\* ciphertext beside it is of the same entry.
ShownEntryIsPrinted ==
    /\ At("retrieve", "ret88") =>
        LET shown == Retrieval!PanelInput(d).entry IN
        /\ shown = m.printed \/ (shown = Blank /\ m.g_state = "INIT")
        /\ d.valid => d.entry_id \in DOMAIN d.window /\ d.raw = d.window[d.entry_id]
        /\ d.valid /\ m.g_state # "INIT" => d.raw[1] = shown
    /\ At("other_retrieve", "ret88") =>
        d.entry = m.printed \/ (d.entry = Blank /\ m.g_state = "INIT")

\* The bytes a tool shows of the flash after a save are the proof of it: they
\* are those of the plaintext shown if and only if the commit succeeded.
SavedIsReadBack ==
    OnScreen /\ m.loc = "gen428" =>
        LET shown  == IF tool = "other_generate" THEN [name |-> d.name, pwd |-> d.pwd]
                      ELSE [name |-> d.save_name, pwd |-> d.save_pwd]
            cipher == IF tool = "other_generate" THEN d.cipher ELSE d.save_cipher
        IN (cipher[1] = shown) <=> (m.result = "saved")

\* The partition the dashboard watched through a key change is the one that
\* change has written, if the active partition was still the one it was when the
\* tool fixed its target (change_mk_trace_tui.py 132-133).  It need not be: a
\* login is traced too and keeps an old target, and so does a save in between.
TargetIsWritten ==
    OnScreen /\ tool \in ChangeTools /\ m.loc = "session202" /\ m.result = "OK"
        /\ fixedFor = CommitTarget(m)
        => d.target_sector = m.s_active /\ ChangeMk!PanelHeaderTable(d).header.auth = m.derived

\* The power-loss point says what boot will do: with "BAD" the partition being
\* written is rejected and the next boot opens what was active; else it takes the
\* new one.
PowerLossVerdict ==
    pc = "unplugged" =>
        (ChangeMk!PanelPowerLoss(d).verdict = "boot will reject"
            <=> m.s_active # d.power_loss.sector)
=============================================================================
