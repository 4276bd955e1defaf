-------------------------- MODULE ChangeMkTraceTui --------------------------
(***************************************************************************)
(* tools/change_mk_trace_tui.py: the change of the master key on a         *)
(* dashboard, and the power-loss test.  The line at which a key has been   *)
(* derived is watched in every mode, so that a login is traced as well.    *)
(***************************************************************************)
EXTENDS TraceCommon

FreshState ==
    [step |-> "menu", typed_mk |-> None, policy_ok |-> None, confirm_match |-> None,
     old_raw |-> None, old_dec |-> None, old_count |-> None, first_used |-> None,
     salt |-> None, auth |-> None, enc |-> None, target_sector |-> None,
     commit_key |-> None, commit_entry0 |-> None, session_key |-> None,
     s_authorized |-> None, g_state |-> None, active_sector |-> None, flash_a |-> None,
     flash_b |-> None, header_raw |-> None, window |-> None, power_loss |-> None]

ReadSession(d, x) ==
    [d EXCEPT !.g_state = x.g_state, !.s_authorized = x.s_authorized, !.session_key = x.s_key]

\* The magic, and what boot asks beside it.
Header(x, s) ==
    LET hdr == ReadPartitionHeader(x, s)
    IN  Updated(hdr, [crc_ok |-> IF hdr.valid THEN ReadPartitionCrcOk(x, s) ELSE None])

ReadFlash(d, x) ==
    [d EXCEPT !.active_sector = x.s_active, !.flash_a = Header(x, 2), !.flash_b = Header(x, 3)]

TargetPartition(d) == IF d.active_sector = 2 THEN 3 ELSE 2

HeaderOf(d, sector) == IF sector = 3 THEN d.flash_b ELSE d.flash_a

\* A bug: the target is worked out anew at every pause.
ReadTargetWindowAnew(d, x) ==
    LET sector == TargetPartition(d)
    IN  [d EXCEPT !.target_sector = sector, !.header_raw = HeaderOf(d, sector),
                  !.window = ReadEntries(x, sector, 0..Entries - 1)]

\* The target of the first pause is kept until the next fresh_state().
ReadTargetWindow(d, x) ==
    LET sector == IF d.target_sector # None THEN d.target_sector ELSE TargetPartition(d)
    IN  [d EXCEPT !.target_sector = sector, !.header_raw = HeaderOf(d, sector),
                  !.window = ReadEntries(x, sector, 0..Entries - 1)]

Read(d, x) == ReadTargetWindow(ReadFlash(ReadSession(d, x), x), x)

\* pause_or_fast: the first pause of each step waits for Enter, later ones 0.2 s.
PauseOrFast(d) == Paused(d)

HandleConfirm(d, x) ==
    LET start == IF d.step = "menu" THEN Updated(d, FreshState) ELSE d IN
    Read([start EXCEPT !.typed_mk = x.s_new, !.policy_ok = (x.s_new \in Keys),
                       !.confirm_match = (x.line = x.s_new), !.step = "typed"], x)

Used(table) == {i \in DOMAIN table : table[i] # Blank}
FirstUsed(table) ==
    IF Used(table) = {} THEN 0 ELSE CHOOSE i \in Used(table) : \A j \in Used(table) : i <= j

HandleOld(d, x) ==
    LET seen  == ReadFlash(ReadSession([d EXCEPT !.step = "old"], x), x)
        first == FirstUsed(x.table)
    IN ReadTargetWindow(
         [seen EXCEPT !.old_count = Cardinality(Used(x.table)), !.first_used = first,
                      !.old_raw = ReadEntries(x, seen.active_sector, {first})[first],
                      !.old_dec = x.table[first]], x)

HandleDerived(d, x) ==
    Read([d EXCEPT !.step = "derived", !.salt = x.salt, !.auth = x.derived], x)

\* first_used is unbound arithmetic when the run began after line 66.
HandleCommitted(d, x) ==
    LET seen == Read([d EXCEPT !.step = "committed", !.enc = x.derived], x) IN
    IF seen.first_used = None
      THEN Raises(seen)
      ELSE PauseOrFast(
             [seen EXCEPT !.commit_key = seen.enc,
                          !.commit_entry0 = ReadEntries(x, seen.target_sector,
                                                        {seen.first_used})[seen.first_used]])

HandleMenu(d, x) == Read([d EXCEPT !.step = "menu"], x)

\* Armed for the partition that is inactive when the tool connects.
ArmPowerLoss(d, x, word) ==
    LET seen == ReadFlash(d, x) IN
    Updated(seen, [power_loss_sector |-> TargetPartition(seen), power_loss_word |-> word])

HandlePowerLoss(d, x) ==
    LET sector == d.power_loss_sector
        seen   == Read(d, x)
    IN Holds([seen EXCEPT !.step = "power_loss",
                          !.power_loss = [sector |-> sector, word |-> d.power_loss_word,
                                          header |-> HeaderOf(seen, sector),
                                          crc_ok |-> ReadPartitionCrcOk(x, sector)]])

\* main() 522-536: the menu line is not watched in the power-loss test, for
\* the board has six comparators.
Breakpoints(d) ==
    {Breakpoint("change87"), Breakpoint("change66"), Breakpoint("kdf78"),
     Breakpoint("session202"),
     IF "power_loss_sector" \in DOMAIN d
       THEN [Breakpoint("flash72") EXCEPT !.sector = d.power_loss_sector]
       ELSE Breakpoint("app211")}

Handle(d, x) ==
    CASE x.loc = "change87"   -> PauseOrFast(HandleConfirm(d, x))
      [] x.loc = "change66"   -> PauseOrFast(HandleOld(d, x))
      [] x.loc = "kdf78"      -> PauseOrFast(HandleDerived(d, x))
      [] x.loc = "session202" -> HandleCommitted(d, x)
      [] x.loc = "app211"     -> PauseOrFast(HandleMenu(d, x))
      [] x.loc = "flash72"    -> HandlePowerLoss(d, x)

-----------------------------------------------------------------------------
PanelInput(d) ==
    [new_mk |-> d.typed_mk, policy |-> d.policy_ok, confirm |-> d.confirm_match,
     live |-> d.step = "typed"]

PanelOld(d) ==
    [first |-> d.first_used, raw |-> d.old_raw, dec |-> d.old_dec, used |-> d.old_count,
     live |-> d.step = "old"]

PanelSession(d) ==
    [g_state |-> d.g_state, s_authorized |-> d.s_authorized, s_key |-> d.session_key,
     live |-> d.step \in {"committed", "menu"}]

\* "salt (new)" is the salt of whatever derivation came last.
PanelDerive(d) ==
    [salt |-> d.salt, auth |-> d.auth, enc |-> d.enc,
     live |-> d.step \in {"derived", "committed"}]

PanelCommit(d) ==
    IF d.commit_entry0 = None THEN [target |-> None]
    ELSE [target |-> d.target_sector, first |-> d.first_used, entry |-> d.commit_entry0,
          key |-> d.commit_key, live |-> d.step = "committed"]

FlashStatusText(hdr) ==
    CASE ~hdr.valid                -> hdr.status
      [] hdr.valid /\ hdr.crc_ok  -> "valid"
      [] hdr.valid /\ ~hdr.crc_ok -> "CRC BAD"

PanelFlash(d) ==
    [active |-> d.active_sector, flash_a |-> HeaderLine(d.flash_a),
     flash_b |-> HeaderLine(d.flash_b), status_a |-> FlashStatusText(d.flash_a),
     status_b |-> FlashStatusText(d.flash_b)]

\* "just written" after every end of Session_SetNewKey, else "its old header".
PanelHeaderTable(d) ==
    [header |-> d.header_raw, sector |-> d.target_sector, written |-> d.step = "committed"]

PanelTable(d) ==
    [window |-> d.window, sector |-> d.target_sector,
     hot |-> IF d.step = "committed" THEN d.first_used ELSE None]

\* The verdict of the boot check, and the advice to log in with the OLD key.
PanelPowerLoss(d) ==
    IF d.power_loss = None THEN [verdict |-> None]
    ELSE [sector |-> d.power_loss.sector, header |-> d.power_loss.header,
          next_is_shown |-> d.power_loss.word + 1 < TableWords,
          verdict |-> IF d.power_loss.crc_ok THEN "looks complete" ELSE "boot will reject"]

Render(d) ==
    [input |-> PanelInput(d), old |-> PanelOld(d), session |-> PanelSession(d),
     derive |-> PanelDerive(d), commit |-> PanelCommit(d), flash |-> PanelFlash(d),
     header |-> PanelHeaderTable(d), table |-> PanelTable(d), power |-> PanelPowerLoss(d)]

Live(d) == Updated(Render(d).session, Render(d).flash)
=============================================================================
