------------------------- MODULE GenerateTraceTuiV2 -------------------------
(***************************************************************************)
(* tools/generate_trace_tui_v2.py: the generation of a password on a       *)
(* dashboard, draft 2.  A new run clears what the last one left, and the   *)
(* save is shown twice: before the commit and after it.  The samples of a  *)
(* round and the figures computed from them are left out.                  *)
(***************************************************************************)
EXTENDS TraceCommon

FreshState ==
    [highlight |-> None, seen_input |-> FALSE, id |-> None, name |-> None, channel |-> None,
     value |-> None, accepted |-> None, mapped_char |-> None, pwd_so_far |-> <<>>,
     write_phase |-> None, save_id |-> None, save_name |-> None, save_pwd |-> None,
     save_cipher |-> None, g_state |-> None, s_authorized |-> None, session_key |-> None,
     active_sector |-> None, flash_a |-> None, flash_b |-> None, entries |-> None]

\* 443-446.
Breakpoints ==
    {Breakpoint("gen370"), Breakpoint("gen386"), Breakpoint("gen216"), Breakpoint("gen424")}

ReadInput(d, x) ==
    IF d.seen_input THEN d ELSE [d EXCEPT !.id = x.id, !.name = x.name, !.seen_input = TRUE]

ReadPersistent(d, x) ==
    [d EXCEPT !.g_state = x.g_state, !.s_authorized = x.s_authorized,
              !.session_key = x.s_key, !.active_sector = x.s_active,
              !.flash_a = ReadPartitionHeader(x, 2), !.flash_b = ReadPartitionHeader(x, 3),
              !.pwd_so_far = x.pwd,
              !.entries = ReadEntries(x, x.s_active, 0..Entries - 1)]

\* A bug: the dictionary of the last run is kept.
HandleAbsorbKept(d, x, channel) ==
    ReadPersistent(
        [ReadInput(d, x) EXCEPT
            !.highlight = IF x.rounds = 1 /\ channel = "temp" THEN "input" ELSE "sample",
            !.channel = channel], x)

\* The first temperature round is the start of a run.
HandleAbsorb(d, x, channel) ==
    LET starts == x.rounds = 1 /\ channel = "temp"
        run    == IF starts THEN Updated(d, FreshState) ELSE d
    IN ReadPersistent([ReadInput(run, x) EXCEPT
                          !.highlight = IF starts THEN "input" ELSE "sample",
                          !.channel = channel], x)

HandleTemp(d, x)  == HandleAbsorb(d, x, "temp")
HandleLight(d, x) == HandleAbsorb(d, x, "light")

HandleMapping(d, x) ==
    LET accepted == x.value < Threshold IN
    ReadPersistent([ReadInput(d, x) EXCEPT
                        !.highlight = "mapping", !.value = x.value, !.accepted = accepted,
                        !.mapped_char = IF accepted THEN x.value % CharsetLen ELSE None], x)

\* Pending: the commit has not run.  Done: the flash is read again.
HandleSave(d, x) ==
    ReadPersistent([d EXCEPT !.save_id = x.id, !.save_name = x.name, !.save_pwd = x.pwd,
                             !.write_phase = "pending", !.highlight = "save"], x)

\* A bug: of the flash, only the entry is read again.
AfterSaveUnread(d, x) ==
    [d EXCEPT !.write_phase = "done",
              !.save_cipher = ReadEntries(x, d.active_sector, {d.save_id})[d.save_id]]

AfterSave(d, x) ==
    LET seen == ReadPersistent([d EXCEPT !.write_phase = "done"], x)
    IN  [seen EXCEPT !.save_cipher =
                        ReadEntries(x, seen.active_sector, {d.save_id})[d.save_id]]

\* Round 1, the first mapping and both moments of a save wait for Enter.
Handle(d, x) ==
    CASE x.loc = "gen370" -> Paused(HandleTemp(d, x))
      [] x.loc = "gen386" -> Paused(HandleLight(d, x))
      [] x.loc = "gen216" -> Paused(HandleMapping(d, x))
      [] x.loc = "gen424" -> PausesSteps(HandleSave(d, x))

HandleAfter(d, x) == AfterSave(d, x)

-----------------------------------------------------------------------------
BorderFor(d, name) == d.highlight = name

PanelInput(d) ==
    IF ~d.seen_input THEN [id |-> None, name |-> None]
    ELSE [id |-> d.id, name |-> d.name, live |-> BorderFor(d, "input")]

PanelSample(d) == [channel |-> d.channel, live |-> BorderFor(d, "sample")]

PanelMapping(d) ==
    [value |-> d.value,
     verdict |-> IF d.value = None THEN None
                 ELSE IF d.accepted THEN "ACCEPTED" ELSE "REJECTED",
     maps_to |-> d.mapped_char, so_far |-> d.pwd_so_far, live |-> BorderFor(d, "mapping")]

PanelSave(d) ==
    IF d.save_pwd = None THEN [pwd |-> None, cipher |-> None]
    ELSE [pwd |-> d.save_pwd,
          cipher |-> IF d.write_phase = "pending" THEN None ELSE d.save_cipher]

\* s_authorized is gdb's text, "true" or "false", and always true of a string:
\* the key is shown, never "zeroed - no session yet".
PanelSession(d) ==
    [g_state |-> d.g_state, s_authorized |-> d.s_authorized, s_key |-> d.session_key]

\* "became active" stands there once the step is over, whatever it returned.
PanelFlash(d) ==
    [active |-> d.active_sector, flash_a |-> HeaderLine(d.flash_a),
     flash_b |-> HeaderLine(d.flash_b),
     caption |-> CASE d.write_phase = "pending" -> "about to write the inactive partition"
                   [] d.write_phase = "done"    -> "the inactive one became active"
                   [] OTHER                     -> None]

\* The row of the entry, "writing" and then "written".
PanelEntries(d) ==
    [entries |-> d.entries,
     marked |-> IF d.write_phase = None THEN None ELSE <<d.save_id, d.write_phase>>]

Render(d) ==
    [input |-> PanelInput(d), sample |-> PanelSample(d), mapping |-> PanelMapping(d),
     save |-> PanelSave(d), session |-> PanelSession(d), flash |-> PanelFlash(d),
     entries |-> PanelEntries(d)]

Live(d) == Updated(Render(d).session, Render(d).flash)
=============================================================================
