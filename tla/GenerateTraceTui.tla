-------------------------- MODULE GenerateTraceTui --------------------------
(***************************************************************************)
(* tools/generate_trace_tui.py: the generation of a password on a          *)
(* dashboard, draft 1.  The dictionary is never cleared.  The samples of a *)
(* round, and the two figures computed from them, are left out: of a round *)
(* the panel's channel is kept.                                            *)
(***************************************************************************)
EXTENDS TraceCommon

FreshState ==
    [highlight |-> None, seen_any |-> FALSE, id |-> None, name |-> None, channel |-> None,
     value |-> None, accepted |-> None, mapped_char |-> None, pwd_so_far |-> <<>>,
     save_id |-> None, save_name |-> None, save_pwd |-> None, save_cipher |-> None,
     g_state |-> None, s_authorized |-> None, active_sector |-> None, flash_a |-> None,
     flash_b |-> None]

\* 390-393.
Breakpoints ==
    {Breakpoint("gen370"), Breakpoint("gen386"), Breakpoint("gen216"), Breakpoint("gen424")}

ReadPersistent(d, x) ==
    [d EXCEPT !.g_state = x.g_state, !.s_authorized = x.s_authorized,
              !.active_sector = x.s_active, !.flash_a = ReadPartitionHeader(x, 2),
              !.flash_b = ReadPartitionHeader(x, 3), !.pwd_so_far = x.pwd]

ReadInput(d, x) == [d EXCEPT !.id = x.id, !.name = x.name]

\* mark_seen: what was typed is read at the first hit of the tool's life only.
HandleAbsorb(d, x, channel) ==
    LET seen == IF d.seen_any THEN d ELSE ReadInput([d EXCEPT !.seen_any = TRUE], x) IN
    ReadPersistent([seen EXCEPT !.highlight = IF d.seen_any THEN "sample" ELSE "input",
                                !.channel = channel], x)

HandleTemp(d, x)  == HandleAbsorb(d, x, "temp")
HandleLight(d, x) == HandleAbsorb(d, x, "light")

\* The verdict is worked out again from the operands of line 216.
HandleMapping(d, x) ==
    LET accepted == x.value < Threshold IN
    ReadPersistent([d EXCEPT !.highlight = "mapping", !.value = x.value,
                             !.accepted = accepted,
                             !.mapped_char = IF accepted THEN x.value % CharsetLen ELSE None],
                   x)

\* The entry, then a step over Session_Save, then the flash.
HandleSave(d, x) ==
    [d EXCEPT !.save_id = x.id, !.save_name = x.name, !.save_pwd = x.pwd]

\* A bug: the address of the entry is worked out before the step.
AfterSaveEarly(d, x) ==
    ReadPersistent([d EXCEPT !.save_cipher =
                        ReadEntries(x, d.active_sector, {d.save_id})[d.save_id],
                             !.highlight = "save"], x)

AfterSave(d, x) ==
    ReadPersistent([d EXCEPT !.save_cipher = ReadEntries(x, x.s_active, {d.save_id})[d.save_id],
                             !.highlight = "save"], x)

\* Round 1 and the first mapping wait for Enter, the rest 0.2 s.
Handle(d, x) ==
    CASE x.loc = "gen370" -> Paused(HandleTemp(d, x))
      [] x.loc = "gen386" -> Paused(HandleLight(d, x))
      [] x.loc = "gen216" -> Paused(HandleMapping(d, x))
      [] x.loc = "gen424" -> Steps(HandleSave(d, x))

HandleAfter(d, x) == AfterSave(d, x)

-----------------------------------------------------------------------------
BorderFor(d, name) == d.highlight = name

PanelInput(d) == [id |-> d.id, name |-> d.name, live |-> BorderFor(d, "input")]

PanelSample(d) == [channel |-> d.channel, live |-> BorderFor(d, "sample")]

PanelMapping(d) ==
    [value |-> d.value,
     verdict |-> IF d.value = None THEN None
                 ELSE IF d.accepted THEN "ACCEPTED" ELSE "REJECTED",
     maps_to |-> d.mapped_char, so_far |-> d.pwd_so_far, live |-> BorderFor(d, "mapping")]

PanelSave(d) ==
    IF d.save_pwd = None THEN [pwd |-> None, cipher |-> None]
    ELSE [pwd |-> d.save_pwd, cipher |-> d.save_cipher]

PanelSession(d) == [g_state |-> d.g_state, s_authorized |-> d.s_authorized]

PanelFlash(d) ==
    [active |-> d.active_sector, flash_a |-> HeaderLine(d.flash_a),
     flash_b |-> HeaderLine(d.flash_b)]

Render(d) ==
    [input |-> PanelInput(d), sample |-> PanelSample(d), mapping |-> PanelMapping(d),
     save |-> PanelSave(d), session |-> PanelSession(d), flash |-> PanelFlash(d)]

Live(d) == Updated(Render(d).session, Render(d).flash)
=============================================================================
