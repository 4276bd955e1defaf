---------------------------- MODULE MkAuthTrace ----------------------------
(***************************************************************************)
(* tools/mk_auth_trace.py: the login, printed block by block.  d is the    *)
(* block on the terminal; the tool itself remembers nothing.               *)
(***************************************************************************)
EXTENDS TraceCommon

FreshState == [block |-> None]

\* 123-127.  The derivation is shared with the modes that set a key.
Breakpoints ==
    {Breakpoint("auth"), OnlyIn("kdf78", "MK_AUTH"), Breakpoint("session161"),
     Breakpoint("app167")}

HandleBp1(x) == [block |-> "typed", mk |-> x.mk, base |-> DumpBaseState(x)]

HandleBp2(x) ==
    [block |-> "computed", salt |-> x.salt, auth |-> x.derived, enc |-> x.derived,
     base |-> DumpBaseState(x)]

HandleBp3(x) ==
    [block |-> "compared", auth |-> x.derived, header_auth |-> x.flash[x.s_active].auth,
     verdict |-> x.derived = x.flash[x.s_active].auth, result |-> x.result,
     base |-> DumpBaseState(x)]

\* g_state before, a step over the assignment, g_state after.
HandleBp4(x) == [block |-> "stepping", before |-> x.g_state]
AfterBp4(d, x) ==
    [block |-> "transition", before |-> d.before, after |-> x.g_state,
     base |-> DumpBaseState(x)]

\* The loop of main(): one handler for each breakpoint, and a pause.
Handle(d, x) ==
    CASE x.loc = "auth"       -> Paused(HandleBp1(x))
      [] x.loc = "kdf78"      -> Paused(HandleBp2(x))
      [] x.loc = "session161" -> Paused(HandleBp3(x))
      [] x.loc = "app167"     -> Steps(HandleBp4(x))

HandleAfter(d, x) == AfterBp4(d, x)

Live(d) == d.base
=============================================================================
