---------------------------- MODULE ServerProcess ----------------------------
(***************************************************************************)
(* The process: main of __main__.py, the configuration it loads and checks *)
(* (config.py), the two servers it runs side by side in one event loop,    *)
(* and the command line's tool calls (cli.py), up to the exit code.        *)
(*                                                                         *)
(* The web servers are uvicorn's: what they do on their own (fail to       *)
(* start, end on a signal, exit when the port is taken) is left open. The  *)
(* clients of the sessions of the MCP server are ClientPool's matter.      *)
(***************************************************************************)
EXTENDS Naturals

Commands == {"server", "gui_only", "check", "check_gui_only", "list", "call_offline",
             "call_remote", "no_subcommand"}

\* What the environment variables and the cluster file amount to. loads: load_config
\* returns, raises an error main expects, or another one; urls: what the MCP library
\* and the metrics server need, which nothing validates; stdout: whoever reads what the
\* command line prints reads it to the end.
Settings == [loads : {"well", "refused", "badly"}, key : {"none", "short", "good"},
             clusters : {"none", "distinct", "duplicate"}, gui : BOOLEAN,
             secret : BOOLEAN, password : BOOLEAN, level : BOOLEAN, urls : BOOLEAN,
             stdout : BOOLEAN]

VARIABLES
    cmd, env,       \* the command line and the environment
    phase,          \* where main is
    code,           \* the exit code, once it is known
    task,           \* the state of the MCP server and of the GUI's
    pool,           \* the client pools of the GUI and of the command line
    tool,           \* what became of the tool a command called
    asked           \* a signal has asked the process to stop

vars == <<cmd, env, phase, code, task, pool, tool, asked>>

Phases == {"begun", "pinging", "calling", "closing", "remote", "serving", "leaving", "exited"}
TaskStates == {"none", "begun", "starting", "serving", "closing", "returned", "raised", "exits"}
PoolStates == {"none", "opening", "open", "abandoned", "shut", "leaking"}
Servers == {"mcp", "gui"}

\* Exit codes: 0 .. 3 as in the code, Interrupted for what Python makes of Ctrl-C, and
\* Unflushed for output it could not deliver when it ended.
Interrupted == 130
Unflushed == 120
Codes == 0 .. 3 \union {Interrupted, Unflushed}

TypeOK ==
    /\ cmd \in Commands /\ env \in Settings
    /\ phase \in Phases
    /\ code \in Codes
    /\ task \in [Servers -> TaskStates]
    /\ pool \in [{"gui", "cli"} -> PoolStates]
    /\ tool \in {"unsent", "done", "failed"}
    /\ asked \in BOOLEAN

-------------------------------------------------------------------------------
(* Configuration *)

\* validate_config: the errors it lists.
KeyErrors(strict) == IF strict /\ env.key # "good" THEN {"MCP_API_KEY"} ELSE {}

DuplicatesAccepted ==               \* mutant: names are not compared
    IF env.clusters = "none" THEN {"clusters"} ELSE {}

ClusterErrors == IF env.clusters # "distinct" THEN {"clusters"} ELSE {}

GuiErrors(strict) ==
    IF ~env.gui THEN {}
    ELSE (IF env.secret THEN {} ELSE {"GUI_SESSION_SECRET"})
         \union (IF strict /\ ~env.password THEN {"GUI_PASSWORD"} ELSE {})

LevelErrors == IF env.level THEN {} ELSE {"LOG_LEVEL"}

Errors(strict) == KeyErrors(strict) \union ClusterErrors \union GuiErrors(strict) \union LevelErrors

Strict == cmd \in {"server", "check"}
Valid == env.loads = "well" /\ Errors(Strict) = {}

-------------------------------------------------------------------------------
Init ==
    /\ cmd \in Commands
    /\ env \in Settings
    /\ phase = "begun" /\ code = 0
    /\ task = [t \in Servers |-> "none"]
    /\ pool = [p \in {"gui", "cli"} |-> "none"]
    /\ tool = "unsent"
    /\ asked = FALSE

Exit(c) == phase' = "exited" /\ code' = c

\* The process prints a result and exits with c; if nobody reads it, print raises or what
\* it left in its buffer is lost at the end.
PrintAndExit(c) == \E d \in IF env.stdout THEN {c} ELSE {1, Unflushed} : Exit(d)

\* load_config and validate_config refuse, or load_config fails in a way nobody expects:
\* a traceback.
Refuse ==
    \/ env.loads = "badly" /\ Exit(1)
    \/ ~Valid /\ env.loads # "badly" /\ Exit(2)

\* main up to the point where something runs.
StartServers ==
    /\ phase = "begun"
    /\ cmd \in {"server", "gui_only", "check", "check_gui_only"}
    /\ \/ Refuse /\ UNCHANGED task
       \/ Valid /\ cmd \in {"check", "check_gui_only"} /\ Exit(0) /\ UNCHANGED task
       \/ Valid /\ cmd = "server" /\ ~env.urls /\ Exit(1) /\ UNCHANGED task   \* build_server raises
       \/ /\ Valid
          /\ cmd = "gui_only" \/ (cmd = "server" /\ env.urls)
          /\ phase' = "serving"
          /\ task' = [t \in Servers |->
                        IF \/ t = "mcp" /\ cmd = "server"
                           \/ t = "gui" /\ (cmd = "gui_only" \/ env.gui)
                        THEN "begun" ELSE "none"]
          /\ UNCHANGED code
    /\ UNCHANGED <<cmd, env, pool, tool, asked>>

\* run_tools_command: what needs no pool.
StartTools ==
    /\ phase = "begun"
    /\ \/ cmd = "no_subcommand" /\ Exit(2)
       \/ cmd = "list" /\ PrintAndExit(0)
       \/ cmd \in {"call_offline", "call_remote"} /\ Exit(2)      \* --arg is not KEY=VALUE
       \/ cmd = "call_offline" /\ env.loads = "refused" /\ Exit(2)
       \/ cmd = "call_offline" /\ env.loads = "badly" /\ Exit(1)
       \/ cmd = "call_remote" /\ env.key = "none" /\ Exit(2)
       \/ cmd = "call_remote" /\ env.key # "none" /\ phase' = "remote" /\ UNCHANGED code
    /\ UNCHANGED <<cmd, env, task, pool, tool, asked>>

-------------------------------------------------------------------------------
(* tools call, offline: _call_offline *)

Pool(p, state) == pool' = [pool EXCEPT ![p] = state]

\* pool.startup, without validate_config.
OpenPool ==
    /\ phase = "begun" /\ cmd = "call_offline" /\ env.loads = "well"
    /\ phase' = "pinging"
    /\ Pool("cli", "opening")
    /\ UNCHANGED <<cmd, env, code, task, tool, asked>>

\* The pool is up, and an unknown tool closes it again; or startup raises, as when httpx
\* refuses the settings of a client that is made: a traceback, outside of any try.
Resolve ==
    /\ phase = "pinging"
    /\ \/ phase' = "calling" /\ Pool("cli", "open") /\ UNCHANGED code
       \/ phase' = "closing" /\ Pool("cli", "open") /\ code' = 2
       \/ Exit(1) /\ Pool("cli", "abandoned")
    /\ UNCHANGED <<cmd, env, task, tool, asked>>

AlwaysZero(result) == 0             \* mutant: the result is printed, not looked at

\* _exit_code_for_result
ExitCode(result) == IF result = "failed" THEN 1 ELSE 0

\* The tool's answer; an exception becomes a failed result.
ToolEnds ==
    /\ phase = "calling"
    /\ tool' \in {"done", "failed"}
    /\ code' = ExitCode(tool')
    /\ phase' = "closing"
    /\ UNCHANGED <<cmd, env, task, pool, asked>>

\* shutdown closes the clients the pool knows: of two with one name, the second.
ShutState == IF env.clusters = "duplicate" THEN "leaking" ELSE "shut"

\* The finally of a call; its result, if it has one, is printed after that.
ClosePool ==
    /\ phase = "closing"
    /\ Pool("cli", ShutState)
    /\ IF code \in {0, 1} THEN PrintAndExit(code) ELSE Exit(code)
    /\ UNCHANGED <<cmd, env, task, tool, asked>>

\* Ctrl-C cancels the call: its finally closes the pool, unless it is being opened.
Interrupt ==
    /\ phase \in {"pinging", "calling", "closing"}
    /\ ~asked
    /\ asked' = TRUE
    /\ code' = Interrupted
    /\ IF phase = "calling"
       THEN phase' = "closing" /\ tool' \in {"unsent", "done"} /\ UNCHANGED pool
       ELSE phase' = "exited" /\ Pool("cli", "abandoned") /\ UNCHANGED tool
    /\ UNCHANGED <<cmd, env, task>>

(* tools call, remote: _call_remote *)

\* What the server did, and what arrives of it within the 60 seconds: an error of
\* HTTP, something that is not JSON, a JSON-RPC error, a result with "ok": false ...
RemoteFails ==
    /\ phase = "remote"
    /\ tool' \in {"unsent", "done", "failed"}
    /\ Exit(1) \/ PrintAndExit(1)
    /\ UNCHANGED <<cmd, env, task, pool, asked>>

\* ... or a result, which may also be an error the MCP library words as plain text.
RemoteAnswers ==
    /\ phase = "remote"
    /\ tool' \in {"done", "failed"}
    /\ PrintAndExit(0)
    /\ UNCHANGED <<cmd, env, task, pool, asked>>

-------------------------------------------------------------------------------
(* The two servers *)

Goes(t, state) == task' = [task EXCEPT ![t] = state]
GuiPool(t, state) == IF t = "gui" THEN Pool("gui", state) ELSE UNCHANGED pool
Running(t) == task[t] \in {"begun", "starting", "serving", "closing"}

\* build_app, or building the MCP library's application, may raise.
Build(t) ==
    /\ phase = "serving" /\ task[t] = "begun"
    /\ \/ Goes(t, "raised") /\ UNCHANGED pool
       \/ Goes(t, "starting") /\ GuiPool(t, "opening")
    /\ UNCHANGED <<cmd, env, phase, code, tool, asked>>

\* The lifespan of the GUI starts its pool. If it fails uvicorn returns, if the port
\* is taken uvicorn ends the lifespan and exits, which stops the event loop.
Started(t) ==
    /\ phase = "serving" /\ task[t] = "starting"
    /\ \/ Goes(t, "serving") /\ GuiPool(t, "open") /\ UNCHANGED <<phase, code>>
       \/ Goes(t, "returned") /\ GuiPool(t, "abandoned") /\ UNCHANGED <<phase, code>>
       \/ Goes(t, "exits") /\ GuiPool(t, ShutState) /\ phase' = "leaving" /\ code' = 1
    /\ UNCHANGED <<cmd, env, tool, asked>>

\* A signal; which of the two servers it reaches is uvicorn's matter.
Signal ==
    /\ phase = "serving" /\ ~asked
    /\ asked' = TRUE
    /\ UNCHANGED <<cmd, env, phase, code, task, pool, tool>>

Stops(t) ==
    /\ phase = "serving" /\ task[t] = "serving"
    /\ asked
    /\ Goes(t, "closing")
    /\ UNCHANGED <<cmd, env, phase, code, pool, tool, asked>>

Fails(t) ==
    /\ phase = "serving" /\ task[t] = "serving"
    /\ Goes(t, "raised") /\ GuiPool(t, ShutState)
    /\ UNCHANGED <<cmd, env, phase, code, tool, asked>>

\* The finally of the lifespan.
Closed(t) ==
    /\ task[t] = "closing"
    /\ Goes(t, "returned") /\ GuiPool(t, ShutState)
    /\ UNCHANGED <<cmd, env, phase, code, tool, asked>>

-------------------------------------------------------------------------------
(* How they end together *)

Raised == \E t \in Servers : task[t] = "raised"
AllEnded == \A t \in Servers : ~Running(t)
Both == \A t \in Servers : task[t] # "none"

WaitForAny ==                       \* mutant: FIRST_COMPLETED
    /\ phase = "serving"
    /\ \E t \in Servers : task[t] \in {"returned", "raised"}
    /\ phase' = "leaving" /\ code' = 0
    /\ UNCHANGED <<cmd, env, task, pool, tool, asked>>

WaitForAll ==                       \* mutant: ALL_COMPLETED
    /\ phase = "serving" /\ AllEnded
    /\ phase' = "leaving" /\ code' = 0
    /\ UNCHANGED <<cmd, env, task, pool, tool, asked>>

\* _run_both waits for the first exception and exits with 0 whatever it was; a server
\* that is alone passes its exception, or uvicorn's failure to start, on.
Wait ==
    /\ phase = "serving"
    /\ Raised \/ AllEnded
    /\ phase' = "leaving"
    /\ code' = IF Both THEN 0
               ELSE IF Raised THEN 1
               ELSE IF cmd = "gui_only" /\ pool["gui"] = "abandoned" THEN 3 ELSE 0
    /\ UNCHANGED <<cmd, env, task, pool, tool, asked>>

\* The tasks that are left are cancelled, by _run_both or by asyncio.run, ...
Cancel(t) ==
    /\ phase = "leaving"
    /\ \/ task[t] = "begun" /\ Goes(t, "returned") /\ UNCHANGED pool
       \/ task[t] = "starting" /\ Goes(t, "returned") /\ GuiPool(t, "abandoned")
       \/ task[t] = "serving" /\ Goes(t, "closing") /\ UNCHANGED pool
    /\ UNCHANGED <<cmd, env, phase, code, tool, asked>>

\* ... and waited for. A signal the server hands back to Python changes the code.
Leave ==
    /\ phase = "leaving" /\ AllEnded
    /\ phase' = "exited"
    /\ \/ UNCHANGED code
       \/ asked /\ code' = Interrupted
    /\ UNCHANGED <<cmd, env, task, pool, tool, asked>>

WindUp == Wait \/ Leave \/ \E t \in Servers : Cancel(t) \/ Closed(t)

Next ==
    \/ StartServers \/ StartTools
    \/ OpenPool \/ Resolve \/ ToolEnds \/ ClosePool \/ Interrupt
    \/ RemoteFails \/ RemoteAnswers
    \/ \E t \in Servers : Build(t) \/ Started(t) \/ Stops(t) \/ Fails(t)
    \/ Signal
    \/ WindUp

\* The event loop runs a coroutine that can run, and closing a client ends.
Spec == Init /\ [][Next]_vars /\ WF_vars(WindUp)

-------------------------------------------------------------------------------
(* Properties *)

\* cli.py:16-17: the command line "exits non-zero on a tool-level error". Offline, 0 is
\* for a tool that did its work, also when the call is interrupted; 2 is for a call that
\* has not reached any tool; and 1, when the result could be printed, for a tool that
\* failed, or for a call that came to no tool because its pool never came up. (Remotely,
\* an error the MCP library words as plain text exits with 0.)
ExitTellsOutcome ==
    phase = "exited" /\ cmd \in {"call_offline", "call_remote"}
        => /\ code = 2 => tool = "unsent"
           /\ cmd = "call_offline" /\ code = 0 => tool = "done"
           /\ cmd = "call_offline" /\ code = 1 /\ env.stdout =>
                 \/ tool = "failed"
                 \/ tool = "unsent" /\ pool["cli"] \in {"none", "abandoned"}

\* When the process has ended, however its servers came to an end together, the GUI's
\* pool has been shut down with every client it made, unless it was never up:
\* shutdown closes one client for each name, and validation lets no name pass twice.
\* The command line, which does not validate, may leave clients of one name open, and
\* what a startup that raised or was interrupted has made is closed by nobody.
PoolsShut ==
    phase = "exited" =>
        /\ pool["gui"] \in {"none", "shut", "abandoned"}
        /\ pool["cli"] \in {"none", "shut", "abandoned", "leaking"}
        /\ pool["cli"] = "leaking" => env.clusters = "duplicate"

\* __main__.py:165: an exception in one of the servers ends the process, whatever the
\* other one is doing: it is not left running alone.
FailureEndsProcess == \A t \in Servers : task[t] = "raised" ~> phase = "exited"

\* ... and it is only then, on a signal, or when uvicorn gives up, that a server that
\* is up is stopped: a server that ends normally does not take the other along.
StopsForAReason ==
    [][\A t \in Servers :
          task[t] = "serving" /\ task'[t] = "closing"
              => asked \/ Raised \/ \E u \in Servers : task[u] = "exits"]_vars
===============================================================================
