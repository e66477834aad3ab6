-------------------------- MODULE DebugController --------------------------
(***************************************************************************)
(* The debugger of the IDE (ide/debugcontroller.cpp): the thread of the    *)
(* user interface takes the commands, a debugger thread of each session    *)
(* starts the program under Windows' debugging interface, reads its debug  *)
(* events and lets it continue.  The two talk by four manual-reset events  *)
(* (set and reset by both), by flags without a lock (started, running),    *)
(* and by window messages, which block the debugger thread until the user  *)
(* interface has handled them.                                             *)
(*                                                                         *)
(* A step is what lies between two uses of the shared events and flags.    *)
(* Left out: breakpoints, source lines and the watch, which are data.      *)
(***************************************************************************)
EXTENDS Naturals

CONSTANT MaxSessions   \* how many debugging sessions are started

ASSUME SessionAssumption == MaxSessions \in Nat \ {0}

Sessions == 1 .. MaxSessions
Events == {"CLOSE", "SUSPEND", "RESUME", "ACTIVE"}
Commands == {"run", "step", "over"}   \* run; stepInto, or runToCursor to a known line; stepOver
Reports == {"create", "other", "hook", "line", "fault", "rip", "exit"}

VARIABLES
  \* the IDE and the controller
  modelRunning,    \* IDEModel::running: a command is under way
  ui,              \* where the thread of the user interface is
  command,         \* the command it carries out
  asked,           \* Stop has been pressed and the end not been shown yet
  started,         \* DebugController::_started
  running,         \* DebugController::_running
  autoNextLine,    \* _postponed.autoNextLine
  \* the debugger threads
  session,         \* the number of sessions begun
  dbg,             \* where the debugger thread of each session is
  \* the debug process and its events
  open,            \* the event handles exist
  events,          \* the events that are set
  processStarted,  \* Win32DebugProcess::_started
  current,         \* _current is a thread, not a null pointer
  trapped,         \* _trapped
  hook,            \* _init_breakpoint: "off" (0), "armed" (INVALID_ADDR), "done" (an address)
  exception,       \* _exception.code is not 0
  \* the operating system: the program under the debugger
  debuggee,        \* "none", "executes", "reported", "held", "gone"
  report,          \* the debug event it has reported
  doomed,          \* TerminateProcess has been called
  \* the user
  patient          \* gives no command between Stop and the end of the session

uiVars == <<modelRunning, ui, command, asked, patient>>
flagVars == <<started, running, autoNextLine>>
threadVars == <<session, dbg>>
eventVars == <<open, events>>
processVars == <<processStarted, current, trapped, hook, exception>>
osVars == <<debuggee, report, doomed>>
vars == <<uiVars, flagVars, threadVars, eventVars, processVars, osVars>>

Init ==
  /\ modelRunning = FALSE /\ ui = "idle" /\ command = "run" /\ asked = FALSE
  /\ started = FALSE /\ running = FALSE /\ autoNextLine = FALSE
  /\ session = 0 /\ dbg = [s \in Sessions |-> "none"]
  /\ open = FALSE /\ events = {}
  /\ processStarted = FALSE /\ current = FALSE /\ trapped = FALSE
  /\ hook = "off" /\ exception = FALSE
  /\ debuggee = "none" /\ report = "create" /\ doomed = FALSE
  /\ patient \in BOOLEAN

\* Mutant: a closed event keeps its handle
ChangeClosed(set, reset) ==
  /\ events' = (events \ reset) \union set
  /\ UNCHANGED open

\* SetEvent and ResetEvent; on a closed handle they fail, which nobody looks at
Change(set, reset) ==
  /\ events' = IF open THEN (events \ reset) \union set ELSE events
  /\ UNCHANGED open

(***************************************************************************)
(* The program under the debugger.  It stops for every debug event, and    *)
(* goes on when that event is continued.  An initial breakpoint ("hook")   *)
(* is the first step of an armed hook, and any later breakpoint that the   *)
(* debugger has not set itself; a line needs the debug information, which  *)
(* is loaded at the first of them.                                         *)
(***************************************************************************)
Report(kind) ==
  /\ debuggee = "executes"
  /\ kind = "exit" \/ ~ doomed
  /\ kind = "hook" => hook # "off"
  /\ kind = "line" => hook = "done"
  /\ debuggee' = "reported" /\ report' = kind
  /\ UNCHANGED <<uiVars, flagVars, threadVars, eventVars, processVars, doomed>>

\* ContinueDebugEvent, which fails if there is no event to continue
Continued == IF debuggee # "held" THEN debuggee
             ELSE IF report = "exit" THEN "gone" ELSE "executes"

(***************************************************************************)
(* The user interface.                                                     *)
(***************************************************************************)
\* a message handler that took the command returns to the debugger thread
Reply ==
  /\ dbg' = [s \in Sessions |-> IF dbg[s] = "answered" THEN "loop" ELSE dbg[s]]
  /\ UNCHANGED session

\* the guard of doDebugAction
MayAct == ~ modelRunning

\* Mutant: the process is asked instead of the controller
DoDebugActionOfProcess(c) ==
  /\ ui = "idle" /\ MayAct
  /\ command' = c
  /\ IF processStarted
     THEN /\ ui' = "check" /\ modelRunning' = TRUE
     ELSE /\ session < MaxSessions
          /\ ui' = "launch" /\ UNCHANGED modelRunning
  /\ UNCHANGED <<asked, patient, flagVars, threadVars, eventVars, processVars, osVars>>

\* doDebugAction: is there a session
DoDebugAction(c) ==
  /\ ui = "idle" /\ MayAct
  /\ command' = c
  /\ IF started
     THEN /\ ui' = "check" /\ modelRunning' = TRUE
     ELSE /\ session < MaxSessions
          /\ ui' = "launch" /\ UNCHANGED modelRunning
  /\ UNCHANGED <<asked, patient, flagVars, threadVars, eventVars, processVars, osVars>>

\* onDebugAction does not start the program: it is missing or older than its
\* sources (a compilation repeats the command when it is done), or has no entry point
LaunchRefused ==
  /\ ui = "launch"
  /\ ui' = "idle" /\ Reply
  /\ UNCHANGED <<modelRunning, patient, command, asked, flagVars, eventVars, processVars, osVars>>

\* start and startThread: the hook is armed in debug mode, the events are new,
\* ACTIVE and SUSPEND are set, and the debugger thread begins
Launch ==
  /\ ui = "launch"
  /\ ui' = "await"
  /\ \E debugMode \in BOOLEAN : hook' = IF debugMode THEN "armed" ELSE hook
  /\ open' = TRUE /\ events' = {"ACTIVE", "SUSPEND"}
  /\ session' = session + 1
  /\ dbg' = [dbg EXCEPT ![session + 1] = "start"]
  /\ UNCHANGED <<modelRunning, patient, command, asked, flagVars, processStarted, current,
                 trapped, exception, osVars>>

\* startThread spins until ACTIVE is reset; the action goes on if the program runs
Awaited ==
  /\ ui = "await" /\ "ACTIVE" \notin events
  /\ IF processStarted
     THEN ui' = "check" /\ modelRunning' = TRUE /\ UNCHANGED threadVars
     ELSE ui' = "idle" /\ UNCHANGED modelRunning /\ Reply
  /\ UNCHANGED <<command, asked, patient, flagVars, eventVars, processVars, osVars>>

\* the guard of run, stepInto, stepOver and runToCursor
Check ==
  /\ ui = "check"
  /\ IF running \/ ~ processStarted
     THEN ui' = "idle" /\ Reply
     ELSE ui' = "mark" /\ UNCHANGED threadVars
  /\ UNCHANGED <<modelRunning, patient, command, asked, flagVars, eventVars, processVars, osVars>>

\* a command uses the current thread to set a breakpoint (the first one in debug
\* mode: at the entry point) or the step mode
UsesThread == IF started THEN command # "run" ELSE hook = "armed"

\* step over perhaps goes on to the next line by itself
Mark ==
  /\ ui = "mark"
  /\ ui' = IF UsesThread /\ ~ current THEN "crashed" ELSE "resume"
  /\ started' = TRUE
  /\ autoNextLine' \in IF ~ started THEN {FALSE}
                       ELSE IF command = "over" THEN {autoNextLine, TRUE}
                       ELSE {autoNextLine}
  /\ UNCHANGED <<modelRunning, patient, command, asked, running, threadVars, eventVars,
                 processVars, osVars>>

SetResume ==
  /\ ui = "resume"
  /\ ui' = IF command = "run" THEN "relax" ELSE "idle"
  /\ Change({"RESUME"}, {})
  /\ Reply
  /\ UNCHANGED <<modelRunning, patient, command, asked, flagVars, processVars, osVars>>

\* resetStepMode of run, after the event: the thread may be gone by then, and
\* the null pointer ends the IDE
ResetStepMode ==
  /\ ui = "relax"
  /\ ui' = IF current THEN "idle" ELSE "crashed"
  /\ UNCHANGED <<modelRunning, patient, command, asked, flagVars, threadVars, eventVars,
                 processVars, osVars>>

\* doDebugStop
DoDebugStop ==
  /\ ui = "idle" /\ started /\ processStarted
  /\ ui' = "stop" /\ asked' = TRUE
  /\ UNCHANGED <<modelRunning, patient, command, flagVars, threadVars, eventVars, processVars, osVars>>

SetClose ==
  /\ ui = "stop"
  /\ ui' = "idle"
  /\ Change({"CLOSE"}, {})
  /\ UNCHANGED <<modelRunning, patient, command, asked, flagVars, threadVars, processVars, osVars>>

(***************************************************************************)
(* The debugger thread of session s.                                       *)
(***************************************************************************)
Goto(s, place) == dbg' = [dbg EXCEPT ![s] = place]

\* startProgram: the process begins with an event, which the debugger takes
StartProgram(s) ==
  /\ dbg[s] = "start"
  /\ Goto(s, "loop")
  /\ processStarted' = TRUE /\ exception' = FALSE
  /\ trapped' = FALSE /\ current' = TRUE
  /\ debuggee' = "held" /\ report' = "create" /\ doomed' = FALSE
  /\ running' = TRUE
  /\ UNCHANGED <<uiVars, started, autoNextLine, session, eventVars, hook>>

StartFails(s) ==
  /\ dbg[s] = "start"
  /\ Goto(s, "none")
  /\ Change({}, {"ACTIVE"})
  /\ UNCHANGED <<uiVars, flagVars, session, processVars, osVars>>

\* waitForAnyEvent gives the first event of the array that is set
Lowest(e) ==
  /\ e \in events
  /\ e = "SUSPEND" => "CLOSE" \notin events
  /\ e = "RESUME" => {"CLOSE", "SUSPEND"} \intersect events = {}
  /\ e = "ACTIVE" => events = {"ACTIVE"}

Wait(s) ==
  /\ dbg[s] = "loop" /\ processStarted
  /\ \E e \in Events : Lowest(e) /\ Goto(s, e)
  /\ UNCHANGED <<uiVars, flagVars, session, eventVars, processVars, osVars>>

\* DEBUG_CLOSE: the program is terminated and continued; then the events
Close(s) ==
  /\ dbg[s] = "CLOSE"
  /\ Goto(s, "closed")
  /\ IF processStarted
     THEN /\ doomed' = (doomed \/ current)
          /\ debuggee' = Continued
     ELSE UNCHANGED <<doomed, debuggee>>
  /\ UNCHANGED <<uiVars, flagVars, session, eventVars, processVars, report>>

\* Mutant: the debugger does not go on reading debug events
CloseEventsInactive(s) ==
  /\ dbg[s] = "closed"
  /\ Goto(s, "loop")
  /\ Change({}, {"CLOSE"})
  /\ UNCHANGED <<uiVars, flagVars, session, processVars, osVars>>

CloseEvents(s) ==
  /\ dbg[s] = "closed"
  /\ Goto(s, "loop")
  /\ Change({"ACTIVE"}, {"CLOSE"})
  /\ UNCHANGED <<uiVars, flagVars, session, processVars, osVars>>

\* DEBUG_SUSPEND
Suspend(s) ==
  /\ dbg[s] = "SUSPEND"
  /\ Goto(s, "suspended")
  /\ running' = FALSE
  /\ UNCHANGED <<uiVars, started, autoNextLine, session, eventVars, processVars, osVars>>

SuspendEvents(s) ==
  /\ dbg[s] = "suspended"
  /\ Goto(s, "loop")
  /\ Change({}, {"SUSPEND", "ACTIVE"})
  /\ UNCHANGED <<uiVars, flagVars, session, processVars, osVars>>

\* DEBUG_RESUME
Resume(s) ==
  /\ dbg[s] = "RESUME"
  /\ Goto(s, "resumed")
  /\ running' = TRUE
  /\ debuggee' = Continued
  /\ UNCHANGED <<uiVars, started, autoNextLine, session, eventVars, processVars,
                 report, doomed>>

\* Mutant: the debugger does not go on reading debug events
ResumeEventsInactive(s) ==
  /\ dbg[s] = "resumed"
  /\ Goto(s, "loop")
  /\ Change({}, {"RESUME"})
  /\ UNCHANGED <<uiVars, flagVars, session, processVars, osVars>>

ResumeEvents(s) ==
  /\ dbg[s] = "resumed"
  /\ Goto(s, "loop")
  /\ Change({"ACTIVE"}, {"RESUME"})
  /\ UNCHANGED <<uiVars, flagVars, session, processVars, osVars>>

\* DEBUG_ACTIVE after an exception the program did not handle: the process is
\* being terminated (processStep does nothing, for it is not trapped)
Exception(s) ==
  /\ dbg[s] = "ACTIVE" /\ exception
  /\ Goto(s, "loop")
  /\ exception' = FALSE
  /\ debuggee' = Continued
  /\ UNCHANGED <<uiVars, flagVars, session, eventVars, processStarted, current, trapped,
                 hook, report, doomed>>

\* the wait of processEvent is over without an event
Timeout(s) ==
  /\ dbg[s] = "ACTIVE" /\ ~ exception
  /\ debuggee # "reported"
  /\ Goto(s, "loop")
  /\ trapped' = FALSE
  /\ debuggee' = Continued
  /\ UNCHANGED <<uiVars, flagVars, session, eventVars, processStarted, current, hook,
                 exception, report, doomed>>

\* the event is an exception to stop at, in a thread the debugger knows
Stops == report \in {"hook", "line"} /\ current

\* processEvent of an event that does not trap, and run; after a failure of the
\* debugging system ("rip") no event is read, and the program ends with the thread
Proceed(s) ==
  /\ dbg[s] = "ACTIVE" /\ ~ exception
  /\ debuggee = "reported" /\ ~ Stops
  /\ Goto(s, "loop")
  /\ trapped' = FALSE
  /\ processStarted' = (processStarted /\ report \notin {"exit", "rip"})
  /\ current' = (current /\ report # "exit")
  /\ exception' = (report = "fault" /\ current)
  /\ doomed' = (doomed \/ exception')
  /\ debuggee' = IF report \in {"exit", "rip"} THEN "gone" ELSE "executes"
  /\ UNCHANGED <<uiVars, flagVars, session, eventVars, hook, report>>

\* processEvent of an event that traps: the program stays where it is
Trap(s) ==
  /\ dbg[s] = "ACTIVE" /\ ~ exception
  /\ debuggee = "reported" /\ Stops
  /\ Goto(s, "trapped")
  /\ trapped' = TRUE
  /\ hook' = IF report = "hook" THEN "done" ELSE hook
  /\ debuggee' = "held"
  /\ UNCHANGED <<uiVars, flagVars, session, eventVars, processStarted, current,
                 exception, report, doomed>>

\* Mutant: the debugger goes on after a trap
TrappedActive(s) ==
  /\ dbg[s] = "trapped"
  /\ Goto(s, "step")
  /\ running' = FALSE
  /\ UNCHANGED <<uiVars, started, autoNextLine, session, eventVars, processVars, osVars>>

Trapped(s) ==
  /\ dbg[s] = "trapped"
  /\ Goto(s, "step")
  /\ Change({}, {"ACTIVE"})
  /\ running' = FALSE
  /\ UNCHANGED <<uiVars, started, autoNextLine, session, processVars, osVars>>

\* processStep does nothing in a process that another thread has reset
NoStep(s) ==
  /\ dbg[s] = "step" /\ ~ trapped
  /\ Goto(s, "loop")
  /\ UNCHANGED <<uiVars, flagVars, session, eventVars, processVars, osVars>>

\* processStep: the hook is passed at once (every way through onInitBreakpoint
\* asks to resume), and so is the rest of a line when stepping over it
PassHook(s) ==
  /\ dbg[s] = "step" /\ trapped /\ report = "hook"
  /\ Goto(s, "loop")
  /\ Change({"RESUME"}, {})
  /\ UNCHANGED <<uiVars, flagVars, session, processVars, osVars>>

AutoStepOver(s) ==
  /\ dbg[s] = "step" /\ trapped /\ report # "hook" /\ autoNextLine
  /\ Goto(s, "loop")
  /\ Change({"RESUME"}, {})
  /\ UNCHANGED <<uiVars, flagVars, session, processVars, osVars>>

\* traceStep, with the source of the line or without: the message is sent
TraceStep(s) ==
  /\ dbg[s] = "step" /\ trapped /\ report # "hook"
  /\ autoNextLine' = FALSE
  /\ \E message \in {"traced", "noSource"} : Goto(s, message)
  /\ UNCHANGED <<uiVars, started, running, session, eventVars, processVars, osVars>>

\* the end of the loop: the events are closed, the session is over
Leave(s) ==
  /\ dbg[s] = "loop" /\ ~ processStarted
  /\ Goto(s, "left")
  /\ running' = FALSE
  /\ open' = FALSE /\ events' = {}
  /\ UNCHANGED <<uiVars, started, autoNextLine, session, processVars, osVars>>

OnStop(s) ==
  /\ dbg[s] = "left"
  /\ Goto(s, "stopped")
  /\ started' = FALSE
  /\ UNCHANGED <<uiVars, running, autoNextLine, session, eventVars, processVars, osVars>>

\* reset of the process; the message of the end is sent
Reset(s) ==
  /\ dbg[s] = "stopped"
  /\ Goto(s, "finished")
  /\ trapped' = FALSE /\ current' = FALSE /\ hook' = "off"
  /\ UNCHANGED <<uiVars, flagVars, session, eventVars, processStarted, exception, osVars>>

(***************************************************************************)
(* The messages to the user interface, handled when it is idle.            *)
(***************************************************************************)
\* onDebuggerStep
OnDebuggerStep(s) ==
  /\ ui = "idle" /\ dbg[s] = "traced"
  /\ modelRunning' = FALSE
  /\ Goto(s, "loop")
  /\ UNCHANGED <<ui, command, asked, patient, flagVars, session, eventVars, processVars, osVars>>

\* onDebuggerNoSource: the user is asked whether to step on, and the step is
\* taken within the handler
OnDebuggerNoSource(s, autoStep) ==
  /\ ui = "idle" /\ dbg[s] = "noSource"
  /\ autoStep => started \/ session < MaxSessions
  /\ modelRunning' = (autoStep /\ started)
  /\ IF autoStep
     THEN /\ ui' = (IF started THEN "check" ELSE "launch") /\ command' = "step"
          /\ Goto(s, "answered")
     ELSE /\ UNCHANGED <<ui, command>>
          /\ Goto(s, "loop")
  /\ UNCHANGED <<asked, patient, flagVars, session, eventVars, processVars, osVars>>

\* onDebuggerStop
OnDebuggerStop(s) ==
  /\ ui = "idle" /\ dbg[s] = "finished"
  /\ modelRunning' = FALSE /\ asked' = FALSE
  /\ Goto(s, "none")
  /\ UNCHANGED <<ui, command, patient, flagVars, session, eventVars, processVars, osVars>>

(***************************************************************************)
(* The specification.  A null pointer ends the IDE with all its threads.   *)
(***************************************************************************)
\* The user, not the program: a patient one waits for the end after Stop.
UserActs == asked => ~ patient

UserInterface ==
  \/ LaunchRefused \/ Launch \/ Awaited \/ Check \/ Mark \/ SetResume \/ ResetStepMode \/ SetClose

Message(s) ==
  \/ OnDebuggerStep(s)
  \/ \E autoStep \in BOOLEAN : OnDebuggerNoSource(s, autoStep)
  \/ OnDebuggerStop(s)

Debugger(s) ==
  \/ StartProgram(s) \/ StartFails(s) \/ Wait(s)
  \/ Close(s) \/ CloseEvents(s) \/ Suspend(s) \/ SuspendEvents(s)
  \/ Resume(s) \/ ResumeEvents(s)
  \/ Exception(s) \/ Timeout(s) \/ Proceed(s) \/ Trap(s) \/ Trapped(s)
  \/ NoStep(s) \/ PassHook(s) \/ AutoStepOver(s) \/ TraceStep(s)
  \/ Leave(s) \/ OnStop(s) \/ Reset(s)

Next ==
  /\ ui # "crashed"
  /\ \/ \E c \in Commands : UserActs /\ DoDebugAction(c)
     \/ DoDebugStop
     \/ UserInterface
     \/ \E s \in Sessions : Message(s) \/ Debugger(s)
     \/ \E kind \in Reports \ {"create"} : Report(kind)

Spec == Init /\ [][Next]_vars

\* the threads run; a sent message is handled before the user's next input; a
\* terminated process reports its end.  The user and the program may do nothing.
Fairness ==
  /\ WF_vars(Next /\ UserInterface)
  /\ \A s \in Sessions : /\ WF_vars(Next /\ Debugger(s))
                         /\ SF_vars(Next /\ Message(s))
  /\ WF_vars(Next /\ doomed /\ Report("exit"))

FairSpec == Spec /\ Fairness

(***************************************************************************)
(* Properties.                                                             *)
(***************************************************************************)
\* Type correctness; closed events are not set, and an exception is pending only
\* in a process that is not trapped and is being terminated.
TypeOK ==
  /\ modelRunning \in BOOLEAN /\ patient \in BOOLEAN /\ asked \in BOOLEAN /\ command \in Commands
  /\ ui \in {"idle", "launch", "await", "check", "mark", "resume", "relax", "stop",
             "crashed"}
  /\ started \in BOOLEAN /\ running \in BOOLEAN /\ autoNextLine \in BOOLEAN
  /\ session \in 0 .. MaxSessions
  /\ dbg \in [Sessions -> Events \union
            {"none", "start", "loop", "closed", "suspended", "resumed", "trapped", "step",
             "traced", "noSource", "answered", "left", "stopped", "finished"}]
  /\ open \in BOOLEAN /\ events \subseteq Events /\ (open \/ events = {})
  /\ processStarted \in BOOLEAN /\ current \in BOOLEAN /\ trapped \in BOOLEAN
  /\ hook \in {"off", "armed", "done"}
  /\ exception \in BOOLEAN /\ (exception => doomed /\ ~ trapped)
  /\ debuggee \in {"none", "executes", "reported", "held", "gone"}
  /\ report \in Reports /\ doomed \in BOOLEAN

\* Whenever the user acts, even before the end of a session is shown: one debugger
\* thread at most is at work on the program and its events.  All that an old one has
\* left to do is to reset the process and to send its last message (debugThread,
\* onStop; isStarted in onDebugAction).
OneDebugger ==
  \A s, r \in Sessions :
    {dbg[s], dbg[r]} \intersect {"none", "stopped", "finished"} = {} => s = r

\* While a patient user may give a command in a session, the program is held at its
\* last event and the debugger thread waits with no event set: nothing moves
\* behind the lines, variables and call stack that are shown.
StoppedIsHeld ==
  patient /\ ui = "idle" /\ ~ modelRunning /\ started /\ ~ asked =>
    /\ debuggee = "held" /\ ~ running /\ events = {}
    /\ \E s \in Sessions : dbg[s] = "loop"

\* A command of a patient user is not lost: the IDE comes out of the state
\* "running", or the program executes (or the IDE has ended).
CommandAnswered ==
  <>[](ui # "stop") =>
    (patient /\ modelRunning ~> (~ modelRunning \/ debuggee = "executes" \/ ui = "crashed"))

\* Stop of a patient user is not lost: the session ends, or the program is held at
\* a line it had reached before it was terminated (or the IDE has ended); unless
\* the user goes on pressing Stop, whose event comes before all others.
StopAnswered ==
  <>[](ui # "stop") =>
    (patient /\ asked ~> (~ asked \/ debuggee = "held" \/ ui = "crashed"))
=============================================================================
