----------------------- MODULE DebugController_proofs -----------------------
(***************************************************************************)
(* For every user and every number of sessions: types, and no two debugger *)
(* threads are at work on a program.  For a user who waits for the end of  *)
(* a session after Stop: what the IDE shows at a stop is a program that is *)
(* held.                                                                   *)
(*                                                                         *)
(* The argument of the first part: a session is begun only while the       *)
(* controller is not started, and it is started before the debugger        *)
(* thread goes beyond the wait for the first command.                      *)
(*                                                                         *)
(* The argument of the second: without Stop, a session goes through the    *)
(* phases Starting, held at a line, commanded, Moving, and back or to its  *)
(* end; in each one at most one of the two threads can change the events   *)
(* and the flags.  After Stop nothing is known but that the session is     *)
(* still there, and that the user interface will not begin another one     *)
(* before its message.                                                     *)
(***************************************************************************)
EXTENDS DebugController, TLAPS

Ending == {"left", "stopped", "finished"}
Commanding == {"check", "mark", "resume"}
Places == Events \union
            {"none", "start", "loop", "closed", "suspended", "resumed", "trapped", "step",
             "traced", "noSource", "answered"} \union Ending

ProgramHeld == processStarted /\ current /\ open /\ debuggee = "held"

\* The debugger thread starts the program, and the user interface spins.
Starting(s) ==
  \/ dbg[s] = "start" /\ events = {"ACTIVE", "SUSPEND"} /\ open /\ ~ processStarted
  \/ /\ ProgramHeld
     /\ \/ dbg[s] \in {"loop", "SUSPEND"} /\ events = {"ACTIVE", "SUSPEND"}
        \/ dbg[s] = "suspended" /\ events = {"ACTIVE", "SUSPEND"} /\ ~ running
        \/ dbg[s] = "loop" /\ events = {} /\ ~ running

\* The program is held, and the debugger thread waits for the user interface.
Waiting == ProgramHeld /\ ~ running /\ events = {}

\* The program was told to go on and the debugger thread is at work.
Moving(s) ==
  \/ dbg[s] \in {"loop", "RESUME"} /\ events = {"RESUME"} /\ ProgramHeld /\ started
  \/ dbg[s] = "resumed" /\ events = {"RESUME"} /\ processStarted /\ current /\ open /\ started
  \/ /\ dbg[s] \in {"loop", "ACTIVE"} /\ events = {"ACTIVE"} /\ started /\ open
     /\ (processStarted => current) /\ (dbg[s] = "ACTIVE" => processStarted)
  \/ dbg[s] = "trapped" /\ events = {"ACTIVE"} /\ ProgramHeld /\ started
  \/ dbg[s] \in {"step", "traced", "noSource"} /\ Waiting /\ started
  \/ dbg[s] \in Ending /\ ~ processStarted

Phases(s) ==
  /\ ui = "await" => Starting(s)
  /\ ~ asked /\ ui \in Commanding =>
       Waiting /\ dbg[s] \in {"loop", "answered"} /\ (dbg[s] = "answered" => started)
  /\ ~ asked /\ ui \in {"idle", "relax"} /\ ~ modelRunning =>
       ui = "idle" /\ Waiting /\ dbg[s] = "loop" /\ started
  /\ ~ asked /\ ui \in {"idle", "relax"} /\ modelRunning => Moving(s)
  /\ asked => /\ (started \/ dbg[s] \in {"stopped", "finished"})
              /\ dbg[s] # "start"
              /\ (ui \in Commanding => dbg[s] = "answered")
  /\ dbg[s] \in {"trapped", "step"} => trapped
  /\ dbg[s] \in Ending => ~ processStarted
  /\ dbg[s] \in {"stopped", "finished"} => ~ started

Asleep == \A s \in Sessions : dbg[s] = "none"

\* Where a session is, for a user who waits for its end after Stop.
SessionInv ==
  /\ \A s \in Sessions : dbg[s] # "none" => s = session /\ Phases(s)
  /\ Asleep => ~ modelRunning /\ ~ asked /\ ~ started /\ ~ processStarted
               /\ ui \in {"idle", "launch", "await"}
  /\ ui = "launch" => Asleep /\ session < MaxSessions
  /\ ui = "await" => ~ modelRunning /\ ~ asked /\ ~ started
  /\ ui \in Commanding => modelRunning
  /\ ui = "resume" => started
  /\ ui = "stop" => asked

\* The inductive invariant of that user.
DebugInv == patient => SessionInv

\* The debugger thread of s is at work on the program.
Active(s) == dbg[s] \notin {"none", "stopped", "finished"}

\* It has not come to its first command.
Beginning(s) ==
  \/ /\ ui = "await" /\ open /\ events = {"ACTIVE", "SUSPEND"}
     /\ \/ dbg[s] = "start"
        \/ dbg[s] \in {"loop", "SUSPEND"} /\ processStarted
        \/ dbg[s] = "suspended" /\ processStarted /\ ~ running
  \/ /\ ui \in {"await", "check", "mark"} /\ open /\ events = {}
     /\ dbg[s] = "loop" /\ processStarted /\ ~ running

\* The inductive invariant of every user.
ThreadInv ==
  /\ \A s \in Sessions : Active(s) => s = session /\ (started \/ Beginning(s))
  /\ ui = "launch" => session < MaxSessions /\ ~ started

UserInv == TypeOK /\ ThreadInv

\* The Boolean variables, typed apart from the others.
Flags ==
  /\ modelRunning \in BOOLEAN /\ patient \in BOOLEAN
  /\ asked \in BOOLEAN /\ started \in BOOLEAN
  /\ running \in BOOLEAN /\ autoNextLine \in BOOLEAN /\ open \in BOOLEAN
  /\ processStarted \in BOOLEAN /\ current \in BOOLEAN /\ trapped \in BOOLEAN
  /\ exception \in BOOLEAN /\ doomed \in BOOLEAN

USE DEF Sessions, Events, Commands, Reports, uiVars, flagVars, threadVars, eventVars,
        processVars, osVars

-----------------------------------------------------------------------------
(* Type correctness *)

\* A step of the user interface keeps the types.
LEMMA InterfaceTyped ==
  ASSUME TypeOK, ui = "launch" => session < MaxSessions,
         \/ UserInterface
         \/ DoDebugStop
         \/ \E c \in Commands : DoDebugAction(c)
  PROVE  TypeOK'
<1> USE DEF TypeOK, Change
<1>1. CASE Launch
  <2>1. session \in 0 .. MaxSessions /\ session < MaxSessions
    BY <1>1 DEF Launch
  <2>2. session + 1 \in Sessions /\ session' = session + 1
    BY <1>1, <2>1, SessionAssumption DEF Launch
  <2>3. dbg' \in [Sessions -> Places]
    BY <1>1, <2>2 DEF Launch, Places, Ending
  <2>4. hook' \in {"off", "armed", "done"}
    BY <1>1 DEF Launch
  <2>5. Flags'
    BY <1>1, Zenon DEF Launch, Flags
  <2>6. session' \in 0 .. MaxSessions
    BY <2>2
  <2>7. QED
    BY <1>1, <2>3, <2>4, <2>5, <2>6 DEF Launch, Flags, Places, Ending
<1>2. CASE Awaited
  <2>1. Flags'
    BY <1>2, Zenon DEF Awaited, Flags
  <2>2. QED
    BY <1>2, <2>1 DEF Awaited, Flags, Reply
<1>3. CASE Check
  BY <1>3 DEF Check, Reply
<1>0. CASE LaunchRefused
  BY <1>0 DEF LaunchRefused, Reply
<1>4. CASE Mark
  <2>1. Flags'
    BY <1>4, Zenon DEF Mark, Flags
  <2>2. QED
    BY <1>4, <2>1 DEF Mark, Flags, UsesThread
<1>5. CASE SetResume
  BY <1>5 DEF SetResume, Reply
<1>6. CASE ResetStepMode
  BY <1>6 DEF ResetStepMode
<1>7. CASE SetClose
  BY <1>7 DEF SetClose
<1>8. CASE DoDebugStop
  <2>1. Flags'
    BY <1>8, Zenon DEF DoDebugStop, Flags
  <2>2. QED
    BY <1>8, <2>1 DEF DoDebugStop, Flags
<1>9. ASSUME NEW c \in Commands, DoDebugAction(c) PROVE TypeOK'
  <2>1. Flags'
    BY <1>9, Zenon DEF DoDebugAction, Flags
  <2>2. QED
    BY <1>9, <2>1 DEF DoDebugAction, Flags
<1>10. QED
  BY <1>0, <1>1, <1>2, <1>3, <1>4, <1>5, <1>6, <1>7, <1>8, <1>9 DEF UserInterface

\* A step of a debugger thread, or of a handler of its messages, keeps the types.
LEMMA DebuggerTyped ==
  ASSUME TypeOK, NEW s \in Sessions, Debugger(s) \/ Message(s)
  PROVE  TypeOK'
<1> USE DEF TypeOK, Goto, Change
<1>1. CASE StartProgram(s)
  <2>1. Flags'
    BY <1>1, Zenon DEF StartProgram, Flags
  <2>2. QED
    BY <1>1, <2>1 DEF StartProgram, Flags
<1>2. CASE StartFails(s)
  BY <1>2 DEF StartFails
<1>3. CASE Wait(s)
  BY <1>3 DEF Wait
<1>4. CASE Close(s)
  <2>1. Flags'
    BY <1>4, Zenon DEF Close, Flags
  <2>2. QED
    BY <1>4, <2>1 DEF Close, Flags, Continued
<1>5. CASE CloseEvents(s)
  BY <1>5 DEF CloseEvents
<1>6. CASE Suspend(s)
  <2>1. Flags'
    BY <1>6, Zenon DEF Suspend, Flags
  <2>2. QED
    BY <1>6, <2>1 DEF Suspend, Flags
<1>7. CASE SuspendEvents(s)
  BY <1>7 DEF SuspendEvents
<1>8. CASE Resume(s)
  <2>1. Flags'
    BY <1>8, Zenon DEF Resume, Flags
  <2>2. QED
    BY <1>8, <2>1 DEF Resume, Flags, Continued
<1>9. CASE ResumeEvents(s)
  BY <1>9 DEF ResumeEvents
<1>10. CASE Exception(s)
  <2>1. Flags'
    BY <1>10, Zenon DEF Exception, Flags
  <2>2. QED
    BY <1>10, <2>1 DEF Exception, Flags, Continued
<1>11. CASE Timeout(s)
  <2>1. Flags'
    BY <1>11, Zenon DEF Timeout, Flags
  <2>2. QED
    BY <1>11, <2>1 DEF Timeout, Flags, Continued
<1>12. CASE Proceed(s)
  <2>1. Flags'
    BY <1>12, Zenon DEF Proceed, Flags
  <2>2. QED
    BY <1>12, <2>1 DEF Proceed, Flags, Stops
<1>13. CASE Trap(s)
  <2>1. Flags'
    BY <1>13, Zenon DEF Trap, Flags
  <2>2. QED
    BY <1>13, <2>1 DEF Trap, Flags, Stops
<1>14. CASE Trapped(s)
  <2>1. Flags'
    BY <1>14, Zenon DEF Trapped, Flags
  <2>2. QED
    BY <1>14, <2>1 DEF Trapped, Flags
<1>0. CASE NoStep(s)
  BY <1>0 DEF NoStep
<1>15. CASE PassHook(s)
  BY <1>15 DEF PassHook
<1>16. CASE AutoStepOver(s)
  BY <1>16 DEF AutoStepOver
<1>17. CASE TraceStep(s)
  <2>1. Flags'
    BY <1>17, Zenon DEF TraceStep, Flags
  <2>2. QED
    BY <1>17, <2>1 DEF TraceStep, Flags
<1>18. CASE Leave(s)
  <2>1. Flags'
    BY <1>18, Zenon DEF Leave, Flags
  <2>2. QED
    BY <1>18, <2>1 DEF Leave, Flags
<1>19. CASE OnStop(s)
  <2>1. Flags'
    BY <1>19, Zenon DEF OnStop, Flags
  <2>2. QED
    BY <1>19, <2>1 DEF OnStop, Flags
<1>20. CASE Reset(s)
  <2>1. Flags'
    BY <1>20, Zenon DEF Reset, Flags
  <2>2. QED
    BY <1>20, <2>1 DEF Reset, Flags
<1>21. CASE OnDebuggerStep(s)
  <2>1. Flags'
    BY <1>21, Zenon DEF OnDebuggerStep, Flags
  <2>2. QED
    BY <1>21, <2>1 DEF OnDebuggerStep, Flags
<1>22. ASSUME NEW autoStep \in BOOLEAN, OnDebuggerNoSource(s, autoStep) PROVE TypeOK'
  <2>1. Flags'
    BY <1>22, Zenon DEF OnDebuggerNoSource, Flags
  <2>2. QED
    BY <1>22, <2>1 DEF OnDebuggerNoSource, Flags
<1>23. CASE OnDebuggerStop(s)
  <2>1. Flags'
    BY <1>23, Zenon DEF OnDebuggerStop, Flags
  <2>2. QED
    BY <1>23, <2>1 DEF OnDebuggerStop, Flags
<1>24. QED
  BY <1>0, <1>1, <1>2, <1>3, <1>4, <1>5, <1>6, <1>7, <1>8, <1>9, <1>10, <1>11, <1>12,
     <1>13, <1>14, <1>15, <1>16, <1>17, <1>18, <1>19, <1>20, <1>21, <1>22, <1>23
  DEF Debugger, Message

-----------------------------------------------------------------------------
(* For every user *)

\* A step of the user interface begins a session only if no debugger thread is at
\* work, and marks it as started at the first command.
LEMMA InterfaceThread ==
  ASSUME UserInv,
         \/ UserInterface
         \/ DoDebugStop
         \/ \E c \in Commands : DoDebugAction(c)
  PROVE  ThreadInv'
<1> USE DEF UserInv, TypeOK, ThreadInv, Active, Beginning
<1>0. CASE LaunchRefused
  BY <1>0 DEF LaunchRefused, Reply
<1>1. CASE Launch
  BY <1>1 DEF Launch, SessionAssumption
<1>2. CASE Awaited
  BY <1>2 DEF Awaited, Reply
<1>3. CASE Check
  BY <1>3 DEF Check, Reply
<1>4. CASE Mark
  BY <1>4 DEF Mark
<1>5. CASE SetResume
  BY <1>5 DEF SetResume, Change, Reply
<1>6. CASE ResetStepMode
  BY <1>6 DEF ResetStepMode
<1>7. CASE SetClose
  BY <1>7 DEF SetClose, Change
<1>8. CASE DoDebugStop
  BY <1>8 DEF DoDebugStop
<1>9. ASSUME NEW c \in Commands, DoDebugAction(c) PROVE ThreadInv'
  BY <1>9 DEF DoDebugAction
<1>10. QED
  BY <1>0, <1>1, <1>2, <1>3, <1>4, <1>5, <1>6, <1>7, <1>8, <1>9 DEF UserInterface

\* A step of a debugger thread: the one at work comes to the wait for the first
\* command, and one that is not at work changes neither the events nor the flags.
LEMMA DebuggerThread ==
  ASSUME UserInv, NEW s \in Sessions, Debugger(s) \/ Message(s)
  PROVE  ThreadInv'
<1> USE DEF UserInv, TypeOK, ThreadInv, Active, Beginning, Goto, Change
<1>1. CASE StartProgram(s)
  BY <1>1 DEF StartProgram
<1>2. CASE StartFails(s)
  BY <1>2 DEF StartFails
<1>3. CASE Wait(s)
  BY <1>3 DEF Wait, Lowest
<1>4. CASE Close(s)
  BY <1>4 DEF Close
<1>5. CASE CloseEvents(s)
  BY <1>5 DEF CloseEvents
<1>6. CASE Suspend(s)
  BY <1>6 DEF Suspend
<1>7. CASE SuspendEvents(s)
  BY <1>7 DEF SuspendEvents
<1>8. CASE Resume(s)
  BY <1>8 DEF Resume
<1>9. CASE ResumeEvents(s)
  BY <1>9 DEF ResumeEvents
<1>10. CASE Exception(s)
  BY <1>10 DEF Exception
<1>11. CASE Timeout(s)
  BY <1>11 DEF Timeout
<1>12. CASE Proceed(s)
  BY <1>12 DEF Proceed
<1>13. CASE Trap(s)
  BY <1>13 DEF Trap
<1>14. CASE Trapped(s)
  BY <1>14 DEF Trapped
<1>15. CASE NoStep(s)
  BY <1>15 DEF NoStep
<1>16. CASE PassHook(s)
  BY <1>16 DEF PassHook
<1>17. CASE AutoStepOver(s)
  BY <1>17 DEF AutoStepOver
<1>18. CASE TraceStep(s)
  BY <1>18 DEF TraceStep
<1>19. CASE Leave(s)
  BY <1>19 DEF Leave
<1>20. CASE OnStop(s)
  BY <1>20 DEF OnStop
<1>21. CASE Reset(s)
  BY <1>21 DEF Reset
<1>22. CASE OnDebuggerStep(s)
  BY <1>22 DEF OnDebuggerStep
<1>23. ASSUME NEW autoStep \in BOOLEAN, OnDebuggerNoSource(s, autoStep) PROVE ThreadInv'
  BY <1>23 DEF OnDebuggerNoSource
<1>24. CASE OnDebuggerStop(s)
  BY <1>24 DEF OnDebuggerStop
<1>25. QED
  BY <1>1, <1>2, <1>3, <1>4, <1>5, <1>6, <1>7, <1>8, <1>9, <1>10, <1>11, <1>12,
     <1>13, <1>14, <1>15, <1>16, <1>17, <1>18, <1>19, <1>20, <1>21, <1>22, <1>23, <1>24
  DEF Debugger, Message

\* Every step of every user keeps the invariant.
LEMMA UserStep ==
  ASSUME UserInv, [Next]_vars
  PROVE  UserInv'
<1>1. CASE /\ Next
           /\ \/ UserInterface \/ DoDebugStop
              \/ \E c \in Commands : UserActs /\ DoDebugAction(c)
  BY <1>1, InterfaceTyped, InterfaceThread DEF UserInv, ThreadInv
<1>2. CASE Next /\ \E s \in Sessions : Message(s) \/ Debugger(s)
  BY <1>2, DebuggerTyped, DebuggerThread DEF UserInv
<1>3. ASSUME NEW kind \in Reports, Report(kind)
      PROVE  UserInv'
  BY <1>3 DEF UserInv, TypeOK, ThreadInv, Active, Beginning, Report
<1>4. CASE UNCHANGED vars
  BY <1>4 DEF UserInv, TypeOK, vars, ThreadInv, Active, Beginning
<1>5. QED
  BY <1>1, <1>2, <1>3, <1>4 DEF Next

\* Types hold in the initial state.
LEMMA TypeInit == Init => TypeOK
<1> SUFFICES ASSUME Init PROVE TypeOK
  OBVIOUS
<1>1. Flags
  BY Zenon DEF Init, Flags
<1>2. QED
  BY <1>1, SessionAssumption DEF Init, TypeOK, Flags

\* For every user and every number of sessions, UserInv always holds: a debugger
\* thread at work is the one of the last session, and the controller is started
\* unless that thread is still beginning.
THEOREM UserInvariant == Spec => []UserInv
<1>1. Init => UserInv
  BY TypeInit DEF Init, UserInv, ThreadInv, Active
<1>2. UserInv /\ [Next]_vars => UserInv'
  BY UserStep
<1>3. QED
  BY <1>1, <1>2, PTL DEF Spec

\* Types, for every user; and no exception is pending in a process that is trapped.
THEOREM DebugTypeSafety == Spec => []TypeOK
<1>1. UserInv => TypeOK
  BY DEF UserInv
<1>2. QED
  BY <1>1, UserInvariant, PTL

\* For every user, also one who gives a command before the end of a session is
\* shown, two debugger threads are never at work on the program and its events
\* (debugThread, onStop; isStarted in onDebugAction).
THEOREM DebuggerSafety == Spec => []OneDebugger
<1>1. UserInv => OneDebugger
  BY DEF UserInv, ThreadInv, Active, OneDebugger
<1>2. QED
  BY <1>1, UserInvariant, PTL

-----------------------------------------------------------------------------
(* The session invariant *)

\* A step of the user interface keeps the phase of the session.
LEMMA InterfaceInv ==
  ASSUME TypeOK, SessionInv, patient,
         \/ UserInterface
         \/ DoDebugStop
         \/ \E c \in Commands : UserActs /\ DoDebugAction(c)
  PROVE  SessionInv'
<1> USE DEF TypeOK, SessionInv, Phases, Starting, Moving, Waiting, Asleep, ProgramHeld,
        Ending, Commanding
<1>0. CASE LaunchRefused
  BY <1>0 DEF LaunchRefused, Reply
<1>1. CASE Launch
  BY <1>1 DEF Launch, SessionAssumption
<1>2. CASE Awaited
  BY <1>2 DEF Awaited, Reply
<1>3. CASE Check
  BY <1>3 DEF Check, Reply
<1>4. CASE Mark
  BY <1>4 DEF Mark, UsesThread
<1>5. CASE SetResume
  BY <1>5 DEF SetResume, Change, Reply
<1>6. CASE ResetStepMode
  BY <1>6 DEF ResetStepMode
<1>7. CASE SetClose
  BY <1>7 DEF SetClose, Change
<1>8. CASE DoDebugStop
  BY <1>8 DEF DoDebugStop
<1>9. ASSUME NEW c \in Commands, UserActs, DoDebugAction(c) PROVE SessionInv'
  BY <1>9 DEF DoDebugAction, MayAct, UserActs
<1>10. QED
  BY <1>0, <1>1, <1>2, <1>3, <1>4, <1>5, <1>6, <1>7, <1>8, <1>9 DEF UserInterface

\* waitForAnyEvent takes the debugger thread where its event belongs.
LEMMA WaitInv ==
  ASSUME TypeOK, SessionInv, ui # "crashed", NEW s \in Sessions, Wait(s)
  PROVE  SessionInv'
<1> USE DEF SessionInv, Phases, Starting, Moving, Waiting, Asleep, ProgramHeld, Ending,
        Commanding
<1>1. PICK e \in Events : Lowest(e) /\ Goto(s, e)
  BY DEF Wait
<1>2. /\ UNCHANGED <<uiVars, flagVars, session, eventVars, processVars, osVars>>
      /\ dbg[s] = "loop" /\ processStarted
  BY DEF Wait
<1>3. s = session /\ Phases(s) /\ ui # "launch"
  BY <1>2
<1>4. /\ dbg'[s] = e /\ session' = session
      /\ \A r \in Sessions : r # s => dbg'[r] = "none"
  BY <1>1, <1>2, <1>3 DEF TypeOK, Goto
<1>5. e \in events /\ (events = {"ACTIVE", "SUSPEND"} => e = "SUSPEND")
  BY <1>1 DEF Lowest
<1>6. Phases(s)'
  <2>1. ui = "await" => Starting(s)'
    BY <1>2, <1>3, <1>4, <1>5
  <2>2. ~ asked /\ modelRunning /\ ui \in {"idle", "relax"} => Moving(s)'
    BY <1>2, <1>3, <1>4, <1>5
  <2>3. QED
    BY <1>2, <1>3, <1>4, <1>5, <2>1, <2>2
<1>7. QED
  BY <1>2, <1>3, <1>4, <1>6

\* A step of a debugger thread, or of a handler of its messages, keeps the phase of
\* the session.
LEMMA DebuggerInv ==
  ASSUME TypeOK, SessionInv, ui # "crashed", NEW s \in Sessions, Debugger(s) \/ Message(s)
  PROVE  SessionInv'
<1> USE DEF TypeOK, SessionInv, Phases, Starting, Moving, Waiting, Asleep, ProgramHeld,
        Ending, Commanding, Goto, Change, Continued
<1>1. CASE StartProgram(s)
  BY <1>1 DEF StartProgram
<1>2. CASE StartFails(s)
  BY <1>2 DEF StartFails
<1>3. CASE Wait(s)
  BY <1>3, WaitInv
<1>4. CASE Close(s)
  BY <1>4 DEF Close
<1>5. CASE CloseEvents(s)
  BY <1>5 DEF CloseEvents
<1>6. CASE Suspend(s)
  BY <1>6 DEF Suspend
<1>7. CASE SuspendEvents(s)
  BY <1>7 DEF SuspendEvents
<1>8. CASE Resume(s)
  BY <1>8 DEF Resume
<1>9. CASE ResumeEvents(s)
  BY <1>9 DEF ResumeEvents
<1>10. CASE Exception(s)
  BY <1>10 DEF Exception
<1>11. CASE Timeout(s)
  BY <1>11 DEF Timeout
<1>12. CASE Proceed(s)
  BY <1>12 DEF Proceed, Stops
<1>13. CASE Trap(s)
  BY <1>13 DEF Trap, Stops
<1>14. CASE Trapped(s)
  BY <1>14 DEF Trapped
<1>0. CASE NoStep(s)
  BY <1>0 DEF NoStep
<1>15. CASE PassHook(s)
  BY <1>15 DEF PassHook
<1>16. CASE AutoStepOver(s)
  BY <1>16 DEF AutoStepOver
<1>17. CASE TraceStep(s)
  BY <1>17 DEF TraceStep
<1>18. CASE Leave(s)
  BY <1>18 DEF Leave
<1>19. CASE OnStop(s)
  BY <1>19 DEF OnStop
<1>20. CASE Reset(s)
  BY <1>20 DEF Reset
<1>21. CASE OnDebuggerStep(s)
  BY <1>21 DEF OnDebuggerStep
<1>22. ASSUME NEW autoStep \in BOOLEAN, OnDebuggerNoSource(s, autoStep) PROVE SessionInv'
  <2>1. started /\ s = session /\ ui = "idle" /\ dbg[s] = "noSource"
    BY <1>22 DEF OnDebuggerNoSource
  <2>2. CASE autoStep
    BY <1>22, <2>1, <2>2 DEF OnDebuggerNoSource
  <2>3. CASE ~ autoStep
    BY <1>22, <2>1, <2>3 DEF OnDebuggerNoSource
  <2>4. QED
    BY <2>2, <2>3
<1>23. CASE OnDebuggerStop(s)
  BY <1>23 DEF OnDebuggerStop
<1>24. QED
  BY <1>0, <1>1, <1>2, <1>3, <1>4, <1>5, <1>6, <1>7, <1>8, <1>9, <1>10, <1>11, <1>12,
     <1>13, <1>14, <1>15, <1>16, <1>17, <1>18, <1>19, <1>20, <1>21, <1>22, <1>23
  DEF Debugger, Message

\* Every step keeps the invariant; the types are those of every user.
LEMMA DebugStep ==
  ASSUME UserInv, DebugInv, [Next]_vars
  PROVE  DebugInv'
<1>1. patient' = patient
  BY Zenon DEF Next, vars, UserInterface, Message, Debugger, Report, DoDebugAction, LaunchRefused,
     Launch, Awaited, Check, Mark, SetResume, ResetStepMode, DoDebugStop, SetClose,
     StartProgram, StartFails, Wait, Close, CloseEvents, Suspend, SuspendEvents, Resume,
     ResumeEvents, Exception, Timeout, Proceed, Trap, Trapped, NoStep, PassHook,
     AutoStepOver, TraceStep, Leave, OnStop, Reset, OnDebuggerStep, OnDebuggerNoSource,
     OnDebuggerStop
<1>2. SUFFICES ASSUME patient PROVE SessionInv'
  BY <1>1 DEF DebugInv
<1>3. TypeOK /\ SessionInv
  BY <1>2 DEF UserInv, DebugInv
<1>4. CASE /\ Next
           /\ \/ UserInterface \/ DoDebugStop
              \/ \E c \in Commands : UserActs /\ DoDebugAction(c)
  BY <1>2, <1>3, <1>4, InterfaceInv
<1>5. CASE Next /\ \E s \in Sessions : Message(s) \/ Debugger(s)
  BY <1>3, <1>5, DebuggerInv DEF Next
<1>6. ASSUME NEW kind \in Reports, Report(kind)
      PROVE  SessionInv'
  <2>1. debuggee # "held" /\ UNCHANGED <<uiVars, flagVars, threadVars, eventVars, processVars>>
    BY <1>6 DEF Report
  <2>2. QED
    BY <1>3, <2>1 DEF SessionInv, Phases, Starting, Moving, Waiting, Asleep,
                      ProgramHeld, Ending, Commanding
<1>7. CASE UNCHANGED vars
  BY <1>3, <1>7 DEF vars, SessionInv, Phases, Starting, Moving, Waiting,
                    Asleep, ProgramHeld, Ending, Commanding
<1>8. QED
  BY <1>4, <1>5, <1>6, <1>7 DEF Next

\* For a user who waits for the end after Stop, SessionInv always holds, for every
\* number of sessions: the phases of a session and the state of both threads fit.
THEOREM DebugInvariant == Spec => []DebugInv
<1>1. Init => DebugInv
  BY DEF Init, DebugInv, SessionInv, Asleep, Commanding
<1>2. UserInv /\ DebugInv /\ [Next]_vars => DebugInv'
  BY DebugStep
<1>3. QED
  BY <1>1, <1>2, UserInvariant, PTL DEF Spec

\* A program that a patient user sees at a stop is held, and the debugger thread
\* waits with no event set (Trapped, SuspendEvents).
THEOREM StopSafety == Spec => []StoppedIsHeld
<1>1. DebugInv => StoppedIsHeld
  BY DEF DebugInv, SessionInv, Phases, Waiting, ProgramHeld, Asleep, StoppedIsHeld
<1>2. QED
  BY <1>1, DebugInvariant, PTL
=============================================================================
