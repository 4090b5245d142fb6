------------------------------ MODULE ActionDebug ------------------------------
(***************************************************************************)
(* The actions of vt_shell and its debug mode (vt/vt_action.c and the      *)
(* debug command line of cli/cli_cmdHandler.c).  An action is a list of    *)
(* handlers, each of which sends one message to the VoIP server.  Actions  *)
(* are run by the processor for the rows of the state machine, by the      *)
(* operator at the top command line, and in debug mode by threads created  *)
(* for that.  In debug mode an action stops at breakpoints, or before each *)
(* handler, until the operator lets it go on; while it goes on, the        *)
(* operator waits.                                                         *)
(*                                                                         *)
(* A section under l_actionCliSync.mutex is one step, and so is the store  *)
(* to l_debugMode in front of it: the mode is read without the mutex, at   *)
(* any time.  vt_initDebug takes no mutex: each of its stores is a step,   *)
(* and actions that end or stop come in between, or the store in the       *)
(* middle of their section (two stores inside of one section are left      *)
(* out).  actionThread sleeps                                              *)
(* 50 ms "to make sure cli wait first"; the model takes these 50 ms to be  *)
(* enough.                                                                 *)
(*                                                                         *)
(* Using a destroyed semaphore, destroying one that somebody waits for, or *)
(* reading freed memory is undefined.  Such a step sets misused, and the   *)
(* model goes no further.                                                  *)
(*                                                                         *)
(* The operators named Mut... are wrong variants of the operators behind   *)
(* them; the specification does not use them.                              *)
(***************************************************************************)
EXTENDS Integers, Sequences, FiniteSets

CONSTANTS
  Threads,      (* the action threads there may be at a time               *)
  Actions,      (* the names in l_allActionsName                           *)
  Cmds,         (* the messages to the VoIP server                         *)
  Handlers,     (* Handlers[a]: the messages action a sends, in order      *)
  breakMax,     (* breakMax of .vc_config                                  *)
  MaxCommands,  (* how many action commands are given                      *)
  MaxRuns,      (* how many actions the processor runs                     *)
  MaxSessions   (* how often debug mode is entered                         *)

Runners == Threads \union {"processor", "operator"}

ASSUME ThreadsAssumption == /\ IsFiniteSet(Threads)
                            /\ "processor" \notin Threads
                            /\ "operator" \notin Threads
ASSUME ActionsAssumption == "unknown" \notin Actions /\ Actions # {}
ASSUME HandlersAssumption == Handlers \in [Actions -> Seq(Cmds) \ {<< >>}]
ASSUME BoundsAssumption == {breakMax, MaxCommands, MaxRuns, MaxSessions} \subseteq Nat

VARIABLES
  op,                   (* where the operator's thread is                  *)
  line,                 (* the thread whose command line is not yet freed  *)
  mode,                 (* l_debugMode                                     *)
  breakpoints,          (* l_breakpoints                                   *)
  initialised,          (* the semaphores that are, and l_breakpoints      *)
                        (* while it is allocated                           *)
  actionSem, cliSem,    (* the values of the semaphores                    *)
  waitingActionNumber,
  waitCliNumber,
  pc,                   (* where each runner is                            *)
  action,               (* the action it runs                              *)
  handler,              (* which of its handlers is next                   *)
  buff,                 (* whose argument its buffer holds                 *)
  pInfoNeed,            (* whose argument the table holds for each action  *)
  left,                 (* commands, runs and sessions that may still come *)
  misused,              (* history: a step had no defined outcome          *)
  leftover,             (* history: debug mode was entered while an action *)
                        (* of an earlier session had yet to wake up        *)
  crowded,              (* history: more went on at a time than the action *)
                        (* the operator waits for                          *)
  early                 (* history: when this session began, cliSem was    *)
                        (* posted before waitCliNumber was reset           *)

cliVars == <<op, line>>
syncVars == <<actionSem, cliSem, waitingActionNumber, waitCliNumber>>
modeVars == <<mode, breakpoints, initialised>>
runVars == <<pc, action, handler, buff, pInfoNeed>>
histories == <<leftover, crowded, early>>
vars == <<cliVars, modeVars, syncVars, runVars, left, misused, histories>>

RunnerAt(r, place) == ~misused /\ pc[r] = place
OperatorAt(place) == ~misused /\ op = place
Go(r, place) == pc' = [pc EXCEPT ![r] = place]
Spend(what) == left[what] > 0 /\ left' = [left EXCEPT ![what] = @ - 1]

Waiting == {r \in Runners : pc[r] \in {"counted", "paused", "woken"}}

(* What is going on: actions that are neither over nor stopped, actions    *)
(* about to be let go, and an answer on its way to the operator.           *)
Stopped == {"idle", "counted", "paused"}
Running == Cardinality({r \in Runners : pc[r] \notin Stopped})
Activity == Running + actionSem + (IF cliSem > 0 \/ op = "woken" THEN 1 ELSE 0)
Begin(n) == crowded' = (crowded \/ Activity + n > 1)

Init ==
  /\ op = "top"
  /\ line = "none"
  /\ mode = "NO_DBG"
  /\ breakpoints = {}
  /\ initialised = {}
  /\ actionSem = 0 /\ cliSem = 0
  /\ waitingActionNumber = 0 /\ waitCliNumber = 0
  /\ pc = [r \in Runners |-> "idle"]
  /\ action \in {[r \in Runners |-> a] : a \in Actions}
  /\ handler = [r \in Runners |-> 1]
  /\ buff = [r \in Runners |-> r]
  /\ pInfoNeed = [a \in Actions |-> "operator"]
  /\ left = [commands |-> MaxCommands, runs |-> MaxRuns, sessions |-> MaxSessions]
  /\ misused = FALSE /\ leftover = FALSE /\ crowded = FALSE /\ early = FALSE

-----------------------------------------------------------------------------
(* An action.  vt_runAction points the table of the action at the          *)
(* arguments of this run.                                                  *)
RunAction(r, a) ==
  /\ Go(r, "loop")
  /\ action' = [action EXCEPT ![r] = a]
  /\ handler' = [handler EXCEPT ![r] = 1]
  /\ pInfoNeed' = [pInfoNeed EXCEPT ![a] = r]
  /\ UNCHANGED buff

ProcessorRuns(a) ==
  /\ RunnerAt("processor", "idle")
  /\ Spend("runs") /\ Begin(1)
  /\ RunAction("processor", a)
  /\ UNCHANGED <<cliVars, modeVars, syncVars, misused, leftover, early>>

OperatorRuns(a) ==
  /\ OperatorAt("top") /\ RunnerAt("operator", "idle")
  /\ Spend("commands") /\ Begin(1)
  /\ RunAction("operator", a)
  /\ UNCHANGED <<cliVars, modeVars, syncVars, misused, leftover, early>>

(* The new thread copies the command line and looks the action up.  When   *)
(* there is none, it ends without a word to the operator.                  *)
ThreadRuns(t) ==
  /\ RunnerAt(t, "starting") /\ op # "announce"
  /\ misused' = (line # t)
  /\ IF action[t] \in Actions
       THEN RunAction(t, action[t])
       ELSE /\ Go(t, "nothing")
            /\ UNCHANGED <<action, handler, buff, pInfoNeed>>
  /\ UNCHANGED <<cliVars, modeVars, syncVars, left, histories>>

(* Mutant: the operator is told whether he waits or not.                   *)
MutPostCli == cliSem' = cliSem + 1
PostCli == cliSem' = IF waitCliNumber > 0 THEN cliSem + 1 ELSE cliSem

(* One round of actionGo: the arguments are copied, then the mode is read  *)
(* twice, with a look at the breakpoints in between.                       *)
FillBuff(r) ==
  /\ RunnerAt(r, "loop")
  /\ buff' = [buff EXCEPT ![r] = pInfoNeed[action[r]]]
  /\ Go(r, IF mode = "BREAK_DBG" THEN "list" ELSE "step")
  /\ UNCHANGED <<cliVars, modeVars, syncVars, action, handler, pInfoNeed, left,
                 misused, histories>>

(* The freed list is not read when no breakpoint is set.                   *)
IsBreakpoint(r) ==
  /\ RunnerAt(r, "list")
  /\ misused' = (breakpoints # {} /\ "breakpoints" \notin initialised)
  /\ Go(r, IF Handlers[action[r]][handler[r]] \in breakpoints THEN "stop" ELSE "step")
  /\ UNCHANGED <<cliVars, modeVars, syncVars, action, handler, buff, pInfoNeed, left,
                 histories>>

IsStep(r) ==
  /\ RunnerAt(r, "step")
  /\ Go(r, IF mode = "STEP_DBG" THEN "stop" ELSE "run")
  /\ UNCHANGED <<cliVars, modeVars, syncVars, action, handler, buff, pInfoNeed, left,
                 misused, histories>>

(* Mutant: an action counts itself only when the operator waits.           *)
MutCountIn ==
  waitingActionNumber' = waitingActionNumber + (IF waitCliNumber > 0 THEN 1 ELSE 0)
CountIn == waitingActionNumber' = waitingActionNumber + 1

CliSemMisused == waitCliNumber > 0 /\ "cliSem" \notin initialised

(* The first section of enterWaitState                                     *)
Stop(r) ==
  /\ RunnerAt(r, "stop")
  /\ PostCli
  /\ CountIn
  /\ misused' = CliSemMisused
  /\ Go(r, "counted")
  /\ UNCHANGED <<action, handler, buff, pInfoNeed>>

EnterWait(r) ==
  /\ Stop(r)
  /\ UNCHANGED <<cliVars, modeVars, actionSem, waitCliNumber, left, histories>>

(* sem_wait is called.                                                     *)
Pause(r) ==
  /\ RunnerAt(r, "counted")
  /\ misused' = ("actionSem" \notin initialised)
  /\ Go(r, "paused")
  /\ UNCHANGED <<cliVars, modeVars, syncVars, action, handler, buff, pInfoNeed, left,
                 histories>>

Awake(r) ==
  /\ RunnerAt(r, "paused") /\ actionSem > 0
  /\ actionSem' = actionSem - 1
  /\ Go(r, "woken")
  /\ UNCHANGED <<cliVars, modeVars, cliSem, waitingActionNumber, waitCliNumber, action,
                 handler, buff, pInfoNeed, left, misused, histories>>

(* The last section of enterWaitState                                      *)
GoOn(r) ==
  /\ RunnerAt(r, "woken")
  /\ waitingActionNumber' = waitingActionNumber - 1
  /\ Go(r, "run")
  /\ UNCHANGED <<cliSem, action, handler, buff, pInfoNeed, misused>>

LeaveWait(r) ==
  /\ GoOn(r)
  /\ UNCHANGED <<cliVars, modeVars, actionSem, waitCliNumber, left, histories>>

(* The handler sends its message; after a failure the rest is left out.    *)
RunHandler(r) ==
  /\ RunnerAt(r, "run")
  /\ \/ /\ handler[r] < Len(Handlers[action[r]])
        /\ handler' = [handler EXCEPT ![r] = @ + 1]
        /\ Go(r, "loop")
     \/ Go(r, "end") /\ UNCHANGED handler
  /\ UNCHANGED <<cliVars, modeVars, syncVars, action, buff, pInfoNeed, left, misused,
                 histories>>

(* The section at the end of actionGo                                      *)
End(r) ==
  /\ RunnerAt(r, "end")
  /\ PostCli
  /\ misused' = CliSemMisused
  /\ Go(r, "idle")
  /\ handler' = [handler EXCEPT ![r] = 1]
  /\ buff' = [buff EXCEPT ![r] = r]
  /\ UNCHANGED <<waitingActionNumber, action, pInfoNeed>>

EndAction(r) ==
  /\ End(r)
  /\ UNCHANGED <<cliVars, modeVars, actionSem, waitCliNumber, left, histories>>

-----------------------------------------------------------------------------
(* The operator.  vt_initDebug, store by store: the list is allocated and  *)
(* cleared (whoever looks at it between the two finds VOIP_DSP_DEFAULT,    *)
(* number 0, which is left out), the semaphores are initialised, the       *)
(* counters and the mode are set.                                          *)
EnterDebug ==
  /\ OperatorAt("top") /\ RunnerAt("operator", "idle")
  /\ Spend("sessions")
  /\ breakpoints' = {} /\ initialised' = initialised \union {"breakpoints"}
  /\ op' = "initActionSem"
  /\ UNCHANGED <<line, mode, syncVars, runVars, misused, histories>>

InitActionSem ==
  /\ OperatorAt("initActionSem")
  /\ actionSem' = 0 /\ initialised' = initialised \union {"actionSem"}
  /\ op' = "initCliSem"
  /\ UNCHANGED <<line, mode, breakpoints, cliSem, waitingActionNumber, waitCliNumber,
                 runVars, left, misused, histories>>

InitCliSem ==
  /\ OperatorAt("initCliSem")
  /\ cliSem' = 0 /\ initialised' = initialised \union {"cliSem"}
  /\ op' = "resetCli"
  /\ UNCHANGED <<line, mode, breakpoints, actionSem, waitingActionNumber, waitCliNumber,
                 runVars, left, misused, histories>>

(* Who still finds waitCliNumber at 1, where the last exit may have left   *)
(* it, posts the new semaphore - before the store, or after it, when the   *)
(* store comes inside of its section.                                      *)
ResetsCli ==
  /\ OperatorAt("resetCli")
  /\ waitCliNumber' = 0
  /\ early' = (cliSem' > 0)
  /\ op' = "resetWaiting"
  /\ UNCHANGED <<line, modeVars, actionSem, left, crowded, leftover>>

ResetCli ==
  /\ UNCHANGED <<cliSem, waitingActionNumber, runVars, misused>>
  /\ ResetsCli

MissReset(r) == (Stop(r) \/ End(r)) /\ ResetsCli

(* The store to waitingActionNumber comes between two sections of an       *)
(* action, or inside of one, where it is lost: the section has read the    *)
(* counter and writes it back.                                             *)
ResetsWaiting ==
  /\ OperatorAt("resetWaiting")
  /\ leftover' = (leftover \/ Waiting # {})
  /\ op' = "setMode"
  /\ UNCHANGED <<line, modeVars, actionSem, waitCliNumber, left, crowded, early>>

ResetWaiting ==
  /\ ResetsWaiting
  /\ waitingActionNumber' = 0
  /\ UNCHANGED <<cliSem, runVars, misused>>

LoseReset(r) == ResetsWaiting /\ (Stop(r) \/ GoOn(r))

SetMode ==
  /\ OperatorAt("setMode")
  /\ mode' = "BREAK_DBG"
  /\ op' = "prompt"
  /\ UNCHANGED <<line, breakpoints, initialised, syncVars, runVars, left, misused,
                 histories>>

(* innerExecCmd: an action command gets a thread of its own.               *)
ActionCommand(t, a) ==
  /\ OperatorAt("prompt") /\ RunnerAt(t, "idle")
  /\ Spend("commands") /\ Begin(1)
  /\ mode' = "BREAK_DBG"
  /\ op' = "announce" /\ line' = t
  /\ Go(t, "starting")
  /\ action' = [action EXCEPT ![t] = a]
  /\ UNCHANGED <<breakpoints, initialised, syncVars, handler, buff, pInfoNeed, misused,
                 leftover, early>>

(* vt_cliWaiting up to its sem_wait                                        *)
CliWaiting ==
  /\ OperatorAt("announce")
  /\ op' = "waiting"
  /\ waitCliNumber' = waitCliNumber + 1
  /\ UNCHANGED <<line, modeVars, actionSem, cliSem, waitingActionNumber, runVars,
                 left, misused, histories>>

(* Mutant: the operator counts himself after the unlock.                   *)
MutLetGo ==
  actionSem' = actionSem + 1 /\ op' = "announce" /\ UNCHANGED waitCliNumber
LetGo ==
  actionSem' = actionSem + 1 /\ op' = "waiting" /\ waitCliNumber' = waitCliNumber + 1

(* vt_next and vt_run: wakeActionThenWaitIfNeed up to its sem_wait         *)
WakeAction(m) ==
  /\ OperatorAt("prompt")
  /\ mode' = m
  /\ IF waitingActionNumber > 0
       THEN LetGo /\ Begin(1)
       ELSE UNCHANGED <<actionSem, waitCliNumber, op, crowded>>
  /\ UNCHANGED <<line, breakpoints, initialised, cliSem, waitingActionNumber, runVars,
                 left, misused, leftover, early>>

CliAwake ==
  /\ OperatorAt("waiting") /\ cliSem > 0
  /\ cliSem' = cliSem - 1
  /\ op' = "woken"
  /\ UNCHANGED <<line, modeVars, actionSem, waitingActionNumber, waitCliNumber, runVars,
                 left, misused, histories>>

(* The end of vt_cliWaiting or wakeActionThenWaitIfNeed, which brings      *)
(* cli_debugHandler back to its prompt; it frees the command line first.   *)
CliReturns ==
  /\ OperatorAt("woken")
  /\ waitCliNumber' = waitCliNumber - 1
  /\ op' = "prompt" /\ line' = "none"
  /\ pc' = [r \in Runners |-> IF pc[r] = "nothing" THEN "idle" ELSE pc[r]]
  /\ UNCHANGED <<modeVars, actionSem, cliSem, waitingActionNumber, action, handler, buff,
                 pInfoNeed, left, misused, histories>>

(* Mutant: the limit is not tested.                                        *)
MutAdd(c) == breakpoints' = breakpoints \union {c}
Add(c) ==
  breakpoints' = IF Cardinality(breakpoints) < breakMax
                   THEN breakpoints \union {c} ELSE breakpoints

BreakAt(c) ==
  /\ OperatorAt("prompt")
  /\ mode' = "BREAK_DBG"
  /\ Add(c)
  /\ UNCHANGED <<cliVars, initialised, syncVars, runVars, left, misused, histories>>

UnbreakAt(c) ==
  /\ OperatorAt("prompt")
  /\ mode' = "BREAK_DBG"
  /\ breakpoints' = breakpoints \ {c}
  /\ UNCHANGED <<cliVars, initialised, syncVars, runVars, left, misused, histories>>

(* exit, then vt_exitDebug: all that wait are let go, the first answer     *)
(* counts for all of them, and waitCliNumber stays 1.                      *)
ExitDebug ==
  /\ OperatorAt("prompt")
  /\ mode' = "NO_DBG"
  /\ IF waitingActionNumber > 0
       THEN /\ actionSem' = actionSem + waitingActionNumber
            /\ waitCliNumber' = 1
            /\ op' = "exiting"
            /\ Begin(waitingActionNumber)
       ELSE /\ op' = "destroying"
            /\ UNCHANGED <<actionSem, waitCliNumber, crowded>>
  /\ UNCHANGED <<line, breakpoints, initialised, cliSem, waitingActionNumber, runVars,
                 left, misused, leftover, early>>

ExitAwake ==
  /\ OperatorAt("exiting") /\ cliSem > 0
  /\ cliSem' = cliSem - 1
  /\ op' = "destroying"
  /\ UNCHANGED <<line, modeVars, actionSem, waitingActionNumber, waitCliNumber, runVars,
                 left, misused, histories>>

DestroySems ==
  /\ OperatorAt("destroying")
  /\ initialised' = {}
  /\ misused' = (\E r \in Runners : pc[r] = "paused")
  /\ op' = "top"
  /\ UNCHANGED <<line, mode, breakpoints, syncVars, runVars, left, histories>>

(* vt_loadAction frees the table, whoever runs an action of it.            *)
LoadAction ==
  /\ OperatorAt("top") /\ RunnerAt("operator", "idle")
  /\ misused' = (\E r \in Runners : pc[r] \notin {"idle", "starting", "nothing"})
  /\ UNCHANGED <<cliVars, modeVars, syncVars, runVars, left, histories>>

-----------------------------------------------------------------------------
RunnerStep(r) ==
  \/ FillBuff(r) \/ IsBreakpoint(r) \/ IsStep(r)
  \/ EnterWait(r) \/ Pause(r) \/ Awake(r) \/ LeaveWait(r)
  \/ RunHandler(r) \/ EndAction(r)
  \/ r \in Threads /\ ThreadRuns(r)

InitDebug ==
  \/ InitActionSem \/ InitCliSem \/ ResetCli \/ ResetWaiting \/ SetMode
  \/ \E r \in Runners : MissReset(r) \/ LoseReset(r)

OperatorWait == CliWaiting \/ CliAwake \/ CliReturns \/ ExitAwake \/ DestroySems

Next ==
  \/ \E r \in Runners : RunnerStep(r)
  \/ \E a \in Actions : ProcessorRuns(a) \/ OperatorRuns(a)
  \/ EnterDebug \/ InitDebug
  \/ \E t \in Threads, a \in Actions \union {"unknown"} : ActionCommand(t, a)
  \/ OperatorWait
  \/ \E m \in {"STEP_DBG", "BREAK_DBG"} : WakeAction(m)
  \/ \E c \in Cmds : BreakAt(c) \/ UnbreakAt(c)
  \/ ExitDebug
  \/ LoadAction

(* Threads that can run do; neither the operator's commands nor the        *)
(* processor's events are certain to come.                                 *)
Fairness ==
  /\ \A r \in Runners : WF_vars(RunnerStep(r))
  /\ WF_vars(InitDebug) /\ WF_vars(OperatorWait)

Spec == Init /\ [][Next]_vars /\ Fairness

-----------------------------------------------------------------------------
Places == {"idle", "starting", "nothing", "loop", "list", "step", "stop", "counted",
           "paused", "woken", "run", "end"}
Initialising == {"initActionSem", "initCliSem", "resetCli", "resetWaiting", "setMode"}

(* Types.  The counters of a later session may be off: see WaitersCounted. *)
TypeOK ==
  /\ op \in Initialising \union
            {"top", "prompt", "announce", "waiting", "woken", "exiting", "destroying"}
  /\ line \in Threads \union {"none"}
  /\ mode \in {"NO_DBG", "BREAK_DBG", "STEP_DBG"}
  /\ breakpoints \subseteq Cmds /\ Cardinality(breakpoints) <= breakMax
  /\ initialised \subseteq {"breakpoints", "actionSem", "cliSem"}
  /\ misused \in BOOLEAN
  /\ leftover \in BOOLEAN /\ crowded \in BOOLEAN /\ early \in BOOLEAN
  /\ actionSem \in Nat /\ cliSem \in Nat
  /\ waitingActionNumber \in Int /\ waitCliNumber \in Nat
  /\ pc \in [Runners -> Places]
  /\ action \in [Runners -> Actions \union {"unknown"}]
  /\ handler \in [Runners -> Nat \ {0}]
  /\ buff \in [Runners -> Runners]
  /\ pInfoNeed \in [Actions -> Runners]
  /\ left \in [{"commands", "runs", "sessions"} -> Nat]

(* waitingActionNumber, by which next and run decide whether there is an   *)
(* action to let go, and exit how many, is the number of actions that are  *)
(* stopped or have not yet counted themselves out - as long as none of     *)
(* them outlives the session: vt_initDebug sets the counter to 0 under it. *)
WaitersCounted == ~leftover => waitingActionNumber = Cardinality(Waiting)

(* A prompt means that every action command is over or has stopped, and    *)
(* that no post of either semaphore is left over which would end the next  *)
(* wait, or pass the next breakpoint, at once.  While the operator waits   *)
(* for one action, the end of another one wakes him: that is excepted, and *)
(* so is a session that began with a post, by an action that ended or      *)
(* stopped after the semaphore was initialised and before waitCliNumber    *)
(* had been reset.                                                         *)
PromptMeansStopped ==
  op = "prompt" /\ ~crowded /\ ~early =>
    /\ \A t \in Threads : pc[t] \in Stopped
    /\ actionSem = 0 /\ cliSem = 0 /\ waitCliNumber = 0

(* Whoever waits for actions gets his prompt back: each action he lets go  *)
(* or starts ends or stops, and tells him.  Excepted is the command that   *)
(* names no action, whose thread tells nobody.                             *)
PromptReturns ==
  op \notin {"top", "prompt"} ~>
    \/ op \in {"top", "prompt"}
    \/ misused
    \/ \E t \in Threads : pc[t] = "nothing"

(* "We must copy data of pArg to new array ... the memory which pArg point *)
(* to will be freed!": an action that stopped goes on with its own         *)
(* arguments.                                                              *)
OwnArguments ==
  \A t \in Threads : pc[t] \in {"list", "step", "stop", "run"} => buff[t] = t
=============================================================================
