-------------------------- MODULE ActionDebugProofs --------------------------
(***************************************************************************)
(* Theorems about ActionDebug for any number of threads, actions,          *)
(* breakpoints, commands and sessions: types, and that the counter by      *)
(* which the operator lets actions go is right within a session.           *)
(***************************************************************************)
EXTENDS ActionDebug, FiniteSetTheorems, TLAPS

Ops == Initialising \union
         {"top", "prompt", "announce", "waiting", "woken", "exiting", "destroying"}

DataOK ==
  /\ op \in Ops
  /\ line \in Threads \union {"none"}
  /\ mode \in {"NO_DBG", "BREAK_DBG", "STEP_DBG"}
  /\ actionSem \in Nat /\ cliSem \in Nat
  /\ waitingActionNumber \in Int /\ waitCliNumber \in Nat
  /\ left \in [{"commands", "runs", "sessions"} -> Nat]

BreakpointsOK ==
  breakpoints \subseteq Cmds /\ IsFiniteSet(breakpoints) /\ Cardinality(breakpoints) <= breakMax

FlagsOK ==
  /\ initialised \subseteq {"breakpoints", "actionSem", "cliSem"}
  /\ misused \in BOOLEAN
  /\ leftover \in BOOLEAN /\ crowded \in BOOLEAN /\ early \in BOOLEAN

RunsOK ==
  /\ pc \in [Runners -> Places]
  /\ action \in [Runners -> Actions \union {"unknown"}]
  /\ handler \in [Runners -> Nat \ {0}]
  /\ buff \in [Runners -> Runners]
  /\ pInfoNeed \in [Actions -> Runners]
  /\ \A r \in Runners : pc[r] \notin {"idle", "starting", "nothing"} => action[r] \in Actions

(* The operator's own counter: 1 while he waits, 0 when he does not; after *)
(* exit it keeps its value until it is reset when debug mode is entered.   *)
CliCounted ==
  /\ op \in {"waiting", "woken"} => waitCliNumber = 1
  /\ op \in {"resetWaiting", "setMode", "prompt", "announce"} => waitCliNumber = 0

IInv == DataOK /\ BreakpointsOK /\ FlagsOK /\ RunsOK /\ CliCounted /\ WaitersCounted

-----------------------------------------------------------------------------
LEMMA FiniteWaiting ==
  /\ IsFiniteSet(Waiting)
  /\ Cardinality(Waiting) \in Nat
<1>1. IsFiniteSet({"processor", "operator"})
  <2>1. IsFiniteSet({"processor"} \union {"operator"})
    BY FS_Singleton, FS_AddElement
  <2>2. {"processor"} \union {"operator"} = {"processor", "operator"}
    OBVIOUS
  <2>3. QED
    BY <2>1, <2>2
<1>2. IsFiniteSet(Runners)
  BY <1>1, ThreadsAssumption, FS_Union DEF Runners
<1>3. Waiting \in SUBSET Runners
  BY DEF Waiting
<1>4. QED
  BY <1>2, <1>3, FS_Subset, FS_CardinalityType

(* An action that stops is one more, one that goes on is one less, and a   *)
(* runner that moves elsewhere changes nothing.                            *)
LEMMA OneMore ==
  ASSUME RunsOK, NEW r \in Runners, pc[r] = "stop", Go(r, "counted")
  PROVE  Cardinality(Waiting') = Cardinality(Waiting) + 1
<1>1. Waiting' = Waiting \union {r} /\ r \notin Waiting
  BY DEF Waiting, Go, RunsOK
<1>2. QED
  BY <1>1, FiniteWaiting, FS_AddElement

LEMMA OneLess ==
  ASSUME RunsOK, NEW r \in Runners, pc[r] = "woken", Go(r, "run")
  PROVE  Cardinality(Waiting') = Cardinality(Waiting) - 1
<1>1. Waiting' = Waiting \ {r} /\ r \in Waiting
  BY DEF Waiting, Go, RunsOK
<1>2. QED
  BY <1>1, FiniteWaiting, FS_RemoveElement

LEMMA AsMany ==
  ASSUME RunsOK, NEW r \in Runners, NEW place, Go(r, place),
         pc[r] \in {"counted", "paused", "woken"} <=> place \in {"counted", "paused", "woken"}
  PROVE  Waiting' = Waiting
BY DEF Waiting, Go, RunsOK

LEMMA InitHolds == Init => IInv
<1>. SUFFICES ASSUME Init PROVE IInv
  OBVIOUS
<1>1. DataOK /\ CliCounted
  BY BoundsAssumption DEF Init, DataOK, CliCounted, Ops, Initialising
<1>2. BreakpointsOK
  BY BoundsAssumption, FS_EmptySet DEF Init, BreakpointsOK
<1>3. FlagsOK
  BY DEF Init, FlagsOK
<1>4. RunsOK
  BY DEF Init, RunsOK, Places, Runners
<1>5. WaitersCounted
  <2>1. Waiting = {}
    BY DEF Init, Waiting
  <2>2. QED
    BY <2>1, FS_EmptySet DEF Init, WaitersCounted
<1>6. QED
  BY <1>1, <1>2, <1>3, <1>4, <1>5 DEF IInv

(* Adding to or taking from a finite set.                                  *)
LEMMA AddBounds ==
  ASSUME NEW S, NEW x, IsFiniteSet(S)
  PROVE  /\ IsFiniteSet(S \union {x})
         /\ Cardinality(S) \in Nat
         /\ Cardinality(S \union {x}) \in Nat
         /\ Cardinality(S \union {x}) <= Cardinality(S) + 1
<1>1. IsFiniteSet(S \union {x}) /\ Cardinality(S) \in Nat /\ Cardinality(S \union {x}) \in Nat
  BY FS_AddElement, FS_CardinalityType
<1>2. Cardinality(S \union {x}) = IF x \in S THEN Cardinality(S) ELSE Cardinality(S) + 1
  BY FS_AddElement
<1>3. QED
  BY <1>1, <1>2

LEMMA RemoveBounds ==
  ASSUME NEW S, NEW x, IsFiniteSet(S)
  PROVE  /\ IsFiniteSet(S \ {x})
         /\ Cardinality(S) \in Nat
         /\ Cardinality(S \ {x}) \in Nat
         /\ Cardinality(S \ {x}) <= Cardinality(S)
<1>1. IsFiniteSet(S \ {x}) /\ Cardinality(S) \in Nat /\ Cardinality(S \ {x}) \in Nat
  BY FS_RemoveElement, FS_CardinalityType
<1>2. Cardinality(S \ {x}) = IF x \in S THEN Cardinality(S) - 1 ELSE Cardinality(S)
  BY FS_RemoveElement
<1>3. QED
  BY <1>1, <1>2

-----------------------------------------------------------------------------
(* The runners.  RunAction and the steps of actionGo that neither post nor *)
(* wait leave the counters alone.                                          *)
LEMMA RunActionKeeps ==
  ASSUME IInv, NEW r \in Runners, NEW a \in Actions, RunAction(r, a), pc[r] \notin {"counted", "paused", "woken"}
  PROVE  RunsOK' /\ Waiting' = Waiting
<1>1. Waiting' = Waiting
  BY AsMany DEF RunAction, IInv
<1>2. RunsOK'
  BY DEF RunAction, Go, IInv, RunsOK, Places
<1>3. QED
  BY <1>1, <1>2

LEMMA ProcessorRunsKeeps ==
  ASSUME IInv, NEW a \in Actions, ProcessorRuns(a)
  PROVE  IInv'
<1>1. RunsOK' /\ Waiting' = Waiting
  BY RunActionKeeps DEF ProcessorRuns, RunnerAt, Runners
<1>2. DataOK' /\ CliCounted'
  BY DEF ProcessorRuns, Spend, cliVars, modeVars, syncVars, IInv, DataOK, CliCounted
<1>3. BreakpointsOK'
  BY DEF ProcessorRuns, modeVars, IInv, BreakpointsOK
<1>4. FlagsOK'
  BY Zenon DEF ProcessorRuns, Begin, modeVars, histories, IInv, FlagsOK
<1>5. WaitersCounted'
  BY <1>1 DEF ProcessorRuns, syncVars, histories, IInv, WaitersCounted
<1>6. QED
  BY <1>1, <1>2, <1>3, <1>4, <1>5 DEF IInv

LEMMA OperatorRunsKeeps ==
  ASSUME IInv, NEW a \in Actions, OperatorRuns(a)
  PROVE  IInv'
<1>1. RunsOK' /\ Waiting' = Waiting
  BY RunActionKeeps DEF OperatorRuns, RunnerAt, Runners
<1>2. DataOK' /\ CliCounted'
  BY DEF OperatorRuns, Spend, cliVars, modeVars, syncVars, IInv, DataOK, CliCounted
<1>3. BreakpointsOK'
  BY DEF OperatorRuns, modeVars, IInv, BreakpointsOK
<1>4. FlagsOK'
  BY Zenon DEF OperatorRuns, Begin, modeVars, histories, IInv, FlagsOK
<1>5. WaitersCounted'
  BY <1>1 DEF OperatorRuns, syncVars, histories, IInv, WaitersCounted
<1>6. QED
  BY <1>1, <1>2, <1>3, <1>4, <1>5 DEF IInv

LEMMA ThreadRunsKeeps ==
  ASSUME IInv, NEW t \in Threads, ThreadRuns(t)
  PROVE  IInv'
<1>1. RunsOK' /\ Waiting' = Waiting
  <2>1. t \in Runners /\ pc[t] = "starting"
    BY DEF ThreadRuns, RunnerAt, Runners
  <2>2. CASE action[t] \in Actions
    BY <2>1, <2>2, RunActionKeeps DEF ThreadRuns
  <2>3. CASE action[t] \notin Actions
    <3>1. Waiting' = Waiting
      BY <2>1, <2>3, AsMany DEF ThreadRuns, IInv
    <3>2. RunsOK'
      BY <2>1, <2>3 DEF ThreadRuns, Go, IInv, RunsOK, Places
    <3>3. QED
      BY <3>1, <3>2
  <2>4. QED
    BY <2>2, <2>3
<1>2. DataOK' /\ CliCounted'
  BY DEF ThreadRuns, cliVars, modeVars, syncVars, IInv, DataOK, CliCounted
<1>3. BreakpointsOK'
  BY DEF ThreadRuns, modeVars, IInv, BreakpointsOK
<1>4. FlagsOK'
  BY Zenon DEF ThreadRuns, modeVars, histories, IInv, FlagsOK
<1>5. WaitersCounted'
  BY <1>1 DEF ThreadRuns, syncVars, histories, IInv, WaitersCounted
<1>6. QED
  BY <1>1, <1>2, <1>3, <1>4, <1>5 DEF IInv

LEMMA FillBuffKeeps ==
  ASSUME IInv, NEW r \in Runners, FillBuff(r)
  PROVE  IInv'
<1>1. Waiting' = Waiting
  BY AsMany DEF FillBuff, RunnerAt, IInv
<1>2. RunsOK'
  BY DEF FillBuff, RunnerAt, Go, IInv, RunsOK, Places
<1>3. DataOK' /\ CliCounted'
  BY DEF FillBuff, cliVars, modeVars, syncVars, IInv, DataOK, CliCounted
<1>4. BreakpointsOK'
  BY DEF FillBuff, modeVars, IInv, BreakpointsOK
<1>5. FlagsOK'
  BY Zenon DEF FillBuff, modeVars, histories, IInv, FlagsOK
<1>6. WaitersCounted'
  BY <1>1 DEF FillBuff, syncVars, histories, IInv, WaitersCounted
<1>7. QED
  BY <1>1, <1>2, <1>3, <1>4, <1>5, <1>6 DEF IInv

LEMMA IsBreakpointKeeps ==
  ASSUME IInv, NEW r \in Runners, IsBreakpoint(r)
  PROVE  IInv'
<1>1. Waiting' = Waiting
  BY AsMany DEF IsBreakpoint, RunnerAt, IInv
<1>2. RunsOK'
  BY DEF IsBreakpoint, RunnerAt, Go, IInv, RunsOK, Places
<1>3. DataOK' /\ CliCounted'
  BY DEF IsBreakpoint, cliVars, modeVars, syncVars, IInv, DataOK, CliCounted
<1>4. BreakpointsOK'
  BY DEF IsBreakpoint, modeVars, IInv, BreakpointsOK
<1>5. FlagsOK'
  BY Zenon DEF IsBreakpoint, modeVars, histories, IInv, FlagsOK
<1>6. WaitersCounted'
  BY <1>1 DEF IsBreakpoint, syncVars, histories, IInv, WaitersCounted
<1>7. QED
  BY <1>1, <1>2, <1>3, <1>4, <1>5, <1>6 DEF IInv

LEMMA IsStepKeeps ==
  ASSUME IInv, NEW r \in Runners, IsStep(r)
  PROVE  IInv'
<1>1. Waiting' = Waiting
  BY AsMany DEF IsStep, RunnerAt, IInv
<1>2. RunsOK'
  BY DEF IsStep, RunnerAt, Go, IInv, RunsOK, Places
<1>3. DataOK' /\ CliCounted'
  BY DEF IsStep, cliVars, modeVars, syncVars, IInv, DataOK, CliCounted
<1>4. BreakpointsOK'
  BY DEF IsStep, modeVars, IInv, BreakpointsOK
<1>5. FlagsOK'
  BY Zenon DEF IsStep, modeVars, histories, IInv, FlagsOK
<1>6. WaitersCounted'
  BY <1>1 DEF IsStep, syncVars, histories, IInv, WaitersCounted
<1>7. QED
  BY <1>1, <1>2, <1>3, <1>4, <1>5, <1>6 DEF IInv

LEMMA RunHandlerKeeps ==
  ASSUME IInv, NEW r \in Runners, RunHandler(r)
  PROVE  IInv'
<1>1. Waiting' = Waiting
  BY AsMany DEF RunHandler, RunnerAt, IInv
<1>2. RunsOK'
  <2>1. handler' \in [Runners -> Nat \ {0}]
    BY DEF RunHandler, IInv, RunsOK
  <2>2. \E place \in {"loop", "end"} : Go(r, place)
    BY DEF RunHandler
  <2>3. QED
    BY <2>1, <2>2 DEF RunHandler, RunnerAt, runVars, Go, IInv, RunsOK, Places
<1>3. DataOK' /\ CliCounted'
  BY DEF RunHandler, cliVars, modeVars, syncVars, IInv, DataOK, CliCounted
<1>4. BreakpointsOK'
  BY DEF RunHandler, modeVars, IInv, BreakpointsOK
<1>5. FlagsOK'
  BY Zenon DEF RunHandler, modeVars, histories, IInv, FlagsOK
<1>6. WaitersCounted'
  BY <1>1 DEF RunHandler, syncVars, histories, IInv, WaitersCounted
<1>7. QED
  BY <1>1, <1>2, <1>3, <1>4, <1>5, <1>6 DEF IInv

LEMMA EndActionKeeps ==
  ASSUME IInv, NEW r \in Runners, EndAction(r)
  PROVE  IInv'
<1>1. Waiting' = Waiting
  BY AsMany DEF EndAction, End, RunnerAt, IInv
<1>2. RunsOK'
  BY DEF EndAction, End, RunnerAt, Go, IInv, RunsOK, Places
<1>3. DataOK' /\ CliCounted'
  BY DEF EndAction, End, cliVars, modeVars, syncVars, IInv, DataOK, CliCounted, PostCli
<1>4. BreakpointsOK'
  BY DEF EndAction, End, modeVars, IInv, BreakpointsOK
<1>5. FlagsOK'
  BY Zenon DEF EndAction, End, CliSemMisused, modeVars, histories, IInv, FlagsOK
<1>6. WaitersCounted'
  BY <1>1 DEF EndAction, End, syncVars, histories, IInv, WaitersCounted
<1>7. QED
  BY <1>1, <1>2, <1>3, <1>4, <1>5, <1>6 DEF IInv

LEMMA EnterWaitKeeps ==
  ASSUME IInv, NEW r \in Runners, EnterWait(r)
  PROVE  IInv'
<1>1. Cardinality(Waiting') = Cardinality(Waiting) + 1
  BY OneMore DEF EnterWait, Stop, RunnerAt, IInv
<1>2. RunsOK'
  BY DEF EnterWait, Stop, RunnerAt, Go, IInv, RunsOK, Places
<1>3. DataOK' /\ CliCounted'
  BY DEF EnterWait, Stop, cliVars, modeVars, syncVars, IInv, DataOK, CliCounted, PostCli, CountIn
<1>4. BreakpointsOK'
  BY DEF EnterWait, modeVars, IInv, BreakpointsOK
<1>5. FlagsOK'
  BY Zenon DEF EnterWait, Stop, CliSemMisused, modeVars, histories, IInv, FlagsOK
<1>6. WaitersCounted'
  BY <1>1, FiniteWaiting DEF EnterWait, Stop, CountIn, histories, IInv, WaitersCounted
<1>7. QED
  BY <1>1, <1>2, <1>3, <1>4, <1>5, <1>6 DEF IInv

LEMMA PauseKeeps ==
  ASSUME IInv, NEW r \in Runners, Pause(r)
  PROVE  IInv'
<1>1. Waiting' = Waiting
  BY AsMany DEF Pause, RunnerAt, IInv
<1>2. RunsOK'
  BY DEF Pause, RunnerAt, Go, IInv, RunsOK, Places
<1>3. DataOK' /\ CliCounted'
  BY DEF Pause, cliVars, modeVars, syncVars, IInv, DataOK, CliCounted
<1>4. BreakpointsOK'
  BY DEF Pause, modeVars, IInv, BreakpointsOK
<1>5. FlagsOK'
  BY Zenon DEF Pause, modeVars, histories, IInv, FlagsOK
<1>6. WaitersCounted'
  BY <1>1 DEF Pause, syncVars, histories, IInv, WaitersCounted
<1>7. QED
  BY <1>1, <1>2, <1>3, <1>4, <1>5, <1>6 DEF IInv

LEMMA LeaveWaitKeeps ==
  ASSUME IInv, NEW r \in Runners, LeaveWait(r)
  PROVE  IInv'
<1>1. Cardinality(Waiting') = Cardinality(Waiting) - 1
  BY OneLess DEF LeaveWait, GoOn, RunnerAt, IInv
<1>2. RunsOK'
  BY DEF LeaveWait, GoOn, RunnerAt, Go, IInv, RunsOK, Places
<1>3. DataOK' /\ CliCounted'
  BY DEF LeaveWait, GoOn, cliVars, modeVars, syncVars, IInv, DataOK, CliCounted
<1>4. BreakpointsOK'
  BY DEF LeaveWait, modeVars, IInv, BreakpointsOK
<1>5. FlagsOK'
  BY Zenon DEF LeaveWait, GoOn, modeVars, histories, IInv, FlagsOK
<1>6. WaitersCounted'
  BY <1>1, FiniteWaiting DEF LeaveWait, GoOn, histories, IInv, WaitersCounted
<1>7. QED
  BY <1>1, <1>2, <1>3, <1>4, <1>5, <1>6 DEF IInv

LEMMA AwakeKeeps ==
  ASSUME IInv, NEW r \in Runners, Awake(r)
  PROVE  IInv'
<1>1. Waiting' = Waiting
  BY AsMany DEF Awake, RunnerAt, IInv
<1>2. RunsOK'
  BY DEF Awake, RunnerAt, Go, IInv, RunsOK, Places
<1>3. DataOK' /\ CliCounted'
  BY DEF Awake, cliVars, modeVars, syncVars, IInv, DataOK, CliCounted
<1>4. BreakpointsOK'
  BY DEF Awake, modeVars, IInv, BreakpointsOK
<1>5. FlagsOK'
  BY Zenon DEF Awake, modeVars, histories, IInv, FlagsOK
<1>6. WaitersCounted'
  BY <1>1 DEF Awake, syncVars, histories, IInv, WaitersCounted
<1>7. QED
  BY <1>1, <1>2, <1>3, <1>4, <1>5, <1>6 DEF IInv

-----------------------------------------------------------------------------
(* The operator.                                                           *)
LEMMA EnterDebugKeeps ==
  ASSUME IInv, EnterDebug
  PROVE  IInv'
<1>1. Waiting' = Waiting
  BY DEF EnterDebug, runVars, Waiting
<1>2. RunsOK'
  BY DEF EnterDebug, runVars, IInv, RunsOK
<1>3. DataOK' /\ CliCounted'
  BY DEF EnterDebug, OperatorAt, cliVars, modeVars, syncVars, IInv, DataOK, CliCounted, Ops,
         Initialising, Spend
<1>4. BreakpointsOK'
  BY BoundsAssumption, FS_EmptySet DEF EnterDebug, IInv, BreakpointsOK
<1>5. FlagsOK'
  BY Zenon DEF EnterDebug, modeVars, histories, IInv, FlagsOK
<1>6. WaitersCounted'
  BY <1>1 DEF EnterDebug, syncVars, histories, IInv, WaitersCounted
<1>7. QED
  BY <1>1, <1>2, <1>3, <1>4, <1>5, <1>6 DEF IInv

LEMMA InitActionSemKeeps ==
  ASSUME IInv, InitActionSem
  PROVE  IInv'
<1>1. Waiting' = Waiting
  BY DEF InitActionSem, runVars, Waiting
<1>2. RunsOK'
  BY DEF InitActionSem, runVars, IInv, RunsOK
<1>3. DataOK' /\ CliCounted'
  BY DEF InitActionSem, OperatorAt, cliVars, modeVars, syncVars, IInv, DataOK, CliCounted, Ops,
         Initialising, Spend
<1>4. BreakpointsOK'
  BY DEF InitActionSem, modeVars, IInv, BreakpointsOK
<1>5. FlagsOK'
  BY Zenon DEF InitActionSem, modeVars, histories, IInv, FlagsOK
<1>6. WaitersCounted'
  BY <1>1 DEF InitActionSem, syncVars, histories, IInv, WaitersCounted
<1>7. QED
  BY <1>1, <1>2, <1>3, <1>4, <1>5, <1>6 DEF IInv

LEMMA InitCliSemKeeps ==
  ASSUME IInv, InitCliSem
  PROVE  IInv'
<1>1. Waiting' = Waiting
  BY DEF InitCliSem, runVars, Waiting
<1>2. RunsOK'
  BY DEF InitCliSem, runVars, IInv, RunsOK
<1>3. DataOK' /\ CliCounted'
  BY DEF InitCliSem, OperatorAt, cliVars, modeVars, syncVars, IInv, DataOK, CliCounted, Ops,
         Initialising, Spend
<1>4. BreakpointsOK'
  BY DEF InitCliSem, modeVars, IInv, BreakpointsOK
<1>5. FlagsOK'
  BY Zenon DEF InitCliSem, modeVars, histories, IInv, FlagsOK
<1>6. WaitersCounted'
  BY <1>1 DEF InitCliSem, syncVars, histories, IInv, WaitersCounted
<1>7. QED
  BY <1>1, <1>2, <1>3, <1>4, <1>5, <1>6 DEF IInv

LEMMA ResetCliKeeps ==
  ASSUME IInv, ResetCli
  PROVE  IInv'
<1>1. Waiting' = Waiting
  BY DEF ResetCli, runVars, Waiting
<1>2. RunsOK'
  BY DEF ResetCli, runVars, IInv, RunsOK
<1>3. DataOK' /\ CliCounted'
  BY DEF ResetCli, ResetsCli, modeVars, IInv, DataOK, CliCounted, Ops, Initialising
<1>4. BreakpointsOK'
  BY DEF ResetCli, ResetsCli, modeVars, IInv, BreakpointsOK
<1>5. FlagsOK'
  <2>1. early' \in BOOLEAN
    BY DEF ResetCli, ResetsCli
  <2>2. QED
    BY <2>1, Zenon DEF ResetCli, ResetsCli, modeVars, IInv, FlagsOK
<1>6. WaitersCounted'
  BY <1>1 DEF ResetCli, ResetsCli, IInv, WaitersCounted
<1>7. QED
  BY <1>1, <1>2, <1>3, <1>4, <1>5, <1>6 DEF IInv

LEMMA MissResetKeeps ==
  ASSUME IInv, NEW r \in Runners, MissReset(r)
  PROVE  IInv'
<1>1. BreakpointsOK'
  BY DEF MissReset, ResetsCli, modeVars, IInv, BreakpointsOK
<1>2. early' \in BOOLEAN
  BY DEF MissReset, ResetsCli
<1>3. CASE Stop(r)
  <2>1. Cardinality(Waiting') = Cardinality(Waiting) + 1
    BY <1>3, OneMore DEF Stop, RunnerAt, IInv
  <2>2. RunsOK'
    BY <1>3 DEF Stop, RunnerAt, Go, IInv, RunsOK, Places
  <2>3. DataOK' /\ CliCounted'
    BY <1>3 DEF MissReset, ResetsCli, Stop, modeVars, IInv, DataOK, CliCounted, PostCli, CountIn,
                Ops, Initialising
  <2>4. FlagsOK'
    BY <1>2, <1>3, Zenon DEF MissReset, ResetsCli, Stop, CliSemMisused, modeVars, IInv, FlagsOK
  <2>5. WaitersCounted'
    BY <1>3, <2>1, FiniteWaiting
    DEF MissReset, ResetsCli, Stop, CountIn, IInv, WaitersCounted
  <2>6. QED
    BY <1>1, <2>2, <2>3, <2>4, <2>5 DEF IInv
<1>4. CASE End(r)
  <2>1. Waiting' = Waiting
    BY <1>4, AsMany DEF End, RunnerAt, IInv
  <2>2. RunsOK'
    BY <1>4 DEF End, RunnerAt, Go, IInv, RunsOK, Places
  <2>3. DataOK' /\ CliCounted'
    BY <1>4 DEF MissReset, ResetsCli, End, modeVars, IInv, DataOK, CliCounted, PostCli, Ops,
                Initialising
  <2>4. FlagsOK'
    BY <1>2, <1>4, Zenon DEF MissReset, ResetsCli, End, CliSemMisused, modeVars, IInv, FlagsOK
  <2>5. WaitersCounted'
    BY <1>4, <2>1 DEF MissReset, ResetsCli, End, IInv, WaitersCounted
  <2>6. QED
    BY <1>1, <2>2, <2>3, <2>4, <2>5 DEF IInv
<1>5. QED
  BY <1>3, <1>4 DEF MissReset

LEMMA ResetWaitingKeeps ==
  ASSUME IInv, ResetWaiting
  PROVE  IInv'
<1>1. Waiting' = Waiting
  BY DEF ResetWaiting, ResetsWaiting, runVars, Waiting
<1>2. RunsOK'
  BY DEF ResetWaiting, ResetsWaiting, runVars, IInv, RunsOK
<1>3. DataOK' /\ CliCounted'
  BY DEF ResetWaiting, ResetsWaiting, OperatorAt, cliVars, modeVars, syncVars, IInv, DataOK, CliCounted, Ops,
         Initialising, Spend
<1>4. BreakpointsOK'
  BY DEF ResetWaiting, ResetsWaiting, modeVars, IInv, BreakpointsOK
<1>5. FlagsOK'
  BY Zenon DEF ResetWaiting, ResetsWaiting, modeVars, histories, IInv, FlagsOK
<1>6. WaitersCounted'
  BY <1>1, FS_EmptySet DEF ResetWaiting, ResetsWaiting, WaitersCounted
<1>7. QED
  BY <1>1, <1>2, <1>3, <1>4, <1>5, <1>6 DEF IInv

(* A store that is lost leaves what the section of the action makes of the *)
(* counter, which was 0 unless an action of an earlier session had yet to  *)
(* count itself out.                                                       *)
LEMMA LoseResetKeeps ==
  ASSUME IInv, NEW r \in Runners, LoseReset(r)
  PROVE  IInv'
<1>1. CASE Stop(r)
  <2>1. Cardinality(Waiting') = Cardinality(Waiting) + 1
    BY <1>1, OneMore DEF Stop, RunnerAt, IInv
  <2>2. RunsOK'
    BY <1>1 DEF Stop, RunnerAt, Go, IInv, RunsOK, Places
  <2>3. DataOK' /\ CliCounted'
    BY <1>1 DEF LoseReset, ResetsWaiting, OperatorAt, Stop, modeVars, IInv, DataOK, CliCounted,
                PostCli, CountIn, Ops, Initialising
  <2>4. BreakpointsOK'
    BY DEF LoseReset, ResetsWaiting, modeVars, IInv, BreakpointsOK
  <2>5. FlagsOK'
    BY <1>1, Zenon DEF LoseReset, ResetsWaiting, Stop, CliSemMisused, modeVars, IInv, FlagsOK
  <2>6. WaitersCounted'
    BY <1>1, <2>1, FiniteWaiting
    DEF LoseReset, ResetsWaiting, Stop, CountIn, IInv, WaitersCounted
  <2>7. QED
    BY <2>2, <2>3, <2>4, <2>5, <2>6 DEF IInv
<1>2. CASE GoOn(r)
  <2>1. Cardinality(Waiting') = Cardinality(Waiting) - 1
    BY <1>2, OneLess DEF GoOn, RunnerAt, IInv
  <2>2. RunsOK'
    BY <1>2 DEF GoOn, RunnerAt, Go, IInv, RunsOK, Places
  <2>3. DataOK' /\ CliCounted'
    BY <1>2 DEF LoseReset, ResetsWaiting, OperatorAt, GoOn, modeVars, IInv, DataOK, CliCounted,
                Ops, Initialising
  <2>4. BreakpointsOK'
    BY DEF LoseReset, ResetsWaiting, modeVars, IInv, BreakpointsOK
  <2>5. FlagsOK'
    BY <1>2, Zenon DEF LoseReset, ResetsWaiting, GoOn, modeVars, IInv, FlagsOK
  <2>6. WaitersCounted'
    BY <1>2, <2>1, FiniteWaiting
    DEF LoseReset, ResetsWaiting, GoOn, IInv, WaitersCounted
  <2>7. QED
    BY <2>2, <2>3, <2>4, <2>5, <2>6 DEF IInv
<1>3. QED
  BY <1>1, <1>2 DEF LoseReset

LEMMA SetModeKeeps ==
  ASSUME IInv, SetMode
  PROVE  IInv'
<1>1. Waiting' = Waiting
  BY DEF SetMode, runVars, Waiting
<1>2. RunsOK'
  BY DEF SetMode, runVars, IInv, RunsOK
<1>3. DataOK' /\ CliCounted'
  BY DEF SetMode, OperatorAt, cliVars, modeVars, syncVars, IInv, DataOK, CliCounted, Ops,
         Initialising, Spend
<1>4. BreakpointsOK'
  BY DEF SetMode, modeVars, IInv, BreakpointsOK
<1>5. FlagsOK'
  BY Zenon DEF SetMode, modeVars, histories, IInv, FlagsOK
<1>6. WaitersCounted'
  BY <1>1 DEF SetMode, syncVars, histories, IInv, WaitersCounted
<1>7. QED
  BY <1>1, <1>2, <1>3, <1>4, <1>5, <1>6 DEF IInv

LEMMA ActionCommandKeeps ==
  ASSUME IInv, NEW t \in Threads, NEW a \in Actions \union {"unknown"},
         ActionCommand(t, a)
  PROVE  IInv'
<1>1. Waiting' = Waiting
  BY AsMany DEF ActionCommand, RunnerAt, Runners, IInv
<1>2. RunsOK'
  BY DEF ActionCommand, RunnerAt, Go, IInv, RunsOK, Places, Runners
<1>3. DataOK' /\ CliCounted'
  BY DEF ActionCommand, OperatorAt, cliVars, modeVars, syncVars, IInv, DataOK, CliCounted, Ops, Initialising, Spend
<1>4. BreakpointsOK'
  BY DEF ActionCommand, modeVars, IInv, BreakpointsOK
<1>5. FlagsOK'
  BY Zenon DEF ActionCommand, modeVars, histories, IInv, FlagsOK, Begin
<1>6. WaitersCounted'
  BY <1>1 DEF ActionCommand, syncVars, histories, IInv, WaitersCounted
<1>7. QED
  BY <1>1, <1>2, <1>3, <1>4, <1>5, <1>6 DEF IInv

LEMMA CliWaitingKeeps ==
  ASSUME IInv, CliWaiting
  PROVE  IInv'
<1>1. Waiting' = Waiting
  BY DEF CliWaiting, runVars, Waiting
<1>2. RunsOK'
  BY DEF CliWaiting, runVars, IInv, RunsOK
<1>3. DataOK' /\ CliCounted'
  BY DEF CliWaiting, OperatorAt, cliVars, modeVars, syncVars, IInv, DataOK, CliCounted, Ops, Initialising
<1>4. BreakpointsOK'
  BY DEF CliWaiting, modeVars, IInv, BreakpointsOK
<1>5. FlagsOK'
  BY Zenon DEF CliWaiting, modeVars, histories, IInv, FlagsOK
<1>6. WaitersCounted'
  BY <1>1 DEF CliWaiting, syncVars, histories, IInv, WaitersCounted
<1>7. QED
  BY <1>1, <1>2, <1>3, <1>4, <1>5, <1>6 DEF IInv

LEMMA CliAwakeKeeps ==
  ASSUME IInv, CliAwake
  PROVE  IInv'
<1>1. Waiting' = Waiting
  BY DEF CliAwake, runVars, Waiting
<1>2. RunsOK'
  BY DEF CliAwake, runVars, IInv, RunsOK
<1>3. DataOK' /\ CliCounted'
  BY DEF CliAwake, OperatorAt, cliVars, modeVars, syncVars, IInv, DataOK, CliCounted, Ops, Initialising
<1>4. BreakpointsOK'
  BY DEF CliAwake, modeVars, IInv, BreakpointsOK
<1>5. FlagsOK'
  BY Zenon DEF CliAwake, modeVars, histories, IInv, FlagsOK
<1>6. WaitersCounted'
  BY <1>1 DEF CliAwake, syncVars, histories, IInv, WaitersCounted
<1>7. QED
  BY <1>1, <1>2, <1>3, <1>4, <1>5, <1>6 DEF IInv

LEMMA ExitAwakeKeeps ==
  ASSUME IInv, ExitAwake
  PROVE  IInv'
<1>1. Waiting' = Waiting
  BY DEF ExitAwake, runVars, Waiting
<1>2. RunsOK'
  BY DEF ExitAwake, runVars, IInv, RunsOK
<1>3. DataOK' /\ CliCounted'
  BY DEF ExitAwake, OperatorAt, cliVars, modeVars, syncVars, IInv, DataOK, CliCounted, Ops, Initialising
<1>4. BreakpointsOK'
  BY DEF ExitAwake, modeVars, IInv, BreakpointsOK
<1>5. FlagsOK'
  BY Zenon DEF ExitAwake, modeVars, histories, IInv, FlagsOK
<1>6. WaitersCounted'
  BY <1>1 DEF ExitAwake, syncVars, histories, IInv, WaitersCounted
<1>7. QED
  BY <1>1, <1>2, <1>3, <1>4, <1>5, <1>6 DEF IInv

LEMMA WakeActionKeeps ==
  ASSUME IInv, NEW m \in {"STEP_DBG", "BREAK_DBG"}, WakeAction(m)
  PROVE  IInv'
<1>1. Waiting' = Waiting
  BY DEF WakeAction, runVars, Waiting
<1>2. RunsOK'
  BY DEF WakeAction, runVars, IInv, RunsOK
<1>3. DataOK' /\ CliCounted'
  BY DEF WakeAction, OperatorAt, cliVars, modeVars, syncVars, IInv, DataOK, CliCounted, Ops, Initialising, LetGo
<1>4. BreakpointsOK'
  BY DEF WakeAction, modeVars, IInv, BreakpointsOK
<1>5. FlagsOK'
  BY Zenon DEF WakeAction, modeVars, histories, IInv, FlagsOK, Begin
<1>6. WaitersCounted'
  BY <1>1 DEF WakeAction, syncVars, histories, IInv, WaitersCounted
<1>7. QED
  BY <1>1, <1>2, <1>3, <1>4, <1>5, <1>6 DEF IInv

LEMMA CliReturnsKeeps ==
  ASSUME IInv, CliReturns
  PROVE  IInv'
<1>1. Waiting' = Waiting
  BY DEF CliReturns, Waiting, IInv, RunsOK
<1>2. RunsOK'
  BY DEF CliReturns, IInv, RunsOK, Places
<1>3. DataOK' /\ CliCounted'
  BY DEF CliReturns, OperatorAt, cliVars, modeVars, syncVars, IInv, DataOK, CliCounted, Ops, Initialising
<1>4. BreakpointsOK'
  BY DEF CliReturns, modeVars, IInv, BreakpointsOK
<1>5. FlagsOK'
  BY Zenon DEF CliReturns, modeVars, histories, IInv, FlagsOK
<1>6. WaitersCounted'
  BY <1>1 DEF CliReturns, syncVars, histories, IInv, WaitersCounted
<1>7. QED
  BY <1>1, <1>2, <1>3, <1>4, <1>5, <1>6 DEF IInv

LEMMA BreakAtKeeps ==
  ASSUME IInv, NEW c \in Cmds, BreakAt(c)
  PROVE  IInv'
<1>1. Waiting' = Waiting
  BY DEF BreakAt, runVars, Waiting
<1>2. RunsOK'
  BY DEF BreakAt, runVars, IInv, RunsOK
<1>3. DataOK' /\ CliCounted'
  BY DEF BreakAt, OperatorAt, cliVars, modeVars, syncVars, IInv, DataOK, CliCounted, Ops, Initialising
<1>4. BreakpointsOK'
  <2>1. CASE Cardinality(breakpoints) < breakMax
    <3>1. breakpoints' = breakpoints \union {c}
      BY <2>1 DEF BreakAt, Add
    <3>2. /\ IsFiniteSet(breakpoints') /\ Cardinality(breakpoints) \in Nat
          /\ Cardinality(breakpoints') \in Nat
          /\ Cardinality(breakpoints') <= Cardinality(breakpoints) + 1
      BY <3>1, AddBounds DEF IInv, BreakpointsOK
    <3>3. QED
      BY <2>1, <3>1, <3>2, BoundsAssumption DEF IInv, BreakpointsOK
  <2>2. CASE ~ (Cardinality(breakpoints) < breakMax)
    BY <2>2 DEF BreakAt, Add, IInv, BreakpointsOK
  <2>3. QED
    BY <2>1, <2>2
<1>5. FlagsOK'
  BY Zenon DEF BreakAt, modeVars, histories, IInv, FlagsOK
<1>6. WaitersCounted'
  BY <1>1 DEF BreakAt, syncVars, histories, IInv, WaitersCounted
<1>7. QED
  BY <1>1, <1>2, <1>3, <1>4, <1>5, <1>6 DEF IInv

LEMMA UnbreakAtKeeps ==
  ASSUME IInv, NEW c \in Cmds, UnbreakAt(c)
  PROVE  IInv'
<1>1. Waiting' = Waiting
  BY DEF UnbreakAt, runVars, Waiting
<1>2. RunsOK'
  BY DEF UnbreakAt, runVars, IInv, RunsOK
<1>3. DataOK' /\ CliCounted'
  BY DEF UnbreakAt, OperatorAt, cliVars, modeVars, syncVars, IInv, DataOK, CliCounted, Ops, Initialising
<1>4. BreakpointsOK'
  <2>1. breakpoints' = breakpoints \ {c}
    BY DEF UnbreakAt
  <2>2. /\ IsFiniteSet(breakpoints') /\ Cardinality(breakpoints) \in Nat
        /\ Cardinality(breakpoints') \in Nat
        /\ Cardinality(breakpoints') <= Cardinality(breakpoints)
    BY <2>1, RemoveBounds DEF IInv, BreakpointsOK
  <2>3. QED
    BY <2>1, <2>2, BoundsAssumption DEF IInv, BreakpointsOK
<1>5. FlagsOK'
  BY Zenon DEF UnbreakAt, modeVars, histories, IInv, FlagsOK
<1>6. WaitersCounted'
  BY <1>1 DEF UnbreakAt, syncVars, histories, IInv, WaitersCounted
<1>7. QED
  BY <1>1, <1>2, <1>3, <1>4, <1>5, <1>6 DEF IInv

LEMMA ExitDebugKeeps ==
  ASSUME IInv, ExitDebug
  PROVE  IInv'
<1>1. Waiting' = Waiting
  BY DEF ExitDebug, runVars, Waiting
<1>2. RunsOK'
  BY DEF ExitDebug, runVars, IInv, RunsOK
<1>3. DataOK' /\ CliCounted'
  BY DEF ExitDebug, OperatorAt, cliVars, modeVars, syncVars, IInv, DataOK, CliCounted, Ops, Initialising
<1>4. BreakpointsOK'
  BY DEF ExitDebug, modeVars, IInv, BreakpointsOK
<1>5. FlagsOK'
  BY Zenon DEF ExitDebug, modeVars, histories, IInv, FlagsOK, Begin
<1>6. WaitersCounted'
  BY <1>1 DEF ExitDebug, syncVars, histories, IInv, WaitersCounted
<1>7. QED
  BY <1>1, <1>2, <1>3, <1>4, <1>5, <1>6 DEF IInv

LEMMA DestroySemsKeeps ==
  ASSUME IInv, DestroySems
  PROVE  IInv'
<1>1. Waiting' = Waiting
  BY DEF DestroySems, runVars, Waiting
<1>2. RunsOK'
  BY DEF DestroySems, runVars, IInv, RunsOK
<1>3. DataOK' /\ CliCounted'
  BY DEF DestroySems, OperatorAt, cliVars, modeVars, syncVars, IInv, DataOK, CliCounted, Ops, Initialising
<1>4. BreakpointsOK'
  BY DEF DestroySems, modeVars, IInv, BreakpointsOK
<1>5. FlagsOK'
  BY Zenon DEF DestroySems, modeVars, histories, IInv, FlagsOK
<1>6. WaitersCounted'
  BY <1>1 DEF DestroySems, syncVars, histories, IInv, WaitersCounted
<1>7. QED
  BY <1>1, <1>2, <1>3, <1>4, <1>5, <1>6 DEF IInv

LEMMA LoadActionKeeps ==
  ASSUME IInv, LoadAction
  PROVE  IInv'
<1>1. Waiting' = Waiting
  BY DEF LoadAction, runVars, Waiting
<1>2. RunsOK'
  BY DEF LoadAction, runVars, IInv, RunsOK
<1>3. DataOK' /\ CliCounted'
  BY DEF LoadAction, OperatorAt, cliVars, modeVars, syncVars, IInv, DataOK, CliCounted, Ops, Initialising
<1>4. BreakpointsOK'
  BY DEF LoadAction, modeVars, IInv, BreakpointsOK
<1>5. FlagsOK'
  BY Zenon DEF LoadAction, modeVars, histories, IInv, FlagsOK
<1>6. WaitersCounted'
  BY <1>1 DEF LoadAction, syncVars, histories, IInv, WaitersCounted
<1>7. QED
  BY <1>1, <1>2, <1>3, <1>4, <1>5, <1>6 DEF IInv

-----------------------------------------------------------------------------
LEMMA StepPreserves == IInv /\ [Next]_vars => IInv'
<1>1. ASSUME IInv, NEW r \in Runners, RunnerStep(r) PROVE IInv'
  BY <1>1, FillBuffKeeps, IsBreakpointKeeps, IsStepKeeps, EnterWaitKeeps, PauseKeeps,
     AwakeKeeps, LeaveWaitKeeps, RunHandlerKeeps, EndActionKeeps, ThreadRunsKeeps DEF RunnerStep
<1>2. ASSUME IInv, OperatorWait PROVE IInv'
  BY <1>2, CliWaitingKeeps, CliAwakeKeeps, CliReturnsKeeps, ExitAwakeKeeps, DestroySemsKeeps
     DEF OperatorWait
<1>3. ASSUME IInv, InitDebug PROVE IInv'
  BY <1>3, InitActionSemKeeps, InitCliSemKeeps, ResetCliKeeps, ResetWaitingKeeps, SetModeKeeps,
     MissResetKeeps,
     LoseResetKeeps DEF InitDebug
<1>4. ASSUME IInv, UNCHANGED vars PROVE IInv'
  <2>1. Waiting' = Waiting
    BY <1>4 DEF vars, runVars, Waiting
  <2>2. DataOK' /\ CliCounted' /\ WaitersCounted'
    BY <1>4, <2>1 DEF vars, cliVars, modeVars, syncVars, histories, IInv, DataOK, CliCounted,
                      WaitersCounted
  <2>3. BreakpointsOK' /\ RunsOK'
    BY <1>4 DEF vars, modeVars, runVars, IInv, BreakpointsOK, RunsOK
  <2>4. FlagsOK'
    BY <1>4, Zenon DEF vars, modeVars, histories, IInv, FlagsOK
  <2>5. QED
    BY <2>2, <2>3, <2>4 DEF IInv
<1>5. QED
  BY <1>1, <1>2, <1>3, <1>4, ProcessorRunsKeeps, OperatorRunsKeeps, EnterDebugKeeps,
     ActionCommandKeeps, WakeActionKeeps, BreakAtKeeps, UnbreakAtKeeps, ExitDebugKeeps,
     LoadActionKeeps DEF Next

THEOREM Invariance == Spec => []IInv
<1>1. QED
  BY InitHolds, StepPreserves, PTL DEF Spec

(* Every variable of the debug mode keeps its type.                        *)
THEOREM TypeCorrect == Spec => []TypeOK
<1>1. IInv => TypeOK
  BY Zenon DEF IInv, DataOK, BreakpointsOK, FlagsOK, RunsOK, TypeOK, Ops
<1>2. QED
  BY <1>1, Invariance, PTL

(* In a session that no action of an earlier one reaches into, next, run   *)
(* and exit find in waitingActionNumber the number of actions to let go.   *)
THEOREM CounterRight == Spec => []WaitersCounted
<1>1. IInv => WaitersCounted
  BY DEF IInv
<1>2. QED
  BY <1>1, Invariance, PTL


-----------------------------------------------------------------------------
(* The prompt.  As long as no more went on at a time than the action the   *)
(* operator waits for, what goes on is a single thing that is handed on:   *)
(* a post of actionSem becomes a running action, and that becomes a post   *)
(* of cliSem, which wakes the operator.                                    *)
Active == {r \in Runners : pc[r] \notin Stopped}

OneAtATime ==
  /\ \A p, q \in Active : p = q
  /\ Active # {} => actionSem = 0 /\ cliSem = 0 /\ op # "woken"
  /\ op = "woken" => actionSem = 0 /\ cliSem = 0
  /\ actionSem + cliSem <= 1

(* Outside of the operator's waits no thread is about to go on.            *)
AllStopped ==
  op \in Initialising \union {"top", "prompt", "destroying"} =>
    actionSem = 0 /\ \A t \in Threads : pc[t] \in Stopped

(* From the reset of waitCliNumber on nobody posts cliSem until the        *)
(* operator waits.                                                         *)
Untold == op \in {"resetWaiting", "setMode", "prompt"} /\ ~early => cliSem = 0

Alone == ~crowded => OneAtATime /\ AllStopped /\ Untold

LEMMA InitAlone == Init => Alone
<1>. SUFFICES ASSUME Init PROVE OneAtATime /\ AllStopped /\ Untold
  BY DEF Alone
<1>1. Active = {}
  BY DEF Init, Active, Stopped
<1>2. QED
  BY <1>1 DEF Init, OneAtATime, AllStopped, Untold, Runners, Stopped

(* What begins while nothing else goes on, or is counted as crowded.       *)
LEMMA BeginsAlone ==
  ASSUME IInv, NEW n \in Int, n > 0, Begin(n), ~crowded'
  PROVE  ~crowded /\ n = 1 /\ Active = {} /\ actionSem = 0 /\ cliSem = 0 /\ op # "woken"
<1>1. ~crowded /\ ~(Activity + n > 1)
  BY Zenon DEF Begin
<1>2. IsFiniteSet(Active)
  <2>1. IsFiniteSet({"processor"} \union {"operator"})
    BY FS_Singleton, FS_AddElement
  <2>2. Runners = Threads \union ({"processor"} \union {"operator"})
    BY DEF Runners
  <2>3. Active \in SUBSET Runners
    BY DEF Active
  <2>4. QED
    BY <2>1, <2>2, <2>3, ThreadsAssumption, FS_Union, FS_Subset
<1>3. Running = Cardinality(Active) /\ Running \in Nat
  BY <1>2, FS_CardinalityType DEF Running, Active
<1>4. Running = 0 /\ n = 1 /\ actionSem = 0 /\ cliSem = 0 /\ op # "woken"
  BY <1>1, <1>3 DEF Activity, IInv, DataOK
<1>5. QED
  BY <1>1, <1>2, <1>3, <1>4, FS_EmptySet

(* The operator's thread is elsewhere, or resets waitingActionNumber.      *)
Elsewhere == op' = op \/ (op = "resetWaiting" /\ op' = "setMode")

(* A runner that goes on, or calls sem_wait, changes nothing.              *)
LEMMA MovesAlone ==
  ASSUME IInv, Alone, NEW r \in Runners, NEW place, Go(r, place), Elsewhere,
         pc[r] \in Stopped <=> place \in Stopped,
         UNCHANGED <<actionSem, cliSem, crowded, early>>
  PROVE  Alone'
<1>1. Active' = Active /\ (op = "woken" <=> op' = "woken")
  BY DEF Active, Go, IInv, RunsOK, Elsewhere
<1>2. ASSUME ~crowded PROVE OneAtATime' /\ AllStopped' /\ Untold'
  <2>1. OneAtATime /\ AllStopped /\ Untold
    BY <1>2 DEF Alone
  <2>2. OneAtATime' /\ Untold'
    BY <1>1, <2>1 DEF OneAtATime, Untold, Elsewhere
  <2>3. AllStopped'
    BY <2>1 DEF AllStopped, Go, IInv, RunsOK, Runners, Elsewhere, Initialising
  <2>4. QED
    BY <2>2, <2>3
<1>3. QED
  BY <1>2 DEF Alone

(* A runner that stops or ends hands over to the operator, if he waits.    *)
LEMMA HandsOver ==
  ASSUME IInv, Alone, NEW r \in Runners, NEW place, Go(r, place),
         pc[r] \notin Stopped, place \in Stopped, PostCli,
         \/ Elsewhere /\ UNCHANGED early
         \/ op = "resetCli" /\ op' = "resetWaiting" /\ (~early' => cliSem' = 0),
         UNCHANGED <<actionSem, crowded>>
  PROVE  Alone'
<1>1. ASSUME ~crowded PROVE OneAtATime' /\ AllStopped' /\ Untold'
  <2>1. OneAtATime /\ AllStopped /\ Untold
    BY <1>1 DEF Alone
  <2>2. r \in Active /\ Active = {r}
    BY <2>1 DEF Active, OneAtATime
  <2>3. Active' = {}
    BY <2>2 DEF Active, Go, IInv, RunsOK
  <2>4. actionSem = 0 /\ cliSem = 0 /\ op # "woken" /\ op' # "woken"
    BY <2>1, <2>2 DEF OneAtATime, Elsewhere
  <2>5. OneAtATime'
    <3>1. actionSem' = 0 /\ op' # "woken" /\ (cliSem' = 0 \/ cliSem' = 1)
      BY <2>4 DEF PostCli
    <3>2. actionSem' + cliSem' <= 1
      BY <3>1
    <3>3. QED
      BY <2>3, <3>1, <3>2 DEF OneAtATime
  <2>6. AllStopped'
    BY <2>1, <2>4 DEF AllStopped, Go, IInv, RunsOK, Runners, Elsewhere, Initialising
  <2>7. Untold'
    BY <2>4 DEF Untold, PostCli, IInv, CliCounted, Elsewhere
  <2>8. QED
    BY <2>5, <2>6, <2>7
<1>2. QED
  BY <1>1 DEF Alone

LEMMA AwakeAlone ==
  ASSUME IInv, Alone, NEW r \in Runners, Awake(r)
  PROVE  Alone'
<1>1. ASSUME ~crowded PROVE OneAtATime' /\ AllStopped' /\ Untold'
  <2>1. OneAtATime /\ AllStopped /\ Untold
    BY <1>1 DEF Alone
  <2>2. actionSem = 1 /\ cliSem = 0 /\ op # "woken" /\ Active = {}
    BY <2>1 DEF OneAtATime, Awake, IInv, DataOK
  <2>3. actionSem' = 0 /\ UNCHANGED <<op, cliSem, early>>
    BY <2>2 DEF Awake, cliVars, histories
  <2>4. Active' = {r}
    BY <2>2 DEF Active, Awake, Go, IInv, RunsOK, Stopped
  <2>5. OneAtATime'
    BY <2>2, <2>3, <2>4 DEF OneAtATime
  <2>6. op \notin Initialising \union {"top", "prompt", "destroying"}
    BY <2>1, <2>2 DEF AllStopped
  <2>7. QED
    BY <2>3, <2>5, <2>6 DEF AllStopped, Untold, Initialising
<1>2. QED
  BY <1>1 DEF Alone, Awake, histories

LEMMA RunnerAlone ==
  ASSUME IInv, Alone, NEW r \in Runners, RunnerStep(r)
  PROVE  Alone'
<1>1. CASE FillBuff(r)
  <2>1. PICK place \in {"list", "step"} : Go(r, place)
    BY <1>1 DEF FillBuff
  <2>2. QED
    BY <1>1, <2>1, MovesAlone DEF FillBuff, RunnerAt, Stopped, Elsewhere, cliVars, syncVars, histories
<1>2. CASE IsBreakpoint(r)
  <2>1. PICK place \in {"stop", "step"} : Go(r, place)
    BY <1>2 DEF IsBreakpoint
  <2>2. QED
    BY <1>2, <2>1, MovesAlone DEF IsBreakpoint, RunnerAt, Stopped, Elsewhere, cliVars, syncVars, histories
<1>3. CASE IsStep(r)
  <2>1. PICK place \in {"stop", "run"} : Go(r, place)
    BY <1>3 DEF IsStep
  <2>2. QED
    BY <1>3, <2>1, MovesAlone DEF IsStep, RunnerAt, Stopped, Elsewhere, cliVars, syncVars, histories
<1>4. CASE EnterWait(r)
  BY <1>4, HandsOver DEF EnterWait, Stop, RunnerAt, Stopped, Elsewhere, cliVars, histories
<1>5. CASE Awake(r)
  BY <1>5, AwakeAlone
<1>6. CASE LeaveWait(r)
  BY <1>6, MovesAlone DEF LeaveWait, GoOn, RunnerAt, Stopped, Elsewhere, cliVars, histories
<1>7. CASE RunHandler(r)
  <2>1. PICK place \in {"loop", "end"} : Go(r, place)
    BY <1>7 DEF RunHandler
  <2>2. QED
    BY <1>7, <2>1, MovesAlone DEF RunHandler, RunnerAt, Stopped, Elsewhere, cliVars, syncVars, histories
<1>8. CASE EndAction(r)
  BY <1>8, HandsOver DEF EndAction, End, RunnerAt, Stopped, Elsewhere, cliVars, histories
<1>9. CASE r \in Threads /\ ThreadRuns(r)
  <2>1. PICK place \in {"loop", "nothing"} : Go(r, place)
    BY <1>9 DEF ThreadRuns, RunAction
  <2>2. QED
    BY <1>9, <2>1, MovesAlone DEF ThreadRuns, RunnerAt, Stopped, Elsewhere, cliVars, syncVars, histories
<1>10. CASE Pause(r)
  BY <1>10, MovesAlone DEF Pause, RunnerAt, Stopped, Elsewhere, cliVars, syncVars, histories
<1>11. QED
  BY <1>1, <1>2, <1>3, <1>4, <1>5, <1>6, <1>7, <1>8, <1>9, <1>10 DEF RunnerStep

(* What begins on the operator's side.                                     *)
LEMMA BeginningAlone ==
  ASSUME IInv, Alone
  PROVE  /\ \A a \in Actions : ProcessorRuns(a) \/ OperatorRuns(a) => Alone'
         /\ \A t \in Threads, a \in Actions \union {"unknown"} : ActionCommand(t, a) => Alone'
         /\ \A m \in {"STEP_DBG", "BREAK_DBG"} : WakeAction(m) => Alone'
         /\ ExitDebug => Alone'
<1>1. ASSUME NEW a \in Actions, ProcessorRuns(a) PROVE Alone'
  <2>1. ASSUME ~crowded' PROVE OneAtATime' /\ AllStopped' /\ Untold'
    <3>1. ~crowded /\ Active = {} /\ actionSem = 0 /\ cliSem = 0 /\ op # "woken"
      BY <1>1, <2>1, BeginsAlone DEF ProcessorRuns
    <3>2. /\ "processor" \in Runners \ Threads
          /\ pc' = [pc EXCEPT !["processor"] = "loop"]
          /\ UNCHANGED <<op, actionSem, cliSem, early>>
      BY <1>1, ThreadsAssumption DEF ProcessorRuns, RunAction, Go, cliVars, syncVars, Runners
    <3>3. Active' = {"processor"}
      BY <3>1, <3>2 DEF Active, IInv, RunsOK, Stopped
    <3>4. OneAtATime' /\ Untold'
      BY <3>1, <3>2, <3>3 DEF OneAtATime, Untold
    <3>5. AllStopped'
      BY <3>1, <3>2 DEF AllStopped, Alone, IInv, RunsOK, Runners
    <3>6. QED
      BY <3>4, <3>5
  <2>2. QED
    BY <2>1 DEF Alone
<1>2. ASSUME NEW a \in Actions, OperatorRuns(a) PROVE Alone'
  <2>1. ASSUME ~crowded' PROVE OneAtATime' /\ AllStopped' /\ Untold'
    <3>1. ~crowded /\ Active = {} /\ actionSem = 0 /\ cliSem = 0 /\ op # "woken"
      BY <1>2, <2>1, BeginsAlone DEF OperatorRuns
    <3>2. /\ "operator" \in Runners \ Threads
          /\ pc' = [pc EXCEPT !["operator"] = "loop"]
          /\ UNCHANGED <<op, actionSem, cliSem, early>>
      BY <1>2, ThreadsAssumption DEF OperatorRuns, RunAction, Go, cliVars, syncVars, Runners
    <3>3. Active' = {"operator"}
      BY <3>1, <3>2 DEF Active, IInv, RunsOK, Stopped
    <3>4. OneAtATime' /\ Untold'
      BY <3>1, <3>2, <3>3 DEF OneAtATime, Untold
    <3>5. AllStopped'
      BY <3>1, <3>2 DEF AllStopped, Alone, IInv, RunsOK, Runners
    <3>6. QED
      BY <3>4, <3>5
  <2>2. QED
    BY <2>1 DEF Alone
<1>3. ASSUME NEW t \in Threads, NEW a \in Actions \union {"unknown"}, ActionCommand(t, a)
      PROVE  Alone'
  <2>1. ASSUME ~crowded' PROVE OneAtATime' /\ AllStopped' /\ Untold'
    <3>1. ~crowded /\ Active = {} /\ actionSem = 0 /\ cliSem = 0
      BY <1>3, <2>1, BeginsAlone DEF ActionCommand
    <3>2. /\ t \in Runners /\ op' = "announce"
          /\ pc' = [pc EXCEPT ![t] = "starting"]
          /\ UNCHANGED <<actionSem, cliSem>>
      BY <1>3 DEF ActionCommand, Go, syncVars, Runners
    <3>3. Active' = {t}
      BY <3>1, <3>2 DEF Active, IInv, RunsOK, Stopped
    <3>4. QED
      BY <3>1, <3>2, <3>3 DEF OneAtATime, Untold, AllStopped, Initialising
  <2>2. QED
    BY <2>1 DEF Alone
<1>4. ASSUME NEW m \in {"STEP_DBG", "BREAK_DBG"}, WakeAction(m) PROVE Alone'
  <2>1. Active' = Active /\ UNCHANGED <<cliSem, pc, early>>
    BY <1>4 DEF WakeAction, runVars, Active
  <2>2. ASSUME ~crowded' PROVE OneAtATime' /\ AllStopped' /\ Untold'
    <3>1. CASE waitingActionNumber > 0
      <4>1. actionSem' = actionSem + 1 /\ op' = "waiting" /\ Begin(1)
        BY <1>4, <3>1 DEF WakeAction, LetGo
      <4>2. Active = {} /\ actionSem = 0 /\ cliSem = 0
        BY <2>2, <4>1, BeginsAlone
      <4>3. QED
        BY <2>1, <4>1, <4>2 DEF OneAtATime, AllStopped, Untold, Initialising
    <3>2. CASE ~(waitingActionNumber > 0)
      <4>1. UNCHANGED <<op, actionSem, crowded>>
        BY <1>4, <3>2 DEF WakeAction
      <4>2. QED
        BY <2>1, <2>2, <4>1 DEF Alone, OneAtATime, AllStopped, Untold, Initialising
    <3>3. QED
      BY <3>1, <3>2
  <2>3. QED
    BY <2>2 DEF Alone
<1>5. ASSUME ExitDebug PROVE Alone'
  <2>1. Active' = Active /\ UNCHANGED <<cliSem, pc, early>> /\ op = "prompt"
    BY <1>5 DEF ExitDebug, runVars, Active, OperatorAt
  <2>2. ASSUME ~crowded' PROVE OneAtATime' /\ AllStopped' /\ Untold'
    <3>1. CASE waitingActionNumber > 0
      <4>1. /\ actionSem' = actionSem + waitingActionNumber /\ op' = "exiting"
            /\ Begin(waitingActionNumber) /\ waitingActionNumber \in Int
        BY <1>5, <3>1 DEF ExitDebug, IInv, DataOK
      <4>2. Active = {} /\ actionSem = 0 /\ cliSem = 0 /\ waitingActionNumber = 1
        BY <2>2, <3>1, <4>1, BeginsAlone
      <4>3. QED
        BY <2>1, <4>1, <4>2 DEF OneAtATime, AllStopped, Untold, Initialising
    <3>2. CASE ~(waitingActionNumber > 0)
      <4>1. UNCHANGED <<actionSem, crowded>> /\ op' = "destroying"
        BY <1>5, <3>2 DEF ExitDebug
      <4>2. OneAtATime /\ AllStopped /\ Untold
        BY <2>2, <4>1 DEF Alone
      <4>3. QED
        BY <2>1, <4>1, <4>2 DEF OneAtATime, AllStopped, Untold, Initialising
    <3>3. QED
      BY <3>1, <3>2
  <2>3. QED
    BY <2>2 DEF Alone
<1>6. QED
  BY <1>1, <1>2, <1>3, <1>4, <1>5

(* The operator's other steps.                                             *)
LEMMA OperatorAlone ==
  ASSUME IInv, Alone,
         \/ OperatorWait \/ EnterDebug \/ LoadAction
         \/ InitActionSem \/ InitCliSem \/ ResetCli \/ ResetWaiting \/ SetMode
         \/ \E c \in Cmds : BreakAt(c) \/ UnbreakAt(c)
  PROVE  Alone'
<1>1. crowded' = crowded
  BY DEF OperatorWait, CliWaiting, CliAwake, CliReturns, ExitAwake, DestroySems, EnterDebug,
         InitActionSem, InitCliSem, ResetCli, ResetsCli, ResetWaiting, ResetsWaiting, SetMode,
         LoadAction, BreakAt, UnbreakAt, histories
<1>. SUFFICES ASSUME ~crowded PROVE OneAtATime' /\ AllStopped' /\ Untold'
  BY <1>1 DEF Alone
<1>2. OneAtATime /\ AllStopped /\ Untold
  BY DEF Alone
<1>3. CASE CliWaiting
  <2>1. UNCHANGED <<pc, actionSem, cliSem>> /\ op' = "waiting"
    BY <1>3 DEF CliWaiting, runVars
  <2>2. QED
    BY <1>2, <2>1 DEF OneAtATime, AllStopped, Untold, Active, Initialising
<1>4. CASE CliAwake \/ ExitAwake
  <2>1. UNCHANGED <<pc, actionSem>> /\ cliSem > 0 /\ cliSem' = cliSem - 1
    BY <1>4 DEF CliAwake, ExitAwake, runVars
  <2>2. op' \in {"woken", "destroying"}
    BY <1>4 DEF CliAwake, ExitAwake
  <2>3. actionSem = 0 /\ cliSem = 1 /\ Active = {}
    BY <1>2, <2>1 DEF OneAtATime, IInv, DataOK
  <2>4. Active' = {}
    BY <2>1, <2>3 DEF Active, Stopped
  <2>5. OneAtATime'
    BY <2>1, <2>3, <2>4 DEF OneAtATime
  <2>6. AllStopped' /\ Untold'
    BY <2>1, <2>2, <2>3 DEF AllStopped, Untold, Active, Runners, Initialising
  <2>7. QED
    BY <2>5, <2>6
<1>5. CASE CliReturns
  <2>1. /\ UNCHANGED <<actionSem, cliSem>> /\ op = "woken" /\ op' = "prompt"
        /\ pc' = [r \in Runners |-> IF pc[r] = "nothing" THEN "idle" ELSE pc[r]]
    BY <1>5 DEF CliReturns, OperatorAt
  <2>2. actionSem = 0 /\ cliSem = 0 /\ Active = {}
    BY <1>2, <2>1 DEF OneAtATime
  <2>3. Active' = {}
    BY <2>1, <2>2 DEF Active, Stopped
  <2>4. OneAtATime' /\ Untold'
    BY <2>1, <2>2, <2>3 DEF OneAtATime, Untold
  <2>5. AllStopped'
    BY <2>1, <2>2 DEF AllStopped, Active, Runners, Stopped
  <2>6. QED
    BY <2>4, <2>5
<1>6. CASE DestroySems
  <2>1. UNCHANGED <<pc, actionSem, cliSem>> /\ op = "destroying" /\ op' = "top"
    BY <1>6 DEF DestroySems, runVars, syncVars, OperatorAt
  <2>2. QED
    BY <1>2, <2>1 DEF OneAtATime, AllStopped, Untold, Active, Initialising
<1>7. CASE EnterDebug \/ SetMode
  <2>1. /\ UNCHANGED <<pc, actionSem, cliSem, early>>
        /\ \/ op = "top" /\ op' = "initActionSem"
           \/ op = "setMode" /\ op' = "prompt"
    BY <1>7 DEF EnterDebug, SetMode, syncVars, runVars, histories, OperatorAt
  <2>2. QED
    BY <1>2, <2>1 DEF OneAtATime, AllStopped, Untold, Active, Initialising
<1>10. CASE InitActionSem
  <2>1. /\ UNCHANGED <<pc, cliSem>> /\ actionSem' = 0
        /\ op = "initActionSem" /\ op' = "initCliSem"
    BY <1>10 DEF InitActionSem, runVars, OperatorAt
  <2>2. QED
    BY <1>2, <2>1 DEF OneAtATime, AllStopped, Untold, Active, Initialising
<1>11. CASE InitCliSem
  <2>1. /\ UNCHANGED <<pc, actionSem>> /\ cliSem' = 0
        /\ op = "initCliSem" /\ op' = "resetCli"
    BY <1>11 DEF InitCliSem, runVars, OperatorAt
  <2>2. QED
    BY <1>2, <2>1 DEF OneAtATime, AllStopped, Untold, Active, Initialising, IInv, DataOK
<1>12. CASE ResetCli
  <2>1. /\ UNCHANGED <<pc, actionSem, cliSem>>
        /\ op = "resetCli" /\ op' = "resetWaiting"
    BY <1>12 DEF ResetCli, ResetsCli, runVars, OperatorAt
  <2>2. OneAtATime' /\ AllStopped'
    BY <1>2, <2>1 DEF OneAtATime, AllStopped, Active, Initialising
  <2>3. ASSUME ~early' PROVE cliSem' = 0
    <3>1. ~(cliSem' > 0)
      BY <1>12, <2>3, Zenon DEF ResetCli, ResetsCli
    <3>2. QED
      BY <2>1, <3>1 DEF IInv, DataOK
  <2>4. QED
    BY <2>2, <2>3 DEF Untold
<1>13. CASE ResetWaiting
  <2>1. /\ UNCHANGED <<pc, actionSem, cliSem, early>>
        /\ op = "resetWaiting" /\ op' = "setMode"
    BY <1>13 DEF ResetWaiting, ResetsWaiting, runVars, OperatorAt
  <2>2. QED
    BY <1>2, <2>1 DEF OneAtATime, AllStopped, Untold, Active, Initialising
<1>8. CASE LoadAction \/ \E c \in Cmds : BreakAt(c) \/ UnbreakAt(c)
  <2>1. UNCHANGED <<pc, actionSem, cliSem, op, early>>
    BY <1>8 DEF LoadAction, BreakAt, UnbreakAt, runVars, syncVars, cliVars, histories
  <2>2. QED
    BY <1>2, <2>1 DEF OneAtATime, AllStopped, Untold, Active, Initialising
<1>9. QED
  BY <1>3, <1>4, <1>5, <1>6, <1>7, <1>8, <1>10, <1>11, <1>12, <1>13 DEF OperatorWait

(* The stores that come inside of a section.                               *)
LEMMA MissResetAlone ==
  ASSUME IInv, Alone, NEW r \in Runners, MissReset(r)
  PROVE  Alone'
<1>1. op = "resetCli" /\ op' = "resetWaiting" /\ UNCHANGED <<actionSem, crowded>>
  BY DEF MissReset, ResetsCli, OperatorAt
<1>2. PostCli /\ \E place \in Stopped : pc[r] \notin Stopped /\ Go(r, place)
  BY DEF MissReset, Stop, End, RunnerAt, Stopped
<1>3. ASSUME ~early' PROVE cliSem' = 0
  <2>1. ~(cliSem' > 0)
    BY <1>3, Zenon DEF MissReset, ResetsCli
  <2>2. cliSem' \in Nat
    BY <1>2 DEF PostCli, IInv, DataOK
  <2>3. QED
    BY <2>1, <2>2
<1>4. QED
  BY <1>1, <1>2, <1>3, HandsOver

LEMMA LoseResetAlone ==
  ASSUME IInv, Alone, NEW r \in Runners, LoseReset(r)
  PROVE  Alone'
<1>1. Elsewhere /\ UNCHANGED <<actionSem, crowded, early>>
  BY DEF LoseReset, ResetsWaiting, OperatorAt, Elsewhere
<1>2. CASE Stop(r)
  BY <1>1, <1>2, HandsOver DEF Stop, RunnerAt, Stopped
<1>3. CASE GoOn(r)
  BY <1>1, <1>3, MovesAlone DEF GoOn, RunnerAt, Stopped
<1>4. QED
  BY <1>2, <1>3 DEF LoseReset

LEMMA StepAlone == IInv /\ Alone /\ [Next]_vars => Alone'
<1>. SUFFICES ASSUME IInv, Alone, [Next]_vars PROVE Alone'
  OBVIOUS
<1>1. CASE UNCHANGED vars
  BY <1>1 DEF vars, cliVars, syncVars, runVars, histories, Alone, OneAtATime, AllStopped,
              Untold, Active
<1>2. CASE Next
  BY <1>2, RunnerAlone, BeginningAlone, OperatorAlone, MissResetAlone, LoseResetAlone DEF Next, InitDebug
<1>3. QED
  BY <1>1, <1>2

(* When the operator has his prompt, no other action has got in the way of *)
(* the one he waited for, and none has posted cliSem while debug mode was  *)
(* entered, every action command is over or has stopped,                   *)
(* and no post of either semaphore is left over: next and run let exactly  *)
(* one action go, and the wait that follows is ended by that action.       *)
THEOREM PromptSettled == Spec => []PromptMeansStopped
<1>1. Spec => []Alone
  BY InitAlone, StepAlone, Invariance, PTL DEF Spec
<1>2. IInv /\ Alone => PromptMeansStopped
  BY DEF IInv, CliCounted, Alone, AllStopped, Untold, PromptMeansStopped
<1>3. QED
  BY <1>1, <1>2, Invariance, PTL
=============================================================================
