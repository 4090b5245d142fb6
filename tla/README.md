# A TLA+ model of VoiceTester

VoiceTester replaces a VoIP phone's application: `vt_shell` connects to a VoIP server that
drives telephones, receives their events (hook, digits), runs a call state machine over them,
and places calls to other instances of itself over TCP. This directory specifies its core,
checks it with TLC on small instances and proves parts of it with TLAPS for every instance.
Paths below are relative to `src/voiptester/src/`.

## 1. Inventory

Three threads run after the first connect, a fourth in debug mode:

| thread | loop | file |
|---|---|---|
| operator | readline, command tree, handlers | `cli/cli_main.c`, `cli/cli_cmdHandler.c` |
| listener | `vt_listenEvent`: select over server, listening and session sockets, put events | `vt/vt_event.c` |
| processor | `vt_processEvent`: earliest timer, get event, run timers, run the state machine | `vt/vt_fsm.c` |
| action thread | `actionThread`: one debugged action | `cli/cli_cmdHandler.c` |

| component | state | operations | interacts with |
|---|---|---|---|
| event queue, `vt/vt_msgQueue.c` | ring, `start`/`nread`/`end`, mutex, one condition variable | put, timed get, free, clear, refresh, initialise, listings | all three threads |
| timers, `vt/vt_timer.c` | linked list of `(id, finalTime, handler)` | register, update, latest, notify | processor only; its timeouts bound the queue's wait |
| call state machine, `vt/vt_fsm.c` | per endpoint: state, session socket, number at the other end, digit buffer, digit timer | the table `l_fsmCtxs`, one handler per row, rows added by configured actions | queue, timers, sessions, actions |
| sessions and listener, `vt/vt_event.c` | `l_activeSessFds` under `l_sessFdsMutex` | accept, register, unregister, read | queue, state machine, peers |
| server link, `vt/vt_send.c` | `l_connStatus` with `dspStart` and `openChannel`, `g_connectedSem`, thread ids | connect, shutdown, one encoder per message | listener, operator, actions |
| send commands, `cli/cli_cmdHandler.c` | none | read options and words, test them, send | server link, operator, actions |
| action table, `vt/vt_action.c` | actions with their messages, names, keys; the index each row runs | default table, load of `.vc_action`, attach, look up, run | INI parser, state machine, server link |
| debug mode, `vt/vt_action.c` | breakpoints, `actionSem`, `cliSem`, counters | stop, step, leave | operator, processor, action threads |
| number entry, `vt/vt_fsm.c` | digit buffer, key list | collect, classify, dispatch | timers, actions |
| configuration, `vt/vt_config.c` | `g_vtConfig` | load, reload | INI parser, everything |
| INI parser, `contrib/iniparser` | dictionary: slots, size, count | set, unset, get, grow; load line by line, dump | configuration, action table |
| command line, `cli/cli_main.c` | the tree of commands, history | find the handler, complete | operator |
| `voiphelper` (a program of its own, below `src/voiphelper/src`) | session status shared by its threads, descriptors, the voice's process | call, accept, close; a listener and a thread per connection | peers |
| VoIP server, telephones, peers | ringing, voice channels, handset | not in the repository | server link, sessions |

What is hard here: one condition variable serves waiters of two kinds; the only consumer of the
queue also produces; a lock is held over a blocking put; a semaphore is initialised again in
use; events of several calls and dialling pauses overlap in one queue and are matched against
the state they meet, not the state they were sent in; a failing action leaves a half-done
transition, and so does a connection that breaks between two messages of one action; rows are
attached by number to a table that a later load replaces; the digit buffer is not terminated; the
fixed session table can be full; timer nodes are freed during the walk; the helper's threads share
one session status without a lock, and descriptors are reused.

What makes each component correct:

- *queue*: first in, first out, nothing lost or doubled, listings right, each data block freed
  once, no lost wakeup, every put and every event gets its turn;
- *timers*: unique ids, each timer belongs to the endpoint that remembers it, none overlooked,
  none too early, every dialling ends;
- *call state machine*: a session names its owner and partner, messages reach the telephone they
  are about, each call is answered once, giving up ends the ringing, no stranger ends a talk;
- *threads together*: a new connection reaches the listener, sessions are served, a closed
  session is silent, nobody waits for somebody who waits for him;
- *actions, debug mode*: the operator gets his prompt back; semaphores live as long as their users;
- *number entry*: what is called is what was dialled;
- *action table*: after a load an event runs the action the file names for it, however many files
  were loaded before;
- *server link*: the telephone rings while the state says so, and voice flows while it says so;
- *INI parser*: a file gives each key its last value and each section its place, an error is
  reported, a dump loads again; the dictionary is a map;
- *helper*: an answer reaches the caller it is meant for, a ringing caller is not displaced, ended
  connections are closed, callers are accepted.

`PROJECT.json` lists the hazards line by line and, for each, the properties that watch it.

## 2. Modules

| module | models | proofs | checked by |
|---|---|---|---|
| `BoundedFifo` | abstract: what the queue promises | | through `EventQueue` |
| `EventQueue` | `vt_msgQueue.c` with its three kinds of users | `EventQueueProofs` | `MCEventQueue` |
| `VtTimer` | `vt_timer.c`, the processor's loop around it, `dfmtEndDtmfStart`'s use of it | `VtTimerProofs` | `MCVtTimer` |
| `CallFsm` | the rows and handlers of `vt_fsm.c`, session table, messages between programs | `CallFsmProofs` | `MCCallFsm` |
| `ActionDebug` | `actionGo` and debug mode of `vt_action.c`, the debug command line of `cli_cmdHandler.c` | `ActionDebugProofs` | `MCActionDebug` |
| `VoipTester` | composition: operator, listener and processor over link, table and queue | `VoipTesterProofs` | `MCVoipTester` |
| `ServerLink` | operators: `vt_send.c` and the handlers of the send commands | | through `PhoneLine` |
| `ActionTable` | operators: the actions of `vt_action.c`, their rows, loading and running them | | through `PhoneLine` |
| `PhoneLine` | composition: one telephone, its user, its events, the rows with their actions, the link, the operator | `PhoneLineProofs` | `MCPhoneLine` |
| `StringMap` | abstract: what a dictionary promises | | through `Dictionary` |
| `Dictionary` | `contrib/iniparser/dictionary.c` | `IniparserProofs` | through `IniFile` |
| `IniFile` | `contrib/iniparser/iniparser.c` over `Dictionary` | `IniparserProofs` | `MCIniFile` |
| `VoipHelper` | the helper: operator, listener, a thread per connection, descriptors | `VoipHelperProofs` | `MCVoipHelper` |

**EventQueue.** A section under the mutex is an action; a thread inside `pthread_cond_wait` is in
`waiters`, and `Signal` takes any one out, as the library may. `PutEvent`, `GetEvent`, `MsgClear`,
`MsgRefresh` and `InitMsgQueue` are the functions of those names; the waits are `PutWait`,
`GetWait`, `GetTimeout`. The data of an event is its sequence number, which also stands for its
heap block (`freed`). `HandlerPuts` bounds what the handlers of one event put (two, by
`hookFlashAny`). The `Mut...` operators are wrong variants that serve to show that the
properties can fail; the specifications do not use them.

**VtTimer.** The linked list is a sequence; a node freed but not unlinked stays, with
`live = FALSE`. Looking at such a node is undefined behaviour: the model stops in the state
`undefined`, and no property says anything beyond it. `Tick` lets time pass between any two steps. An event is taken, its
handler runs (`HandleStart`, `HandleDigit`, or `RefuseDigit` when `numberIndex` has reached `VT_INPUT_NUM_MAX`: the
digit is dropped and the pause goes on as it was), and the next round clears the event (`EventHandled`).

**CallFsm.** One action per handler; `FsmCtxs` is the static table in the order in which
`searchFsmCtx` walks it. An event is taken together with what its handler does. The rows that
configured actions add at run time carry `VT_STATE_MAX` as their next state and run no handler
but the action, so they change no state of this module; an action's result is the parameter
`ActionResults`. A session is one end of a connection, `<<call, side>>`. `closeFd` invoked for
`NUM_CALLED` reads a descriptor beyond its data: `CloseFdMisread` chooses any, and records it in
`misread`, after which the properties that depend on intact sockets are silent.

**ActionDebug.** Everything that runs actions is a runner: the processor, the operator at the top
command line, the threads of debugged actions. `pc[r]` is its place in `actionGo`: `loop` fills the
buffer and reads `l_debugMode`, `list` looks at the breakpoints, `step` reads the mode again,
`stop`, `counted`, `paused` and `woken` are `enterWaitState` before its first section, behind it, in and after
`sem_wait`, `run` is the handler and `end` the last section. `op` is the operator's place: at the top, entering
debug mode, at the debug prompt, about to count himself (`announce`), waiting, counting himself out (`woken`), leaving
debug mode. Sections under `l_actionCliSync.mutex` are steps (`Stop`, `GoOn`, `End`). `vt_initDebug` takes no mutex, so
each of its stores is a step of its own (`EnterDebug` to `SetMode`) with the steps of actions in between; a store may
also fall into the middle of a section, which then posts all the same (`MissReset`) or overwrites what was stored
(`LoseReset`). The history `early` says that the session began with a post. Of the arguments the model keeps whose they are:
`pInfoNeed[a]` in the table, `buff[r]` in the runner's copy. A use of a destroyed semaphore, of the
freed breakpoints, of a freed command line or of a reloaded table sets `misused`, and no runner and
no operator goes on. The history `crowded` is set when something begins while something else is
going on or an answer to the operator is on its way (`Activity`).

**VoipTester.** Here the queue is a bounded FIFO. That is justified by the refinement proved for
`EventQueue`; the one thing a FIFO would hide, a putter left asleep by `vt_initMsgQueue`, is kept
as `asleep`. Handlers are reduced to what touches shared things: further puts (`put1`, `put2`),
opening a session (`connect`, `register`), closing one (`unregister`). `lpc` is the listener's
position in `vt_listenEvent`, `op` the operator's in `vt_connectToServer`. `sem_init` under a
waiter and `FD_SET` of -1 are undefined and modelled as choices.

**ServerLink.** A link is a record: `sock` (none, open, or dead: the next write fails), the flags
`dspStart` and `openChannel` that the program keeps, what the server has understood (`server`: who
rings, which channels carry voice), and how many writes are still `good` before the connection
breaks, when the write `fails` or the message `vanishes`. `vt_send...` are the functions of those
names, `SendCommand` the handlers behind them: their options, their words (which may be numbers,
text, or missing), their tests and early returns. `beyond` marks a link on which the code indexed an
array out of bounds or called through NULL; nothing is claimed of what follows. Of a message the
model keeps the endpoint or the channel.

**ActionTable.** The table is a record: the `actions` with their names, the static rows'
action indices `rows`, the `dynamic` rows and the `keys`; `builtIn` says whose actions they are. `LoadAction` is `vt_loadAction` with
everything it calls: sections in the order of the file, one action per section,
`RegisterAction` per pair of event and state. The words of a message are those written in the action
or the words it is run with; `Junk` is what an action without words finds in an uninitialised
character. `RunAction` sends the messages one by one and stops at the first that fails. `VcAction` is the
repository's own file of actions, section by section.

**PhoneLine.** Handling an event is one step: dynamic row, static row, action, handler, new state. The operator's
thread, which takes no lock, may give a command inside of it (`Meanwhile`): between the dynamic and the static
row, between the action and its handler, and between the handler and the new state (`fsmGo`, lines 682, 684 and 694).
`Alone` is the event handled without one. Every typed command may come there, with the server as it was, gone or started
anew, but one that loads a file; one command per event. What the user and the far ends do while an event is handled
only puts events behind it, as it would after it. Commands between two messages of one action are the subject of
`ActionDebug`, the threads over link and table of `VoipTester`. `Breaks` lets the
connection break at some write of a step. The operator types one of `Commands`; `ExecCmd` finds the
handler. Configurations and action files are records of what their lines say. Histories: `typed` and
`called` (what was dialled, what was called), `file` (the last one loaded) and `quiet`, false once
something has happened that the properties except. Handset and server are external, modelled from
what the listener reads and what the messages mean.

**Dictionary, IniFile.** Slots as functions over `0 .. size - 1`; a free one holds `NULL`; `Probe` is the
walk from `n` round the end. `Hash` is any function, so that collisions happen. `IniFile` reads a file
one line per step (`ReadLine`: continuation, comment, section, value, error, too long a line), then
changes it; `DumpLoadsAgain` dumps and loads with the operators `IniparserDumpIni` and `IniparserLoad`.
Characters are kept where a decision depends on them.

**VoipHelper.** The operator's commands (call, accept, reject or down, reload), the listener, and `handleClient` as a process
per connection. They share the session status without a lock, so each test of it and each write of a field is a
step: `TestState`, `RingState`, `RingIP`, `RingNumber`, `RingFd` are lines 235 to 247 of `handleClient`, `InitState` to
`InitFd` those of `initSessionStatus`, and the commands are cut at the fields they read or write. Descriptors are the
smallest free numbers, so a closed one is reused. Far ends are named by
their connection; the voice is sent or not. Histories: `caller`, who made the telephone ring last, and `together`, which
is set when his CALL_NUMBER passed the test while another was handled or the session was being initialised.

## 3. Runs

| run | bounds | what it shows |
|---|---|---|
| `event_queue` | `storeEventMax` 3 as shipped, 6 events | types, history, ownership of data, no lost wakeup, FIFO refinement, puts return, events are consumed |
| `timers` | 3 telephones, pause of 2 ticks, numbers of 1 digit, dialling until 4 | ownership, earliest deadline, none overlooked, never early, dialling ends |
| `timer_free` | 2 telephones | *violated*: a node that is freed stays linked |
| `calls` | 2 telephones, 2 calls | giving up ends ringing, each call is answered |
| `call_faults` | 2 programs, table of 1, failing actions, writes and connects | one answer per call; sessions and messages belong to whom they name; who rings is watched |
| `debug` | 1 action thread, 1 action of 2 messages, 2 commands, 1 run by the processor, 2 sessions | the prompt comes back, and not before the action has stopped or ended; the counter of waiting actions |
| `tester` | 2 connects, table of 1, queue of 2, 3 inputs | a connection reaches the listener, sessions are served, closed sessions are silent |
| `tester_mutex` | 1 connect, 5 inputs | *violated*: the listener holds the table's mutex while it waits for room |
| `ini_file` | 4 lines and edits, first size 1, lines of 11 characters | last value wins, error kept or forgotten as the code has it, sections in order, a dump loads again, the dictionary is a map |
| `helper` | 2 connections of either direction, descriptors up to 5, 2 messages, or 2 commands, or one of each | answers reach the caller, ringing callers stay, connections end, callers get accepted |
| `phone` | endpoint 0, buffer of 2 digits, keys 1 and *, 3 files, 4 configurations, 40 command lines, queue of 2, breaks after 2 or 4 writes | ringing and voice follow the state, a talk begins with voice, rows run what was loaded, what is called was dialled |
| `default_actions` | same as `phone`, two commands | *violated*: after a failed load rows do not run the built-in actions |

*Why the bounds are enough.* Six events wrap a ring of four slots, overwrite its history and fill
it with both producers waiting. Three telephones put a timer before, between and after others,
which is all that insertion and removal distinguish; dialling until the fourth tick lets a telephone start a
pause, have it restarted by the digit of a new number, and dial again after it ran out; with room for one digit the
second finds the buffer full. Two calls allow
a second one to overlap with the remains of the first, in either direction; three telephones allow
a stranger. In `tester` three inputs suffice to open a session, send over it twice and have it
closed in between, or to lose the server and fill the queue. In `debug` the thread and the processor
can both be stopped, be let go together by leaving debug mode, and reach into a second session;
two messages put a stop before the first and between the two. In `phone` the user, far ends and operator share
one of four budgets: five acts of the user (dial, give up, dial again), three and two with far ends
(called, talking, called again), two of each with one command, or two commands in a row; a command counts the same
whether it is given between events or while one is handled; a longer number than the
buffer, a key action and every row occur. Breaks after two and four writes fall inside the longer
actions; a break at the first write is the same as a connection that is dead already. In `ini_file` a
first size of 1 makes the dictionary grow twice, with a hole in it. In `helper` three descriptors are
free (3 to 5): one for the listening socket and one for each connection, so that a closed one is reused while
the other connection is still served; the far ends write twice, so that two CALL_NUMBERs are handled at once or one
after the other, or the operator types twice (calls and accepts, for instance), or each acts once. A bound only limits what comes from
outside (`MaxEvents`, `MaxTime`, `MaxCalls`, `MaxActs`, `MaxConnects`, `MaxInputs`, `MaxCommands`,
`MaxRuns`, `MaxSessions`, `MaxSteps`, `Bounds`, `MaxQueue`); what has begun
always runs to its end. `CHECK_DEADLOCK FALSE` stands where the users may simply stop; in
`event_queue` deadlock is checked, since the operator may always act.

*Fairness.* Threads that can run do (`WF` on the steps of listener, processor and a begun
connect, in the helper on the listener and on each connection's thread), the clock ticks, and a
timer that is due is run. `IniFile` and `PhoneLine` are checked for safety only and assume none. Nothing outside is fair: no telephone,
peer, server, operator or timer of the next dialling must ever act. Weak fairness suffices
everywhere, and no fairness of mutexes is assumed: where a thread could starve at
`l_sessFdsMutex`, the properties of `tester` hold all the same.

*Exemptions.* `PutReturns` and `EventsConsumed` exempt a processor asleep in its own put and a
reconnect; the promises of `tester` exempt the situations gathered in `Excused`. `PromptReturns`
excepts a command that names no action, whose thread never tells the operator; `PromptMeansStopped`
excepts `crowded`, because any other action that ends while the operator waits sends him back too
early and may leave a post for the next wait, and `early`, because who stops or ends while debug mode is being entered
may find `waitCliNumber` at the 1 that the last exit left and post the new semaphore; `WaitersCounted` excepts `leftover`, an action of the
last session that counts itself out of this one. `ServerMatchesState` holds while `quiet`: no write of the steps so far failed or got lost,
no report of the server was lost (its link was down, or a reconnect or `msg clear` emptied the queue), no
hook was flashed, no event was handled while there was no connection, the operator sent and ran nothing himself, the
server was not started anew, and the loaded file is the repository's or the built-in table. `TalkHasRtp` needs none of that, only that the
actions in the rows that begin a talk end with starting the voice, that no message got lost on the way, and that the
operator gives no command while the event is handled that begins the talk (`left' = left`).
`CalledIsDialled` excepts what follows a longer number. `AnswersReachCaller` and `RingingCallerKept` except calls handled
`together`, which may mix or displace each other, and the first also a session that is still being written, or was
given to a call of the operator's own. `actionThread`'s 50 ms are taken to be long enough
for the operator to count himself first. Each exemption is
a hazard of its own, shown by one of the violated runs or noted in `PROJECT.json`.

## 4. Proofs

*EventQueueProofs* proves, for every ring size, every `HandlerPuts` and any number of events, `TypeOK`,
`HistoryCoversUnread`, `RemembersLastEvents`, `PDataOwnership` and that `EventQueue` implements
`BoundedFifo`. None of them is inductive alone. `IInv` adds `RingOrder`: going round the ring from
`start` one meets `nread` before `end`, so distances add up; with it, the ring's contents follow
from one equation per slot (`ring[i] + Distance(i, end) = total + 1`). That equation makes unread
events younger than freed and held ones (`FreedAreOlder`, `HeldIsOlder`), which gives the ownership
of blocks without tracking heap operations. Lemmas on the ring's arithmetic come first
(`DistanceToNext`, `DistanceFromNext`, `FullIsNextToRead`, `UnreadSlot`), then one lemma per action.
For the refinement `HandEmpty` is needed too (the processor holds nothing when it asks), and
`PutIsPush`, `GetIsPop`, `EmptyingIsDiscard` map the steps. `NoLostWakeup` follows from `SleepsRightly`,
which says that who waits for an event finds the queue empty, and who waits for room finds it full, or empty
with another producer awake whose put will signal: one signal wakes one thread only. Except after a
reconnect, consumer and producers never sleep together (`TogetherOnlyWhenFull`).

*VtTimerProofs* proves `IdsIncrease`, `OwnTimer` and `RunsAfterPause` for any set of telephones and
any pause. `IInv` is `NodesOK /\ IdsIncrease /\ OwnTimer /\ DueAfterPause`. That ids stay unique
although they are taken from the gap behind the first run of consecutive ids needs `RunEnds`: the
run's successor has a larger id than the new one. `OneTimerEach` follows from `OwnTimer` and is
what makes a removal by position safe. `DueAfterPause` ties the deadline of a live node to the last
digit of its endpoint that was taken. `SleepsUntilEarliest` and `NoneOverlooked` need what the fold over the list returns:
`NumbersByInduction` (a set that has 0 and with each number the next has them all) gives the
walk that the fold is (`WalkExists`), and `LatestIsEarliest` its result. `WalkedNotDue` is the inductive part: the
nodes that `vt_notifyTimer` has passed are not due at the time it took.

*ActionDebugProofs* proves `TypeOK` and `WaitersCounted` for any threads, actions and bounds. `IInv`
adds to the types that whoever is inside `actionGo` runs an action of the table (`RunsOK`) and that
the operator's counter is 1 while he waits and 0 at the prompt (`CliCounted`), without which it
could fall below zero. `OneMore`, `OneLess` and `AsMany` say how a move of one runner changes the
number of waiting actions; with them there is one lemma per action. `PromptMeansStopped` rests on `Alone`: unless
`crowded`, one thing at most is on its way, handed on from the post of `actionSem` to the action that runs and
from it to the post of `cliSem`; and from the reset of `waitCliNumber` on nobody posts before the operator waits
(`Untold`), so that at the prompt nothing is left unless the session began `early` with a post.

*IniparserProofs* begins with the dictionary and proves of it, for all keys, values, hash functions and first sizes, that `n` counts the used
slots and that a key has one slot with its own hash (`DictionaryInvariant`), that the search for a free slot
in `dictionary_set` ends, as its comment claims (`InsertionTerminates`), and that the dictionary implements
`StringMap` (`DictionaryImplementsMap`). `OneSlotPerKey` alone is not inductive: that a free slot is there
to be found when `n < size` needs `CountIsRight` (`FreeSlotExists`, by counting), and that growing loses
nothing needs both (`GrownIsGood`). `OneMatch` turns the search for the first equal key into the only one.
The invariant is stated for any dictionary (`Good`), so that the old, the grown and the changed one are
treated alike, and `ReplaceIsSet`, `InsertIsSet` and `UnsetIsUnset` map the operations to those of the map. This part uses no assumption but `Dictionary`'s own.

It goes on with files. Every behaviour of `IniFile` is one of the dictionary it fills (`UsesDictionary`), hence
`FileKeysInOneSlot` and `FileImplementsMap`. `LoadedAsWritten`, `RefusedForLastError` and `SectionsInFileOrder` are
proved for every set of lines and any length of a file. `Reading` ties what the parser keeps at a line to the lines
read: the text so far (`Said`), the section (`LastSection`), the errors (`Wrong`) and the entries; `MoreRead` is one
turn of the loop. The reader's view of a file is stated by positions and grows with each line (`DefinitionsGrow`,
`NothingDefined`, `OneDefined`). For the order of the sections the parser must fill the slots from the first on without
a gap: while nothing is removed a dictionary is full up to `n` (`Filled`, `SetFills`), so that slots are in the order
in which keys were first defined (`InOrder`, `DefinedInOrder`).

*CallFsmProofs* proves `SessionOwned`, `AddressedToOwner`, `AnsweredOnce` and `RingingIsWatched` for any hosts,
telephones, dial plans, table sizes and failing actions. To whom a message belongs follows from the ends of its
connection; that a call is answered once does not: it needs that the announcement is the first thing heard of a
call (`FirstOnWire`, `FirstInQueue`), that a socket is a callee's session only after it was handled
(`HandledBefore`), that who rings has a callee's session (`RingsForCaller`), and that until then the callee has said
nothing (`UnheardOf`). Then the state leaves BE_CALLED with the one answer, and no second announcement can bring it
back. `OpenAndWatched` is the same argument for the listener's table.

*VoipTesterProofs* proves `ClosedSessionsSilent`: the listener puts what it read under the mutex (`MutexHeld`), so
the session is still in the table (`ReadIsActive`), and whoever takes it out must wait.

*VoipHelperProofs* proves `AnswersReachCaller` and `RingingCallerKept` although descriptors are used again: a
connection is open under one descriptor at most and never opened twice (`OneDescriptor`), hence whoever remembers
both (`ThreadsFollow`, `SessionFollows`) either has the right descriptor or a connection that is closed. The session
is written field by field; unless calls were handled `together` one thread is at it (`RingsAlone`), which found the
telephone hanging, and the fields it has written so far are its caller's (`RingsInOrder`), whatever the operator's own
call writes in between.

*PhoneLineProofs* proves the type invariant, `CalledIsDialled`, `TalkHasRtp`, `RunsAsLoaded` and `ServerMatchesState`
for any endpoint, buffer, keys, files, configurations and commands. For `CalledIsDialled` the invariant says that the buffer
holds the digits typed, and a NUL behind the longest number so far; a number that fills it is the case in
which the string runs on into `numberIndex`, which the conversion to a number stops at. The type invariant follows the program
from the bottom up, each operator of `ServerLink` and `ActionTable` mapping links to links (`LINK`) and tables to
tables (`TABLE`). The folds over handlers, sections and pairs choose a function on sets of positions; `FoldWalk`
turns them into walks, which induction over numbers can follow. The queue's bound counts an event in the
queue as one, a flash as two and a running timer as one (`Weight`). `TalkHasRtp` looks at the last handler
of the action that begins the talk: if it succeeded and nothing was lost, the server knows of the voice. A command given
while the event is handled uses up one of the operator's acts (`LeftCounted`), so where `left` stays the event was
handled `Alone` (`Uninterrupted`); every other part of the invariant is kept by such commands as well (`MeanwhileKeeps`,
`CommandsBehave`). For
`RunsAsLoaded` the walks over sections and pairs carry along what each row runs so far: the last section that
hit it (`Hits`), and of the dynamic rows the one in front.

`ServerMatchesState` needs all of it and three things more, each true in quiet times only. *What an action tells.* `Through`
follows one handler of a row's action: on a link that stays open the server is told exactly its command, for this telephone.
`Went` adds the handlers up, which works because no action both starts and stops ringing, or voice (`Orderly`). *Which
action runs.* `Needs` says what the server must be told when a row is taken, `Tells` what an action tells it; the two are
equal for every row (`Suits`) if the table is the built-in one or comes of the repository's file. That it is one of the
two is `Armed`, kept by every load (`LoadArms`, a walk over the file's sections of which each line is a case).
*Whether the event fits the state.* The state follows the handset with the delay of the queue, so the invariant
(`Matching`) says that the hook events not yet handled lead from where the handset was when the state was entered
(`Placed`) to where it is now (`Walk`, `Leads`). Hence a HOOK_OFF is never handled in TALKING, nor a HOOK_ON in BE_CALLED:
without this a row that changes the state but tells nothing, as the one of a HOOK_ON while being called, would break
the match (`RowFits`). An InitServer of the operator's leaves the channels as they are (`Keeping`).

The assumptions are those stated with the constants: a positive ring size, pause and buffer, bounds that are
natural numbers, "none" is no telephone, `NULL` no string, a hash is a natural number; files of actions are
sequences of sections made of words, of which one is the repository's own file, for whatever number its key action is, and
one cannot be loaded; commands are lines of words; lines of INI files are texts with a flag, and
the keys, values and headings they can give are among those of the dictionary; the buffer of `fgets` holds two
characters at least; and the files and configurations that commands
name are among those given, be it as one that cannot be read. They are evaluated in every run.

## 5. Only model-checked

All liveness: `PutReturns`, `EventsConsumed`, `DiallingEnds`, `GivingUpEndsRinging`, `CallIsAnswered`,
`PromptReturns`, `ConnectReachesListener`, `SessionsServed`, `ConnectionsEnd` and `CallersGetAccepted` need fairness and
`ENABLED`. `DumpLoadsAgain` of `IniFile` dumps and loads with folds and selections over whole files, whose results need
induction over data; it is checked for files of four lines. It is no theorem for all lines either: of `[k=v] ;c`, an entry
because the line does not end in a bracket, the dump says `[k = v]`, which is read as a heading.

Some modules state invariants that no run lists: `HistoryCoversUnread`, `IdsIncrease`, `DictionaryOK`,
`CountIsRight` and the `TypeOK` of `CallFsm` and `VoipHelper` are proved; the `TypeOK` of `VtTimer`, `VoipTester` and
`IniFile` document the shapes of the state.

## 6. Findings

Three are runs:

1. `vt_notifyTimer` frees an inner node and then reads it through `pPrev->pNext` (`timer_free`).
2. `vt_putEvent` is called with `l_sessFdsMutex` held while the only consumer may need it
   (`tester_mutex`).
3. When loading actions fails after a load that succeeded, the rows keep the file's numbers, which mean
   other actions in the built-in table (`default_actions`).

Five more are stated as properties of their modules, which TLC refutes when they are added to a run:
`NotAsleepTogether` of `EventQueue` (`vt_initMsgQueue` does not signal a thread that waits for room),
`PartnerEndsTalk` of `CallFsm` (a third party's CALL_DOWN ends a talk), `ConnectWakesListener` of `VoipTester`
(`sem_init` on `g_connectedSem` under its waiter), `OwnArguments` of `ActionDebug` (the arguments of an action
live in the table all threads share) and `CallIsRead` of `VoipHelper` (the thread of `call` reads `connectfd`
of the session status late, when another connection may have written it).

What modelling showed besides, none of it claimed otherwise by the code:

- *digits*: a number that fills the buffer runs on into `numberIndex`, is refused, and leaves its tail
  for later, shorter ones: after 12345, `*01` is looked up as `*0145` and its key action does not run. A
  digit between timeout and NUM_DONE calls twice. A digit beyond the full buffer does not restart the pause, so the
  handler may run less than a pause after it. An unknown `*` number leaves the telephone dialling, without
  the busy tone of NUM_ERR.
- *rows*: a misspelt or missing `CurState` counts as MAX and overrides every row of its event. `.vc_action`
  does not mention the row of NUM_CALLED in any state, whose index then means the file's fifth action. Rows added
  at run time are never removed and keep their numbers over a load; the key list points into a freed
  dictionary after one.
- *actions*: a section without commands has no handler and crashes when run; an action run without words
  reads an uninitialised character; an action is found by a prefix of its name, the first one winning;
  `action InitServer CN` looks for the region " CN". Endpoint 2 passes the test `> VT_ENDPT_MAX`.
- *talk without voice*: between the action and the new state the operator can stop the voice, or reconnect to a server
  that was started anew; the telephone then begins to talk without it (TLC finds it when `left' = left` is dropped
  from `TalkHasRtp`).
- *telephone*: a HOOK_OFF lost by a reconnect while the state is BE_CALLED, then a HOOK_ON, leaves it ringing; so does
  lifting the handset while the server is gone and hanging up when it is back, since the stop was never sent (the attempt to
  prove `ServerMatchesState` found this; it takes a call and four more acts, beyond the budgets of the run); and
  so do a flash and a hang-up queued together; when the far socket is gone hanging up leaves CALLING or TALKING.
- *debug mode*: leaving it leaves `waitCliNumber` at 1. An action that stops or ends between the initialisation of `cliSem`
  and the reset of that counter, when debug mode is entered again, posts the semaphore, and the first wait of the session
  is over at once (TLC finds it when `early` is not excepted); a reset of `waitingActionNumber` inside a section is lost.
- *configuration*: a file with a wrong address is refused half-read; one without `DTMFDigitMap` clears all digits.
- *INI*: a later line's success overwrites the error of an earlier one; a continuation unfinished at the end of
  the file is dropped; a comment that ends in a backslash swallows the next line; a dumped value with `;` or `#`
  is cut when it is loaded again, and a long continued one is refused; entries without a section are lost
  from a dump that has sections.
- *helper*: two calls that pass the test of the state together displace each other, or leave one's number with the
  other's descriptor, and so may `initSessionStatus` and a call (TLC finds both when `together` is not excepted);
  without a voice process `kill` of pid 0 reaches its own process group; a second `close` of a
  descriptor may hit one that was reused; an error of `accept` makes it spin; a far end that closes leaves
  the state BECALLED, and a failed call leaves CALLING, so that later callers are ignored; when only the write of
  CALL_NUMBER fails the thread of the connection is there all the same.

## 7. Not modelled, and the plan

Not modelled: completion and history of the command line; printing, listings of sessions and tables of country
codes beyond the regions; the queue's size and the number of breakpoints changing on a reload; the three hook
messages that nothing sends; messages read from a socket in parts; lines cut by full buffers; the process
that sends the helper's voice, the helper's configuration but for its number and its command line; the
conversions of `iniparser_getint`, `getdouble` and `getboolean`; running out of memory; build files. They keep no
state that the properties above depend on, except the queue's size, which is listed as a hazard.

What would come next:

1. The reload of `storeEventMax` as an operator action of `EventQueue`, with the size of the ring as a variable.
2. `PhoneLine` for two endpoints, composed with the sessions of `CallFsm`.
3. Proofs: `DumpLoadsAgain` of `IniFile` for lines whose dump is no heading, the folds followed as walks.
