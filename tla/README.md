# A verification development for zzdwm

zzdwm is a desktop built around a patched dwm, with tools of its own and many
carried along. This directory models the parts that have the most state and
the most orders of events: in dwm, which client is on which monitor, in which
lists, under which tags and who has the focus (`src/src/dwm/dwm.c`), the
settings of each tag, the layouts, and the start and end with their signals;
the AI agent with its threads and
commands (`src/tools/ai/agent/ai.c`); and the job queue nq
(`src/tools/nq/nq.c`). The reference is the C code.

    tlc -workers 2 -config lists.cfg MCDwm      # check one run
    tlapm DwmProofs.tla                         # check the proofs of a module

## 1. Inventory

| Component | State | Operations | Correct means | Here |
|---|---|---|---|---|
| **dwm: clients, monitors, focus, tags** (`src/src/dwm/dwm.c`) | per monitor: lists `clients` and `stack`, `sel`, `tagset[2]`, `seltags`, `tagmarked`; per client: `mon`, `tags`, flags; global: `mons`, `selmon`, `prevclient` | X event handlers, key and button functions, client messages | lists that end, agree and cross no monitor; one selected client that has keyboard, border and top of the history; no view without a way back; no pointer to a freed client | `ClientLists`, `DwmState`, `Dwm` |
| **dwm: pertag** | `Pertag`: layouts, factors, nmaster for each tag; `curtag`, `prevtag` | `view`, `toggleview`, `setlayout`, ... | the settings in effect are those kept for the tag | `Pertag` |
| **dwm: layouts** | `wx ww wh`, factors, gaps, `nmaster` | `tile`, `bstack`, `grid`, `doubledeck`, `zetadeck` | windows stay in the area and do not overlap, no unsigned difference wraps | `Layouts` |
| **dwm: start and end** | `autostart_pids`, `restart`, `running`, SIGCHLD | `autostart_exec`, `run`, `quit`, `sighup`, `sigterm` | the programs dwm starts run once and end with it; quit ends | `Session` |
| **AI agent** (`src/tools/ai/agent/ai.c`) | `messages`, the ring `steering_input`, `interrupted`, `full_access`, the request thread, the command | prompt loop, requests, tool calls, live steering, signals | each tool call has its results; no command without the human's word; one owner of the conversation; the human gets the turn back | `Agent`, `SteeringQueue` |
| **nq** (`src/tools/nq/nq.c`) | files `,TIMESTAMP.PID` and their locks | queue, wait (`-w`), test (`-t`) | a job waits for all older ones; nobody waits in a circle | `Nq` |
| dwm: geometry of single windows | `x y w h`, `oldx ..` | `maximize`, `moveclient`, `applysizehints` | a saved size is restored | not modelled |
| dwm: bar, drawing (`drw.c`, `util.c`) | pixmaps, fonts | `drawbar`, `drw_text` | output only | not modelled |
| dwm: X protocol | the event queue and the windows of the server | `scan`, `checkotherwm`, `xerror`, `sendevent` | windows that disappear between event and request do no harm | the order of events is free; the queue is not modelled |
| dwm: configuration (`config.def.h`) | rules, keys, `attachmode`, `lockfullscreen`, `taglayouts`, sizes | none at run time | | constants of the models |
| cwm, MicroEMACS, screen, nnn, elvis, cscope, zathura, dmenu, slock, abduco, autossh, ... | | | | not modelled (section 7) |
| scripts, docker files, installer | files | | | not modelled |

How the parts of dwm meet. `run` takes one X event at a time and calls the
handler of its type. `keypress` and `buttonpress` look up a function in the
tables of `config.h`. Handlers share all state through the globals. Only
`movemouse`, `resizemouse` and `placemouse` have an event loop of their own: it
dispatches `Expose`, `ConfigureRequest` and `MapRequest`, and so `manage` runs
in the middle of a drag that holds a client in a local variable.

What is hard there:

- A handler unlinks and links a client in two lists and changes `c->mon`
  between; each of some forty functions has its own order of these steps.
- `focus(NULL)`, `unfocus`, `detachstack` and several handlers each write part
  of what "has the focus" means (`selmon`, `sel`, the stack, the border, the
  input focus).
- Other programs send client messages and take the input focus at any moment.
- Monitors come and go with their clients.
- Pointers to clients are kept (`prevclient`, `tagmarked`, the client of a
  drag) while clients are freed.
- Tags are bit masks that are shifted, exclusive-ored and set from messages.
- `quit` runs in handlers of signals, in the middle of the loop and of itself,
  and waits there for processes by numbers that may be somebody else's by now.

The agent is one loop with a thread beside it. The main thread writes
`messages`, starts a thread for each request that reads them, and polls the
terminal while it waits; lines the human types meanwhile go into a ring and
come out at fixed points. Between two requests a response is processed: its
tool calls one after the other, each perhaps a child process, each perhaps with
a question to the human before and after. A signal sets `interrupted`. What is
hard: the conversation is full at any step and loses its oldest message; a
request fails, times out or is interrupted while its thread may be done; the
human answers, directs, breaks off.

nq has no server. Every invocation reads the directory by itself, and the
directory changes meanwhile. What is hard: files appear late, are removed, jobs
are killed while another one waits for their lock.

`PROJECT.json` lists these hazards at their lines, with the properties that
would notice.

## 2. The modules

    ClientLists  <-  DwmState  <-  Dwm  <-  DwmProperties  <-  MCDwm
         ^               ^                        ^
    ClientListsProofs <- DwmStateProofs <-  DwmProofs

    Pertag  <-  MCPertag          Layouts  <-  LayoutsProofs
         ^
    PertagProofs                  Session  <-  SessionProofs

    SteeringQueue  (instance in)  Agent  <-  AgentProofs

    Nq  <-  NqProofs

(`PertagProofs`, `LayoutsProofs` and `AgentProofs` also use the lemmas of
`ClientListsProofs`.)

### dwm: clients

`ClientLists`: the linked lists as sequences, and the loops of `dwm.c` over them
(unlink, insert, first or last client of a kind). It has no RECURSIVE operator,
so that TLC evaluates the definitions the lemmas are about.

`DwmState`: the record `State` with one field for each variable of the C code,
and the internal functions as operators from a state to a state.

| Field | In the code |
|---|---|
| `nmons`, `selmon`, `prevclient` | the length of `mons`, `selmon`, `prevclient` |
| `clients`, `stack`, `sel`, `seltags`, `tagset`, `tagmarked` | the fields of `Monitor` |
| `mon`, `tags`, `sticky`, `floating`, `full`, `oldstate` | the fields of `Client`; a flag is the set of clients that have it |
| `live` | the addresses that are allocated; `manage` may get a freed one again |
| `lit` | clients with the selected border and `grabbuttons(c, 1)` |
| `neverfocus` | clients whose `WM_HINTS` decline the input focus (`c->neverfocus`) |
| `xfocus` | the window with the input focus, in the X server |
| `focusins` | windows another program has given the focus to, while the FocusIn is still on the queue |
| `ok` | FALSE once the code follows a null, freed or uninitialised pointer |
| `grab`, `held` | the mouse function whose event loop runs, and its `c` |

`Dwm`: one action for each handler or key function, over one variable `wm`. An
action is the whole handler, composed of the operators of `DwmState` in the
order of the calls in C. What `config.h` binds is the constant `Bound`, so an
instance can have some of the handlers. Every key may be pressed in every
state. Arguments are those of the bindings: `OneTag` for `TAGKEYS`, `Tag` for
`~0`, `{}` for `0`.

The input focus is followed through `setfocus`, which calls `XSetInputFocus` for
a client only if it does not decline it (`Keyboard`): selecting a client that
declines leaves the keyboard with the one that had it. Clients are mapped with
and without that hint and change it later (`wmhints`, the WM_HINTS case of
`propertynotify`). `stealfocus` is any other program, `focusin` what dwm does about
it for the window the event names. `focussame` sees at most 32 clients
(`SameMax`), as its array does.

`DwmProperties`: the properties. `MCDwm`: values for `Bound` and others.

Operators whose names begin with `Fault` are not the model. Each is a copy of
the definition that follows it with one plausible mistake; put in its place, it
breaks the property it is listed with in `PROJECT.json`. They show that a
property tells the code from a wrong code.

### dwm: pertag and layouts

`Pertag`: one monitor. `mon.now` is what the monitor has (`sellt`, `lt`,
`nmaster`), `mon.kept` the arrays of `struct Pertag`; `view`, `toggleview`,
`setlayout`, `incnmaster` write both, `rotatetags` and `swaptag` the view only,
`resetnmaster` the monitor only. `boot` counts the steps of `setdeflayouts`,
which runs before the first event. The test of `toggleview` shifts by `curtag - 1`;
with `curtag` 0 that is -1, undefined in C, and both outcomes are possible in
the model. The monitors have a `Pertag` each and share nothing, so one is
enough. The four factors are kept like `nmaster` and are left out.

`Layouts`: each layout is a function from the settings of a monitor to the
rectangles of its tiled windows, `TileStep` being one turn of the loop in
`tile`; the commands that change a setting are the actions: `setgaps` with its three
arguments (on and off, back to the default, wider or narrower within
`0..maxgappx`), `setmfact`, `setsmfact`, `resetmfact`, and `resizemouse`, which
puts the factor where the pointer is, with no limit. A layout that is chosen
comes with whatever any command has made of its own factor. Fractions are in
percent, where the code multiplies by a `float` and truncates: a place may
differ by one pixel. Size hints are off (`resizehints` is 0 for tiled
clients). `fits` is FALSE for the windows that a layout has no place for: `tile` and
`bstack` put them on the last master, `grid` to the right of the area, from
where `applysizehints` pulls them back by the size they had. `monocle`, which
gives all windows the window area (and makes them wider and higher than it by
the border when it has one), and `clear` are left out.

### dwm: start and end

`Session`: `pc` is where `main` is, `calls` the calls of `quit` that are not
finished -- one from a key at most, and on top of it those of the handlers of
SIGHUP and SIGTERM, each of which is masked only while its own handler runs.
`Kill`, `Reap` and `QuitReturns` are the steps of the innermost call; `Reap` is
`waitpid`, which blocks while the number is that of a living child. `proc` is the
kernel's: which program has a number, whether it lives, was told to end or is a
zombie. `Strange` gives a free number to another process. The loop looks at
`running` only after an event (`Test`, `Event`): handlers of signals are
installed with `signal`, whose interrupted calls go on. `Exec` resets the
variables and keeps the process, its children and the ignored SIGCHLD.

### AI agent

`Agent`: `pc` is the place of the main thread, `worker` the request thread,
`child` the process of a command.

| In the model | In `ai.c` |
|---|---|
| `messages`; `Drop`, `Add`, `CanAdd` | `messages`; `drop_oldest_message`, `add_message` |
| `steering`: `slot`, `read`, `write` | `steering_input`, `steering_read_index`, `steering_write_index` |
| `Prompt`, `NewConversation`, `ToggleForce`, `LoadSkill` | the commands of the loop in `ai_main` |
| `CreateWorker`, `WaitEnds`, `Join`, `CallInline` | `call_endpoint_threaded` |
| `RequestSent`, `WorkerDone` | `call_endpoint` in the thread (or in the main thread, when there is no other): the request is written, the answer read |
| `PollLive`, `EndLive` | `poll_live_input`, `end_live_input` |
| `Response`, `SkipCall`, `AskCall` | `process_response`, the loop of `process_tool_calls` |
| `Allow`, `Refuse`, `PartialSteer` | `command_decision`, `read_multiline` |
| `Spawn`, `LoopBreaks`, `CommandEnds`, `ChildExits`, `ChildCloses` | `run_command` and the shell it starts |
| `PostSteer`; `DrainLine`, `DrainEnds` | `post_execution_steer`; `append_live_steering` |

A message is its role and its number of tool calls, a line of steering its
length. Time is not there: a timeout may strike whenever the code tests for
it. HTTP, JSON, the terminal and the text of skills are not there either: a
request succeeds or fails, a response is of use or not.

`LoopBreaks` is every way out of `run_command`'s loop before the command is known
to have ended: the end of its output, and an error of `poll`, `read` or
`write_all`. The last is within reach: `begin_live_input` makes the terminal
non-blocking, for the output too where both are the same description, and
`write_all` then gives up with EAGAIN. All of them lead to a `waitpid` without a
limit.

`SteeringQueue` is what the ring promises. It has a queue, the line being
typed, and three phases: at the prompt, listening (during a request or a
command), working. The line is handed over when listening ends
(`HandOver`) and put at the end of the queue if there is room, and only then
refused; `Type` may confirm an empty line; `Take` removes the oldest;
`Clear` is for the prompt only; nothing else changes the queue. `Agent` maps its
ring to the queue (`Queued`, the slots from the read index on), `live` to the line
and `pc` to the phase (`Phase`), and `SteeringIsQueue` is the refinement. (A line that
is confirmed stays in `live_input.line`, with its newline, until listening ends;
only an empty one is queued at once.)

### nq

`Nq`: `st[j]` is where invocation `j` is; `visible` and `locked` are the
directory. A look at the directory is a step for each file, so files come and
go in the middle of it; a file that comes during a look may be met or not. The
clock ticks at any time, and stamps may be equal: then the PID decides, as the
names are compared as strings. A job takes its stamp, forks twice, and only
then puts its file there. The command has the locked descriptor as its standard
output and error, and so have the processes it starts: `Ends` is the end of the
command alone and may leave the lock, `Release` the close of the last of these
descriptors, which may also come before the end. `Collect` is the process that
has waited for the command, and takes the file away, locked or not. (`Unblock`
lets a job whose awaited file was taken away go on at once; in the code it does
so if it had not opened the file yet, and waits for the release otherwise.)

### What is abstracted in `Dwm`

- Geometry, stacking order, the bar and pointer warps are not there: nothing
  that is modelled reads them. Where the code depends on them -- the monitor
  under the pointer, the client under it, whether the layout tiles, the value
  of `nmaster`, whether size hints fix the size -- every value is possible.
- `nmaster` comes from the constant `NMaster`; it is a setting of pertag, and
  a handler reads it at most once.
- A client address is the identity of a client. Freed fields get one fixed
  value: no action reads them while `c` is not in `live`, except through
  `mark`, which sets `ok` to FALSE.
- Bits of `tags` outside `TAGMASK` are all one bit, `NTags`: the code masks
  them, tests their presence, or (`shiftviewclients`) may end a search on
  them anywhere.
- The class of a window, its hints, the rules that match, the properties it
  changes and the moment at which other programs act are inputs.
- `placemouse` places again only when the client under the pointer or the half
  of it has changed; this is geometry, so any motion may place.
- `destroynotify` stands for `UnmapNotify` as well: both call `unmanage`; the
  difference is in requests to the server.

## 3. The runs

For `Dwm`: two or three clients, one to three monitors, one to three tags.
Three clients are enough for a first, a middle and a last element of a list,
and for a client that takes no part in what two others do. Two monitors are
enough to move between and to leave one; three are used where heads disappear,
so that two go at once. With two tags, a tag in view and another one, the
last tag, which `detach` treats differently, and the first, which it does not,
are all there; `tags` has a third, since a client may carry two tags and
another one, and it has two clients, as no command on tags looks at the order
of more. `flags` binds no key of tags, and one tag is enough to have
clients in view and out of it (`_NET_WM_DESKTOP`). Clients are symmetric (`Permutations(Client)`) except in runs
with a liveness property or a tag number to compare. The number of clients
is the only bound of the state; there is no depth limit.

The hints a new window may have: floating and declining the focus in `lists`,
declining in `heads`, all four in `flags`, none in `tags` and in `mouse`. With
declining clients `mouse` has more than two million states; the theorems
cover it. The marks of `focusmaster` multiply the states in the same way, and are
in `lists` only.

For `Pertag`: three tags, so that a view of two is neither one nor all; two
layouts; one master at most. Nothing else is bounded.

For `Layouts`: a screen of 1920 by 600 or 1080, the sizes of `config.def.h`, up
to twelve windows (as many as a grid of 4 by 4 with empty cells, and more than
`tile` has room for at 600), up to four masters, every gap from 0 to 50 that
the keys reach by steps of 5, the factors 5 and 95 percent of the keys, 0 and 130 of
the pointer (a part with nothing in it, a part outside), the defaults, `smfact` 0
and 90. These are some 286 000 states. On smaller window areas the properties
fail (section 5).

For `Session`: two programs in the array, so that a call can be between the two
when a signal begins another, and two numbers, so that a number passes from one
program to the other, to a program started by a key, or to a stranger.

For `Agent`: a conversation of six messages (two of the system, a prompt, a
response with two calls, their results), so that each step of a tool round can
be the one that finds it full; a ring of two lines; lengths 0 and 1 and room
for 3, so that two lines fit and three do not; three tool rounds.

For `Nq`: three invocations, one in front of, one behind and one beside a
third, and a clock of two values, so that two stamps are equal and one is not.

`pertag` and `layouts` never stop, and their deadlock is checked. The other
runs have `CHECK_DEADLOCK FALSE`, since they do stop: an instance that binds few
handlers may have nothing left to do, nothing is enabled after `ok` is FALSE,
the agent exits, and jobs are done.

| Run | Instance | What it shows |
|---|---|---|
| `lists` | 3 clients, 2 monitors, `attachmode` aside, `nmaster` 1 or 2 | Mapping, destroying, clicking, every way to move the focus, `zoom`, `tagmon`, `tagswapmon`, `togglefloating`: lists well formed (`WellFormed`) and equal as sets (`ListsAgree`); the selected client is the most recent one visible (`FocusIsTop`), alone has the border (`LitIsFocus`) and has the keyboard unless it declines it (`XFocusIsSel`); marks point to clients of their monitor (`MarksLive`); no bad pointer (`NoCrash`); `focusstack` goes round all that is shown and back (`FocusCycle`); the focus history of those that take no part is kept (`HistoryKept`); a new window leaves the master area alone when it is full (`AsideKeepsMaster`) |
| `tags` | 2 clients, 1 monitor, 3 tags, a rule with the last tag | Every command on tags and views. No view and no client is without tags (`NothingUnreachable`), the selected client is the most recent one in view, `shiftviewclients` stops where something is shown (`ShiftShows`), `swaptag` keeps what is in view, but for a client with both tags and a third (`SwapKeepsView`) |
| `flags` | 2 clients, 1 monitor, 1 tag, all hints, fairness | floating, fullscreen, sticky from hints, keys, messages in any order, while other programs take the focus, ask to be active or for a desktop. A fullscreen client floats (`FullFloats`); a window that was given the keyboard by somebody else does not keep it from a selected client that wants it (`FocusRegained`), while clients decline the focus and change their mind |
| `heads` | 3 clients, 1 to 3 monitors | Plug and unplug in any order among the other commands: nobody is lost, nobody stays on a monitor that is gone |
| `mouse` | 3 clients, 2 monitors, a rule with the last tag | The three mouse functions, windows mapped during the drag, any motion, any end, and between the drags `rotatestack` and `_NET_ACTIVE_WINDOW`: the client held stays managed (`HeldLive`), and the focus is right after the release, even where `rotatestack` has lost a client from `clients` |
| `pertag` | 3 tags, 2 layouts | From `setdeflayouts` through every command: the layouts in effect are those kept for `curtag` (`LayoutApplied`), although `rotatetags` and `swaptag` leave `curtag` outside the view; another view and back restores view and layouts (`ThereAndBack`) |
| `layouts` | up to 12 windows, 2 heights, all gaps, factors of the keys and the pointer | Where both parts of the split have room for a window (`HasRoom`), no place is outside the window area (`InArea`) and two places overlap only on the piles of the decks (`NoOverlap`). No unsigned difference is negative unless the first is, and a grid divides by no 0 and is short of cells only where the screen limits its rows or columns (`NoWrap`) |
| `session` | 2 programs, 2 numbers of processes, fairness | No program of `autostart` runs twice and none is left behind by a dwm that has returned (`NoneLeft`), whatever calls of `quit` are nested in one another; a key that quits ends dwm (`QuitEnds`) |
| `agent` | 6 messages, ring of 2, fairness | When a request is sent each call in the conversation is followed by exactly its results (`CallsAnswered`); a command runs with the human's word or in full access (`HumanFirst`); nobody changes the conversation while the request thread may read it (`OneOwner`); system messages stay until `/new` (`SystemKept`); the human gets the turn back (`TurnReturns`), but for a request that nobody reads and a command that outlives the loop of `run_command`; what was typed is queued, refused only when the ring is full, and taken once and in order (`SteeringIsQueue`) |
| `nq` | 3 invocations, clock 0 to 1, fairness | A job runs, and `-w` and `-t` succeed, only when of every older file of the last look the command was started or cancelled before, and the file is gone or unlocked (`OlderFinished`), whatever is killed, left running with the lock, or taken away; nobody waits forever (`EveryJobRuns`) |
| `bug_rotate`, `bug_nq` | the smallest | The disagreements of section 5 |

`FocusIsTop`, `LitIsFocus` and `XFocusIsSel` speak of states between two
handlers of the main loop (`Idle`): in the middle of a drag `placemouse` has
moved `selmon` and given nobody the focus, by design.

Fairness. `FairSpec` of `Dwm` adds `WF_vars(focusin(c))` for each client and
nothing else. The X server sends FocusIn to the window manager when the focus has
gone to a client, and `run` takes every event off the queue in order and calls
its handler; the handler has no condition but the event. An event that is on the
queue is therefore handled, which is what weak fairness says. No
fairness is assumed of users or of other programs. (`FocusRegained` asks that
the selected client wants the keyboard. When a client that
declined it changes its mind, dwm gives it the keyboard with the next `focus` or
FocusIn only.)

`FairSpec` of `Agent` has weak fairness of the main thread, which runs on
whenever what it waits for is there, and of `WorkerDone` while the answer is
read: each wait in `receive_response` ends after `api_timeout` seconds. The
request is different: after connecting the socket blocks (ai.c:1213), and
`write_all` (ai.c:1290) has no timeout. `TurnReturns` therefore excepts `Unread`, a
request that the endpoint does not read: until the human interrupts it, and even
then if it is made without a thread. And it excepts `Outlives`, a command
that lives on when `run_command` has left its loop. `command_timeout` is in the
guard of `CommandEnds`; it is assumed that SIGKILL at the deadline takes
the command (it stays in its process group), and that writing to the terminal
either succeeds or fails. Nothing is assumed of the human, of the endpoint or of
the command.

`FairSpec` of `Session` has weak fairness of the main thread, of `quit`, and of
the end of a process that got SIGTERM: a program that ignores it blocks dwm
for ever. Events are not fair, so `QuitEnds` speaks of the keys only; and it
asks that signals do not come for ever, since each could interrupt the wait
of the one before.

`FairSpec` of `Nq` has weak fairness of each process on its way (the kernel
schedules it, and `flock` returns when the lock is free), of `Ends`, and of
`Release` once the command has ended: jobs end, with all they have started. That
a running command closes its output early is not fair; nor are starting, killing
and collecting.

## 4. The proofs

`tlapm` checks every step of the eight modules of proofs, with no theorem left
unproved. TLC evaluates all the assumptions on constants in its runs.

### dwm: clients

For every finite or infinite
`Client`, any number of monitors and tags and each `AttachMode`. The proofs assume
only the named assumptions on the constants: `NULL` is no client
(`NullAssumption`), there is at least one monitor and one tag
(`MaxMonAssumption`, `NTagsAssumption`), `attachmode` and `viewontag` have
values of their types, heads are numbers of monitors (`HeadsAssumption`), tags of
rules are non-empty sets of tags, hints are the four modelled, `nmaster` is a
natural number.

| Theorem (`DwmProofs`) | Property | For a dwm |
|---|---|---|
| `TypeCorrect` | `TypeOK` | any |
| `ListsWellFormed` | `WellFormed`: no list loops, leaves its monitor, holds freed memory, or a client the stack does not have; the selected client is in its stack | any |
| `HeldStaysManaged` | `HeldLive`: the client of a drag is managed until the release | any |
| `MarksStayLive` | `MarksLive`: a mark is cleared before its client goes | any |
| `FullscreenFloats` | `FullFloats` | any |
| `ListsAlwaysAgree` | `ListsAgree`: both lists hold the same clients | without `rotatestack` |
| `MonitorsAlwaysExist` | `MonitorsExist`: nobody stays on a monitor that is gone | without `rotatestack` or without `focusmaster` |
| `FocusAlwaysOnTop` | `FocusIsTop`: the selected client is the most recent one in view | in which nothing becomes sticky or is sent to a desktop |
| `BorderFollowsFocus` | `LitIsFocus` | without `_NET_ACTIVE_WINDOW`, mouse functions and hotplug |
| `KeyboardFollowsFocus` | `XFocusIsSel`: the keyboard is with the selected client unless it declines it, with the root if there is none | beside which no program takes the focus and no client changes its `WM_HINTS` |
| `AllReachable` | `NothingUnreachable`: no view and no client without a tag | without desktop numbers from pagers |
| `ViewSwapsWhole`, `ShiftsToClients` | the action properties `SwapKeepsView`, `ShiftShows` | without desktop numbers from pagers |
| `FocusAlwaysCycles` | `FocusCycle`: `focusstack` goes to every visible client once and back | any |
| `HistoryAlwaysKept` | the action property `HistoryKept`: no step lets a client pass another one in the focus history, but the one selected in the end | any |
| `AsideAlwaysKeepsMaster` | the action property `AsideKeepsMaster`: a new window does not become the master of a view that has its masters | with `attachmode` aside and no rule that gives tags |
| `NeverCrashes` | `NoCrash` | with `viewontag`, without `rotatestack`, `focusmaster`, `focussame` and the keys that read `sel` on an empty view |

The last column is the theorem's hypothesis on `Bound` (and `ViewOnTag`, which
is 1 in `config.def.h`). These are not conditions of the proof but of the code:
with any one of the excluded keys or requests TLC finds the property violated
with two clients (three for `MonitorsExist`), and section 5 names the lines.
Three remarks. `focussame`
needs company: it crashes where a client can be sticky or be sent to a desktop.
A rule that gives a window tags makes `attachx` count the tiled clients with
those tags where it should count those in view, so that the new window may
become the master after all.
And `MonitorsExist` takes both keys to break: the client that `rotatestack`
loses vanishes together with the stack of its monitor, but the mark of the last
tag may still name it, and `focusmaster` follows that mark to the monitor that
is gone. TLC shows it with three clients and two monitors; with either key alone
the theorem holds.

The inductive invariant is

    Inv(s)   == Sound(s) /\ (s.grab # "none" => held is live and in its place)
                         /\ (s.grab # "place" => Settled(s))
    Sound(s) == ListsSound(s) /\ Flagged(s) /\ Home(s) /\ LitOnly(s) /\ Unhurt(s)

| Part | Says | Is needed because |
|---|---|---|
| `ListsSound` | types, `ListsWF`, marks in their stack | every function walks a list; `focusmaster` follows a mark |
| `Flagged` | fullscreen floats and is managed; no view is empty; no client without a tag | `LowBit` of a view, `toggletag` and `swaptag`, which count on a tag being left |
| `Home` | `selmon` and the monitor of every client in a `stack` exist, unless both `rotatestack` and `focusmaster` are bound (`Rooted`); without `rotatestack`, each client is also in the list of its monitor (`Placed`) | `attachx` and `focusstack` look for the selected client in the list until they meet it, and the loss of a head moves what is in the list |
| `LitOnly` | nobody but the selected client is lit | `focus` dims the border of `selmon->sel` and of no other |
| `Unhurt` | no bad pointer so far | |
| `Settled` | selected, head of the stack, first of the visible, lit: one client, and it has the keyboard or declines it (`HasKeyboard`) | what `focus(NULL)` at the end of a handler brings about, and what a handler without it must not disturb; only `placemouse` leaves it for a while |

None of the properties is inductive by itself. `WellFormed` needs the types (a
`LinkAt` outside a list is no list) and the client of a drag, which
`placemouse` links again. `NothingUnreachable` needs all views, also those that
`seltags` does not show and those of monitors that are not there yet.
`LitIsFocus` is lost in the middle of nearly every handler; what survives is
`LitOnly`, and equality returns with `Settled`. `HeldLive` does not depend on
`ListsAgree`: the client was found in a list when the drag began, and the loops
of the mouse functions dispatch no `DestroyNotify` and no key, `rotatestack`
included; the mutant `FaultDestroynotify` is the code with that changed.

How the argument goes:

1. `ClientListsProofs` says what each list operator returns: what its range
   is, that it repeats no client (`Distinct`), which client is its first visible
   one. Those about the operators of the community modules are proved from their
   definitions.
2. `DwmStateProofs` has a lemma for each internal function. Many of them break
   `ListsWF` in the middle, so the intermediate states have names: `Unlisted`
   (`c` is in no stack: after `Unlink`, before `Link`), `Entering` (`c` may be
   in the list `clients` and is not yet in the stack), `Linked` (what `attachx`
   may do in any mode). `FocusSound` is the central one: from any state with
   sound lists `focus` changes nothing but stacks, selection, light and keyboard
   (`Refocuses`), and ends with the four in step (`Top`). Two relations carry
   the rest: `Keeps(s, t)`, the state stays sound and nobody is allocated or
   freed, for a function in the middle of a handler; `Handles(s, t)`, which adds
   that a settled state is settled again, for a whole one. Both compose.
3. `DwmProofs` composes them: a lemma for each handler, one for each kind of
   event, `NextInv`, which splits `Next`, and the theorems. `configurenotify`,
   `tagswapmon` and `placemouse` are the long ones: they move clients without
   calling the functions of `DwmState`.
4. That the order of a history is kept (`HistoryKept`) is carried by the same
   lemmas. `SameOrder(q, r, S)` compares two stacks, for the clients of S that are
   in both. It is stated of a function that only links and unlinks
   (`StacksKept`), of a `focus` (`OnlyTop`: nobody has moved but the client now
   selected), of a `focus(NULL)` (`FirstToTop`: and, seen from the visible
   clients, not even that one), and of a handler (`OrderKept`, for the clients
   of a monitor with the same tags, sticky or not, which dwm shows and hides
   together). Two clients that are not alike may pass one another, as `focus`
   brings a visible one before a hidden one. A handler with two `focus` in it
   is the difficult case: what the first one raised must be what the second one
   raises, or have passed none of its like (`TwoMoves`). For `tag` with the view
   that follows, `RetagMoves` needs that the selected client was the head of its
   stack before, which is why `Settled` says so.
5. For `AsideKeepsMaster`: `attachx` puts the new client where the `nmaster`-th of
   those it counts is before it, and an insertion behind the first tiled one
   does not change which one is first (`AttachXAside`, `ManageAside`). That it
   counts the right ones needs the tags of the new client to be the view.
6. For `FocusCycle`: the visible clients of the list, in its order, are a
   `Listing`, and one press goes from the k-th to the one that follows in the
   ring, or precedes (`FocusStackTurns`). That n presses meet all n, each once, is
   arithmetic modulo n, and that the state after i presses is still `Turning`
   is an induction over i, by the least i for which it fails.
7. `Unplug` goes through the monitors with a recursive function. The induction
   theorems of the library take an operator and are out of the prover's reach,
   so its lemma takes the least number of monitors dropped after which the
   invariant fails, and refutes it.

### AI agent

For every size of the conversation (at least three messages), of the ring, of
a command and of a response, and every limit on rounds.

| Theorem | States |
|---|---|
| `AgentCallsAnswered` | `Spec => []CallsAnswered` |
| `AgentHumanFirst`, `AgentOneOwner` | `Spec => []HumanFirst`, `Spec => OneOwner` |
| `AgentSystemKept` | `Spec => SystemKept`: no step but `/new` makes the system messages fewer |
| `SteeringRefines` | `Spec => SteeringIsQueue`: the agent implements `SteeringQueue`. What is typed when listening ends is queued and refused only when the ring is full, lines come out once and in order, only the prompt clears |
| `AgentTypes`, `AgentInvariant`, `SteeringInvariant` | what these rest on |

`CallsAnswered` speaks of four places of the main thread; in the middle of a
tool round it is false. `AgentInv` says how far it is: `Owed` results are
outstanding, and `InOrder(messages, Owed)` has two cases for a response in the
conversation -- answered, with something after it that is not a result, or the
last one, with all but `Owed` of its results behind it. `drop_oldest_message` may take the
response itself while results are owed; then nothing is pending and the results
that still come belong to nobody, which `Answered` must survive. `DropTalk` is
that lemma, and the one that needs "the oldest": a message dropped from the
middle of a response's results would break it (the mutant `FaultDrop`).

`SystemKept` counts messages. The proof does not: it gives an injection from the
positions of the system messages before the step to those after it. Appending
keeps the positions; `drop_oldest_message` takes out a message that is not the
system's and moves what follows.

The refinement has its own invariant. When the two indices are equal, the ring
is full or empty, and the slot at the read index tells: `RingInv` says that the
slots with a line are exactly those from the read index to the write index,
round the end of the array. `QueueLineIs` and `TakeLineIs` are the two
commuting squares, by cases on where the indices wrap. A step that does not touch
the ring (`RingAlone`) must be one the abstract queue allows in its phase.

### pertag

For any number of tags (at least two) and layouts. `PertagLayouts` and
`PertagThereAndBack` state `LayoutApplied` and `ThereAndBack`. The invariant is
`LayoutApplied` with the types: `setlayout` computes the slot from
`pertag->sellts` and writes both copies, so they agree afterwards only if they
did before; and `view` back must find in `kept` what it left in `now`.

### dwm: layouts

For any number of windows and masters, whole numbers for factors, any gap up to
`maxgappx`, gaps and bar on or off, on a screen that is large enough. `Roomy` says
how large:

- along each side of the window area there is room for the masters with the
  largest gap between them, each at least as high as the bar with its border
  (`least`);
- `MaxWindows` windows fit side by side;
- one cell of grid fits between two of the largest gaps, and no cell is
  smaller than a window.

The constants of the run `layouts`, with heights of 600 and 1080, satisfy `Roomy`.
What no screen gives is in the properties themselves: a split has room for its
two parts (`RoomToSplit`), which a factor set with the pointer need not leave,
and what `smfact` reserves leaves the first gap (`RoomBehind`), which the
largest gap does not on a low screen. Section 5 names what the layouts do
elsewhere.

| Theorem (`LayoutsProofs`) | States |
|---|---|
| `WindowsStayInArea` | `Roomy => (Spec => []InArea)` |
| `WindowsNeverOverlap` | `Roomy => (Spec => []NoOverlap)` |
| `NothingWraps` | `Roomy => (Spec => []NoWrap)` |

The invariant is small, the settings have their types (`SettingsTyped`). The
work is in what each layout computes from them, and `LaidOut(q, n, w, h, piles)` is
what all of them promise: n places, those with room inside an area of w by h, and
apart or, where the layout piles windows up, the same. `MirrorIs` exchanges the
axes, so that `bstack` with gaps and `zetadeck` follow from `tile` and
`doubledeck`. That no difference wraps must hold for every factor, also where the
places overlap, and has its own induction over the loop (`Falling`,
`FallingStep`, `TileLow`), which does not look at widths.

- `tile` is a loop, and `Tiling` its invariant: what is placed so far is
  inside its column and above `my` or `ty`, and below there is room for as many
  masters as are to come (`Need`) or for what `smfact` reserves. `Share` is the
  arithmetic: of a length of k times c a k-th is at least c, and what is left is at least
  k - 1 times c. A window for which there is no room is put where the last
  master is, with `fits` FALSE.
- `bstack` without gaps is a second loop for the masters (`Row`) and a
  multiplication for the others (`OthersRow`).
- `grid` wants enough cells (`GridIs`, from the least square that is not less); the
  cells of a side do not overlap whoever takes the rest (`CellsAre`), and two
  windows with cells differ in their column or, there, in their row (`CellsDiffer`).

### dwm: start and end

For any array and any set of numbers. `SessionNoneLeft` states `NoneLeft`. That an
entry of the array is the number of its program is false, as programs end and
numbers are used again; what holds is the converse, `Recorded`: a program that
lives has its number in its entry. So a call that has passed an entry has waited
for its program (`Waited`, for each of the nested calls), and `running` is
cleared only when none lives (`Stopped`).

### nq

For any set of PIDs and any clock. `NqOlderFinished` states `OlderFinished`.
Its invariant says why a second look suffices: a queued job holds its lock
until it runs, and a locked file is that of a job that was published
(`LockedLives`); what was met is still there or its job was collected
(`MetPublished`); and nobody locks a published file again, so what a look has found
free stays free (`ScanFree`). That the lock may outlive the command, and the file
vanish under it, is why a file that was met locked is followed by a second look and
why `OlderFinished` speaks of the files that are still there.

### Model-checked only

Every state invariant of the runs is proved, and every action property.
`FocusRegained`, `TurnReturns`, `EveryJobRuns` and `QuitEnds` are liveness under
fairness, which the prover does not do: they are checked on the small
instances. So are the hypotheses: that a theorem about dwm needs the keys it
excludes to be unbound is what TLC shows when they are bound.

## 5. Where code and documentation disagree

Two are runs; the text each contradicts is quoted in `PROJECT.json`.

| Run | Property | The code |
|---|---|---|
| `bug_rotate` | `ListsAgree` | `enqueue` (dwm.c:1119) appends only to a list with a last element. `rotatestack(-1)` calls it after `detach`. The only client of a monitor is then in no list `clients`: it has the focus and is not found by its window any more, so it is neither tiled nor unmanaged |
| `bug_nq` | `Exclusive` | The time stamp is taken at nq.c:136, the file appears at nq.c:314, and the caller of the first nq is back in between. A second nq finds nothing to wait for and runs; the first one looks only for smaller names and runs too |

The others were met while modelling and are not runs.

dwm:

- `_NET_ACTIVE_WINDOW` (dwm.c:715), the ends of the drags and
  `configurenotify` change `selmon` without `unfocus`: two windows have the
  border of the focused one. (`LitIsFocus` is checked where they are not bound.)
- `swapfocus` and `focussame` (dwm.c:2804) do not test `lockfullscreen`;
  `config.def.h:89` says it "will force focus on the fullscreen window".
  `focussame` looks at the first 32 clients of the class only (dwm.c:1165).
- `setfocus` (dwm.c:2381) leaves the keyboard where it is when the client
  selected declines it: with the client selected before, which may be hidden by
  then, and what is typed goes there. `updatewmhints` (dwm.c:3571) does not call
  `setfocus`: a client that begins to accept the keyboard gets it with the next
  `focus`, and one that begins to decline keeps it.
- `_NET_WM_DESKTOP` (dwm.c:721) uses the desktop's number as a bit mask: number
  0 leaves the client without a tag.
- `swaptag` (dwm.c:2833) flips both bits of every client that has one of the two
  tags. A client that carries both and a third loses both and is out of view
  (`SwapKeepsView` excepts it); one that carries exactly the two keeps one of them.
- `incnmaster` (dwm.c:1435) and other keys read `selmon->sel` on an empty view.
- `dwm.1:166` says that dragging a tiled window makes it floating;
  `moveorplace` calls `placemouse`, which keeps it tiled. `dwm.1` says the same
  of resizing, and `resizemouse` changes the width of the master area.
- `resetnmaster` (dwm.c:2032) does not store the number in pertag: the next
  view forgets it. `rotatetags`, `swaptag` and `view(0)` can leave `curtag`
  outside the view, so what is then set is kept for a tag that is not shown.
- `grid` (dwm.c:1671) limits rows and columns to what fits. With no room for
  one row `rows` is 0 and `i / rows` traps; with room for fewer cells than
  windows the rest are put outside the area and pulled back over others: 480 pixels
  high and ten windows, or 600 pixels and twelve windows when the gap was widened
  to 50, which leaves three rows and three columns.
- `resizemouse` (dwm.c:2138, 2144, 2150) sets `dmfact`, `zmfact` and `mfact` from the
  pointer without a limit, where `config.def.h:79` says "[0.05..0.95]" and `setmfact`
  keeps to it. With the pointer near or past the edge a part of the split is
  smaller than a window, and the windows overlap or leave the area.
- With a window area lower than some 480 pixels, or a wide gap, a factor of 5
  percent is less than the height of the bar, which is the least size `resize`
  gives, and the windows of `bstack` and `zetadeck` overlap. Where `wh` is less than
  `mh * smfact` and the gap the unsigned difference in `tile` (dwm.c:2972) wraps
  round: 600 pixels with the bar, gap 50 and `smfact` 0.9 are enough. With `nmaster`
  0, the windows that do not fit are put into the corner at the size of the bar.
- `quit` (dwm.c:1994) sends SIGTERM to the numbers it has kept. A program of
  `autostart` that has ended by itself leaves its number there, and the process
  that got it since is told to end; if it is a child of dwm (a program started by
  a key), `quit` waits for it too. The comment says "kill child processes".
- `sighup` and `sigterm` clear `running`, and `run` (dwm.c:2288) looks at it after
  the next event only: a dwm that gets SIGTERM while nothing happens stays.
  After SIGHUP `restart` stays set, and a SIGTERM that follows restarts dwm.
  `dwm.1:182` says of SIGTERM "Cleanly terminate the dwm process".

AI agent:

- `interrupted` is reset only by `run_command` (ai.c:1535). After an
  interrupted request it stays set, and every later request is cancelled after
  its first second until a command runs.
- `post_execution_steer` asks nothing in full access; README.md:78 says that a
  steer/continue prompt still appears after every command.
- README.md:88 says that steering typed during a request is sent before the next
  one; when the request fails, it stays in the ring past the next request.
- When a response is dropped from a full conversation its results stay, without
  a call (`CallsAnswered` allows it).
- Two lines of steering that are longer than `MAX_COMMAND` together end the
  program, as a malformed response does.
- A command that closes its output and lives on blocks `waitpid` (ai.c:1620)
  without a limit; `TODO/enable-thread.md` says that waits use bounded polling
  and remain interruptible. The same `waitpid` follows when `poll`, `read` or
  `write_all` fails (ai.c:1579, 1602, 1587) while the command runs: a full terminal
  that `begin_live_input` made non-blocking is enough.
- The request is written to a blocking socket without a timeout (ai.c:1213,
  1290): an endpoint that accepts and does not read holds the request thread, and,
  when no thread could be made, the program.

nq:

- The lock of a job is held by everything its command has started. With `-c`,
  `NQDONEDIR` or `NQFAILDIR` the file is taken away when the command itself has
  ended (nq.c:264-281), and what it left running is not waited for by later jobs.

## 6. Plan

Done: the core of dwm with its inductive invariant and theorems for the state
and action properties, with clients that decline the keyboard; pertag; the layouts
with gaps and factors from keys and pointer, and their arithmetic; start and end;
the agent with its refinement; nq with locks that outlive their command. What
could follow:

1. Exclusive execution of nq under the assumption that a file appears before
   the next stamp is taken.
2. `Pertag` composed with `Dwm`: then `nmaster` and "the layout tiles" are no
   longer free there.
3. `resize` in `Dwm`, with what `maximize` and `setfullscreen` save.

## 7. Not modelled

- dwm: the geometry of single windows (`maximize`, `moveclient`, the mouse's
  resizing, size hints), the bar and drawing, the queue of X events. The first two
  are data the modelled logic does not read, and the queue is a property of the X server; a handler is modelled for any window at
  any time instead.
- The programs under `src/tools` other than the agent and nq, and cwm under `src/src`, are programs of
  third parties that the installer builds: screen, nnn, zathura, elvis,
  MicroEMACS, cscope, dvtm, less, dmenu, abduco, autossh, slock, xcompmgr and
  others. They are by far the largest part of the repository (some 400 000 lines
  against 4 000 of dwm), each is a system of its own that the desktop does not
  depend on, and most of their code is terminal output, parsing and text. A
  share of them would say nothing about the desktop. For the same reason the
  map covers a small share of all lines and nearly all functions of `dwm.c` that
  hold state.
- `dwmstatus` and the scripts: loops of input and output, and files.
