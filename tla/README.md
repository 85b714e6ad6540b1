# A verification of Ambient in TLA+

Ambient is the desktop of MorphOS: about 155 000 lines of C at the top level of
`src/`, of which a good half are MUI classes. It is one main task, which owns
the user interface, a pool of threads, which do everything that may take long,
and libraries (`wblib/`, `wbstartlib.c`) that run in the tasks of other
programs and talk to the main task. This directory models the parts where these
tasks meet, checks them with TLC and proves theorems about them with TLAPS.

The build modelled is that of `config.h`: `USE_THREADPOOL` 0 (`threads.c`, not
`threads_tp.c`), `USE_ASYNC_PUSHMETHOD` 1, `ENABLE_METHODSTACK_PUSHSYNCSAFE` 1,
`USE_DOSNOTIFY` 1, `USE_WBSTARTLIB` 1.

## The parts of the system

| Component | State | Operations | What is hard |
|---|---|---|---|
| Method stack (`methodstack.c`, loop of `main.c`) | the list of pushed methods, references on objects, signal CTRL_E | push, push_sync, push_sync_safe, kill_methods, check | pushes by many tasks; dispatch nested in dispatch; lost wakeups; objects that go away |
| Thread pool (`threads.c`) | threadlist, node states, signalthreadlist, threadport | do_action, abort, wait/signal, reclaim, finish, handle | aborts that cross the end of a job; nodes that are reused; quitting |
| Navigation (`history.c`, `toolbarclass.c`, `windowclass.c`) | list of nodes, position, size, lock; the place shown | back, forward, new path, load, reload | loads overlap, fail, and end in any order |
| AppIcons (`wblib/appicon.c`, `appicon.c`, `ipc.c`, `appmessage.c`) | shared list under the semaphore "Ambient IPC", three flags per entry, memory pools | AddAppIconA, RemoveAppIcon, synchronize, mark as loaded, send AppMessage | three tasks use one block of memory; signals sent after the lock is released |
| IPC messages (`ipc.c`, `wblib/private.c`, `wblib/control.c`) | port "Ambient IPC" | new path, clone path, icon properties, window count | who replies, and when; the end of Ambient |
| Starting programs (`wbstart.c`, `wbstartlib.c`) | running programs, their messages and locks | run, get properties, reply, preclose | counter shared by tasks; failures after half of the work |
| Notification (`notify.c`, `dosnotify.c`) | contexts with semaphores, registered patterns, DOS notifications | register, delete, action, handle | a semaphore held during a synchronous push |
| Cache (`cache.c`, `imagecache.c`), DOS list cache (`doslistcache.c`) | nodes with stamps and locks; copies of the DosList | find, add, delete unused, low-memory handler; rescan | freeing from within an allocation; try-lock with retries |
| Storage (`storage.c`) | settings in memory, a pending commit | get, set, delete, commit | 10 seconds between change and commit |
| Update lists (`updatelist.c`) | what has changed since begin | begin, add, end | nesting |
| Copy, move, delete (`movelist.c`, `movedir.c`, `movefile.c`, `fastcopy.c`, `recurse.c`, `fileaction.c`, `deletedir.c`, ...) | the job's place in the tree, the answers meant for all files, CTRL_D | move or copy a list, delete a list | prompts in the middle, aborts, failures halfway; results passed through five functions |
| Requesters (`smartreq.c`) | the window, its queue, the request shown, a put-off answer | ask, enqueue, change, press, compare two files | threads block on ports on their stacks; an answer waits for a thread |
| List views (`listviewclass.c`, `scandir.c`, `exdir.c`) | entries, busy marks, a put-off directory and mode | load, scan, abort, notify, set mode, close | a second request while the first is being aborted; methods nested in methods |
| AppWindows (`appwindow.c`, `wblib/appwindow.c`) | list under a semaphore | add, remove, obtain | as AppIcons |
| User interface classes, formats, graphics, ARexx, MIME types, panels | layout, pixels, databases | - | mostly no concurrency |

How they interact: a thread does what `do_action` sent it, and reaches the user
interface through the method stack only. The end of a job comes back through
`threadport` to `threads_handle`, which calls `MM_Thread_Finished` of the job's
object *by a synchronous push of the main task itself*; that call drains the
method stack, so any pushed method may run nested in it and may call
`do_action` or `threads_abort` again. The history is driven by such ends of
jobs (`TA_URI_Load`), the AppIcons by such ends (`TA_Appicon_Read`), by signals
of other programs and by the pushes of the thread that reads an icon. A list
view goes on to the next directory when the last of its threads has ended. A
file job asks through the requesters, is stopped by a signal of the progress
window, and tells every list that shows one of its directories, by a synchronous
push, of each file it has made or deleted.

What makes each part correct, in short: *method stack* - every call is carried
out once, in the caller's order, answered once, and its object lives that long;
the main task does not sleep over work. *Pool* - a node is reused only when its
job is over, aborts are answered, quitting ends. *Navigation* - position, size
and list agree; the current node is what is shown; back and forward are what a
user thinks they are. *AppIcons* - no memory is freed while somebody uses it;
every icon appears and goes. *File jobs* - no file is lost, what the user refuses
is not done, what he stops stops. *Requesters* - each request is answered, by
its own button. *List views* - what was asked for is shown, and nothing of
another directory. *IPC, programs* - every request is replied once.
*Notification, caches* - no deadlock, nothing used after it was freed.
*Storage* - what was set is read back, and committed.

## Modules

| Module | What it is |
|---|---|
| `CallService` | abstract: what pushing methods promises its callers |
| `MethodStack` | `methodstack.c` and the loop that drives it; refines `CallService` |
| `ThreadPool` | `threads.c` |
| `Browsing` | abstract: the trails behind and ahead of the place shown |
| `Navigation` | history, toolbar, window; refines `Browsing` |
| `AppIcons` | workbench.library's AppIcons and Ambient's side of them |
| `FileJobs` | a job that copies, moves or deletes a list of paths |
| `SmartReq` | the requesters and those who ask |
| `ListView` | a list view, its threads, a file job that tells it of its files |
| `Programs` | starting programs, and the messages other programs send for it |
| `MethodStackProofs`, `ThreadPoolProofs`, `NavigationProofs`, `AppIconsProofs`, `FileJobsProofs`, `SmartReqProofs`, `ListViewProofs`, `ProgramsProofs` | theorems |
| `MCMethodStack`, `MCThreadPool`, `MCNavigation`, `MCAppIcons`, `MCFileJobs`, `MCSmartReq`, `MCListView`, `MCPrograms` | model values and symmetry for TLC |

Operators whose comment begins with "Mutant of" are not part of a
specification. Each one is a plausible bug in the operator it names, and is
there to show that a property notices it.

### MethodStack

A step is a critical section under `mssem`, or what lies between two of them:
`SyncRetain`, `SyncEnqueue`, `SyncSignal`, `SyncReturn` are the four parts of
`methodstack_push_sync` in a thread. The main task is `mpc`, its place in
`doloop`, and `stack`, the calls active on it: `methodstack_check` with the
method it has taken off (`check`), a method's own code (`method`), the rest of
`methodstack_push_sync` on the main task (`sync`), `threads_handle` (`finish`).
So a method that pushes synchronously, on the main task, has a nested
`methodstack_check(TRUE)` above its own frame, as in the C stack.

What methods do is not known to this component, and is therefore free: they
push, push synchronously, dispose of objects, kill methods (`MaxActs` such
steps). References are counted as `OM_RETAIN`/`OM_RELEASE` count them.
`methodstack_push` is allowed to objects that are alive, which is what its
callers assure. Of a call the model keeps caller, number, object and whether it
is synchronous. A method whose allocation fails in `methodstack_push` is not on
the list and changes nothing, so it is a call never made; in
`methodstack_push_sync_safe` the failure is modelled, because it hangs.

`threads_handle` is here one synchronous push per ended job: the rest of it
(aborts, nodes) is in `ThreadPool`. Prompting jobs (`JobSleeps`) are those of
`movefile.c`, `movedir.c`, `rename.c` and `actiondispatcherclass.c`: push a
window's opening, `thread_wait`.

### ThreadPool

`threadlist` holds thread numbers; the fields of a node are functions of them.
`cur` says where in `threads_handle` the main task is: it runs
`MM_Thread_Finished` there, and `InMethod` is true where it does, so that
`do_action`, `threads_abort`, `thread_signal`, `threads_reclaim` can be called
from those points too, as they can in the code. That a nested call comes by
way of the method stack does not matter here. Threads run `ambient_thread`;
`thread_domsg` either returns, finds an abort, or sleeps in `thread_wait`.

`Garbage` stands for what `malloc` left in `signal_node.abort` behind its
terminator: `Answers` lets an entry there be zero or not. `note` records the
`MM_Thread_Finished` that the last step sent. The array is a set, because
the order of its entries is only that of the answers.

### Navigation

`hist` is `struct history` (the list counts from 1, `position` from 0 as in the
code). A place is a path with its view mode. `loads` are `TA_URI_Load` jobs;
each ends by `MA_Window_MIMEctx` to the window (`Loaded`, with its update, add
and update in one step, as they are one method call) or without it
(`LoadFails`). Loads end in any order. Reloading after a DOS notification is
`Open` of the place shown, with no lock, as in `MM_Window_Reload`.

At the last node `history_addnode` takes the tail of the list head for a
neighbour (`position < size`, where `size - 1` is meant). Its `path` is then the
field `lock`, which is 0 whenever the function is called, so that the
comparison is false: the model has no neighbour there.

### AppIcons

The semaphore makes one step of `AddAppIconA` and of `RemoveAppIcon`, the
`Signal` behind it another. `appicon_synchronize` keeps the semaphore over
several steps: its first loop, one step per new entry, the end. Creating an
icon from an image calls `methodstack_push_sync`, and thus runs pushed methods
while the semaphore is held (`mpc = "nested"`): this is where a thread's own
pushes (`SetAttrs`) get in. `pool` says whether the memory of an entry exists.
The flags are those of `struct IpcAppiconNode`. `Failures` says what may fail;
`nothread` also stands for an icon object that cannot be created. An aborted
read has the status -1, which counts as success, with an icon whose address was
never set: `NULL` in `view`.

The shared list is a set: it is only ever gone through as a whole. Programs
reply AppMessages as long as they have their port.

### FileJobs

A step handles one path: it asks what has to be asked, works on one file, and
returns to where the next path is found. Between two steps the user may stop the
job. `pc` names the function that goes on, `todo` is the selection
(`tr_movelist`, `tr_deleteall`), `stack` the directories `recurse` is in, each
with the rest of what `exdir` has to find there, a set: a file system lists a
directory in any order. The files are the state that
matters: `src`, the paths at the source, and `dst`, what lies under their names
at the destination. `reqflags` is the word of flags with the answers "for all",
"skip all" and "cancel" (`fileaction.c`), which every function gets and some
test for a bit while others compare it with a value: both are in the model as
they are in the code.

A question is a set of possible answers, each with the flags it leaves
(`Asked`, `Unprotected`); a call of `fastcopy` or `_rename` is a set of results:
the code returned, what is then at the destination, the flags. What is returned
matters most here, since it passes through `movefunc`, `recurse`, `tr_movedir`
and `tr_movelist`, each with values of its own: that `recurse` says TRUE after
`exitdir` whatever happened, that `exdir`'s ABORTED is not zero, that the code
of an icon replaces that of its file, are in `Scan`, `StopWalk`, `Walked` and
`IconByCopy`.

`abort` is CTRL_D: `threads_check_abort` takes it away when it reports it, so
that whoever looks next finds nothing (`Hear`); that CTRL_C, the end of
Ambient, is not taken away is the other choice there. `retries` bounds what the
user retries in the list; retries within one file change nothing but the next
result, which is then a choice anyway. Files are not empty, so that a copy
looks for an abort. Notifications and progress windows are left out; so are
links, which `deleteall.c` deletes as files.

### SmartReq

`client` is where each asking task is, in `smartreq_requesta` or
`smartreq_request_synca`; a thread asks one thing at a time, and so does the
main task here, whose request (`smartreq_request`) is answered by a method. The
first request creates the window by a synchronous push, with `reqsem` held.
`pushed` is the part of the method stack that matters; `presses` are the
`MM_SmartReq_Pressed` MUI has queued, each with the counter of the requester it
was pressed on. `main` says what the main task blocks in: `execute_packet` puts
a message to the port of the thread and waits for the reply ("reply"), then
changes to the next request ("change"). A port whose thread has gone would never
reply: "dead", which `AnswersShown` excludes.

`running` is `thread_running`; `examining` are the threads that compare two
files, a set, since a second one may be started where the code has lost sight of
the first; `ended` counts the ends of which the main task is yet to be told.
`postponed` is `eventpacket`. A request whose text cannot be
allocated is answered with 0 at once, as the code does. `smartreq_info` needs no
answer and is left out, as is the end of Ambient, where the window is disposed
of.

Two failures of the window are there: it may not be created (`AskRefused`), and it
may not open (`Open`). Then the request that was to be shown has been freed
already, its comparison may have been started, and `MM_SmartReq_Enqueue` leaves it at
that ("argh, there's little we can do, wait the next request"): the thread waits for
ever, and those behind it until somebody else asks. `lost` remembers whose request
that was, so that the properties can say that nobody else is kept waiting.

A requester may be pressed twice before the main task gets to it. The counter that
is to drop the second press does so where the next requester waits behind the first,
has no files to compare and opens (`Harmless`). It does not when there is no next one,
since the counter stays, nor when the press is put off while files are compared,
since it is then carried out without a look at the counter. `hasty` remembers
that a second press was made where there is no guard; what the properties say of a
press is said while there was none of these.

### ListView

`lv` is the part of `struct Data` that decides what is listed, and the operators
of "The entries" are the methods that change it. `jobs` are the threads that
work for the view, each with the CTRL_D it has been sent (`abort`); `todo` is what the main task has left to do in the event it
handles: the `threads_abort`s of `listview_abort_threads` one by one, an
answer, the report of a job and its release, the two parts of
`MM_Listview_ShowFiles`. Where the main task pushes synchronously (`Draining`)
the methods that threads have pushed run in between, and may put more in front
of `todo`.

`"types"` stands for the four kinds of threads with the same code (MIME types,
versions, MD5 sums, sizes), `"icons"` for the one whose entries are not freed
meanwhile. A reload after a DOS notification is `LoadURI` of the same place.
`threads_abort` signals a task, not a job: when the job has ended, but the thread is
still marked as busy, CTRL_D stays pending unless the thread has yet to clear it on
its way to `Wait()`. `late` counts the idle threads that have one (`Lingering`), and
any job that is begun may get one of them (`hit` in `Given`, as `do_action` takes the
first idle thread of the pool) and is then aborted as if it had been asked to stop. If
that is the new scan, the directory is not shown: `ShowsRequested` leaves this out by
name (`LateAborted`), and `NotLateAborted` below states it. The late CTRL_D of other
views' jobs does the same, and is not in the model.

Threads take their steps only where the main task looks at what they have done
(`Awaiting`); elsewhere its steps and theirs commute. An entry has the place
its file was found in and the path it was listed under: it is when these differ
that the list is wrong.

Left out: the signal nodes of `threads_abort`, since `threads_handle` removes
those of the view whenever a job of the view ends; failing `do_action`s; the list of volumes and the preview; notifications that
change an entry but neither add nor remove one; and that entries may be freed
while a thread uses them, of which the code itself warns (`listviewclass.c:4024`).

### Programs

`pc[t]` is where a task is in `v_wbstart` (`wbstart.c`), which threads of Ambient
run for `TA_WBStart` and other programs through `wbstart.library`. What one task
does alone is one step: `Load` stands for `wbload_program` and, for a program that
gets a process of its own, `copy_arguments`. It takes one of `Prepared`, the
structures the functions of "The struct wbrun" can leave behind: these follow
`fill_current_arg_x`, `wbr_fillcli_x`, `wbr_fillscript` and the cases of an icon
with its default tool, and return the set of results, each with the structure
and whether the code goes on. A lock is a number; `Garbage` is what `malloc` left
in a field, which `free_wbrun` must not take for a lock.

`running_wbproc++` is two steps, a read into `reg` and a write, as it is for the
processor; nothing protects it. `programs` and `wbstartport` are the startup
messages under way. `ipcport` has the questions for the properties of an icon
("wbstartlib"), which a thread answers (`propjobs`), and those the main task
answers itself, of which "path" stands for all three kinds. The steps of quitting
are those of `doloop`, `threads_finish` and `init_close`.

Left out: what else `ipc_handle` does (`appicon_synchronize` is in `AppIcons`);
the streams of a command; arguments that come as a list; the lock of a directory
that `LIB_WBStartTagList` makes, which no line of it unlocks; and what another
program does within the library after Ambient's code is gone.

## The runs

Every configuration but those of `FileJobs` has `CHECK_DEADLOCK FALSE`: Ambient
may quit, and the bounds on calls, jobs and clicks end every behaviour. A file
job must always be able to go on or have ended (`Ended`), so there TLC looks for
deadlocks.

Passing:

| Run | Bounds | Shows |
|---|---|---|
| `MethodStack` | a thread with prompts, an alien task whose allocations may fail, 2 objects, 2 calls per task, 1 step of methods | `InOrder`, `OneReplyPerCall`, `RefBalance`, `NoWakeupLost` |
| `MethodStackService` | 1 thread, 3 calls, 2 objects, 2 steps of methods, 8 frames | refinement of `CallService`, with its liveness: calls return, pushed methods run |
| `ThreadPool` | 1 thread and a second on demand, 2 jobs, abort, reclaim, low memory, quit | `IdleHasNoJob`, `NodesLive` |
| `ThreadPoolLive` | 2 objects, 1 thread, 2 jobs, 2 aborts, a prompt, quitting | `JobsReported`, `AbortsAnswered`, `QuitEnds` |
| `Navigation` | 3 places, 4 nodes, 3 loads at a time, failures | `HistoryShape`, `ShowsCurrent` |
| `NavigationTrails` | 1 load at a time, no failure | refinement of `Browsing` |
| `AppIcons` | 2 programs, one with a file, all failures, 2 clicks, quitting | `MemoryKept`, `NothingOverlooked`, `RemovalCompletes`, `IconAppears` |
| `FileJobs` | a directory with a file and a directory with a file, its icon, a file with an icon; 5 kinds of jobs, an empty and an occupied destination, 2 files and a sub-directory protected, 10 failures, aborts, 1 retry | `NothingLost`, `RefusedStays`, `Complete`, `CancelStops`; no job hangs |
| `SmartReq` | 2 threads with files to compare, and the main task; 2 requests each, 2 presses on a requester, every failure | `EachTracked`, `AnswersShown`, `ExaminesShown`, `EachAnswered` |
| `ListView` | 2 directories, 2 files, 2 requests, 1 change of the mode, 1 file job (making a file, which may replace one, deleting one, or turning updates off), 3 kinds of threads, closing | `BusyHasJob`, `OneScan`, `ListFresh`, `ShowsRequested` |
| `Programs` | a thread and another program, one start each, every kind of icon, up to 1 argument; failures of memory, locks and processes; quitting | `LocksOnce`, `OneOwner`, `PropsAnswered` |

`TypeOK` is checked in one run of each component.

Why the bounds are enough to mean something: a thread, a task of another program
and the main task are all the roles there are on the method stack, and two calls
per task are what it takes to get them out of order; a frame of each kind can lie above a frame of
each kind. In the pool one thread that is busy, one created meanwhile and two
jobs make every pair of crossings of abort, end of job, reclaim and quit. Four
nodes and three loads fill the history, truncate it and let loads overtake one
another. Two icons, one with a file and one without, are what the main task and a
thread can work on at a time; `MemorySafe` below has any number. A file job meets
a file and a directory at each level of a walk, with and without an icon, and
something of each kind in its way at the destination. Three clients that ask
are one on display, one in the queue and one on its way, or one that creates
the window while two wait for it: two with files to compare, so that a comparison
meets the next one, and one without, so that a second press meets a requester it
does not harm. The second request of each makes a late press
meet a request of the same thread. In a list view a request crosses one that is
being aborted, a mode and a file job at the same time; a third request would
find the same busy marks as the second. File jobs follow one another, as a second
one would only wait for the semaphore of the first; one that has ended with its
last notification still under way keeps the next from beginning. Two tasks are what it takes for an update
of the counter of programs to get lost; the locks of a start do not depend on
other starts, and one argument can fail, be a volume or be copied. The theorems below have no such bounds.

`MainEarly = FALSE` in `SmartReq` says that the main task does not ask while a thread
waits for the window's creation; the table of refuted properties says what happens
otherwise. The failure `"close"` is not
among those of `FileJobs.cfg`: with it files are lost; and of the directories
only one within another is protected there, since a protected one that the user
has selected itself lets his answers be forgotten.
`Programs.cfg` has no names without a path, and neither the failure `"name"` (no
memory for a name) nor `"thread"` (no thread can be had): see the same table.

Violated, a statement of the code's comments that the code does not keep:

| Run | Property | What happens |
|---|---|---|
| `FileJobsAbort` | `AbortStops` ("ABORTED: aborted by user", `threads.h:581`) | `exdir` finds the abort, clears it and returns -1; `recurse` returns it; for `deletedir` it is TRUE: the icon and the rest of the selection are deleted |

More statements of comments, and of what a user may expect, are formulas of the
modules that TLC refutes in the same way; they have no configuration here. To
see the behaviour, take the `.cfg` of the second column, change the constants
given, and name the property instead of those it checks.

| Property | Start from | With | What happens |
|---|---|---|---|
| `EarlierPushesDone` ("Completes all the waiting methods in the stack before ourself", `methodstack.c:141`) | `MethodStackService` | `MaxCalls = 2`, `MaxActs = 1` | a synchronous call overtakes an asynchronous one of the same task, whose method is nesting |
| `AlienCallsReturn` ("Pushes a method synchronously", `methodstack.c:249`) | `MethodStack` | `Threads = {t2}`, `Prompts = FALSE`, `MaxCalls = 1` | `methodstack_push_sync_safe` (which has no caller today) waits for a message it could not allocate |
| `PromptsOpen` ("just like MUI", `methodstack.c:97`) | `MethodStack` | `Aliens = {}`, `Threads = {t1}`, `MaxActs = 0` | a window pushed before `thread_wait` opens only when something else wakes the main task |
| `OnlyIdleRemoved` ("Remove the threads in IDLE state.", `threads.c:241`) | `ThreadPool` | `THREAD_MIN = 2`, `LowMemory = FALSE`, `MaxJobs = 1`, `MaxAborts = 0`, `CanQuit = FALSE` | a job given to a thread that was told to end a moment ago is lost |
| `MinimumKept` ("minimum number of threads in the pool", `threads.c:51`) | `ThreadPool` | as above | `threads_reclaim` leaves THREAD_MIN - 1 threads |
| `LateAbortsCleared` ("Clear it.. in case one arrived too late", `ambient_thread`) | `ThreadPoolLive` | - | an abort that comes too late hits the next job in the port |
| `ArrayTerminated` ("terminate the array", `threads_abort`) | `ThreadPoolLive` | `Objs = {o1}`, `Actions = {a1, a2}`, `THREAD_MIN = 2`, `THREAD_MAX = 2`, `MaxAborts = 3`, `CanQuit = FALSE` | action IDs are read behind the end of the array |
| `NothingMeansNothing` ("or if there's nothing", `threads.c:262`) | `ThreadPoolLive` | `Objs = {o1}` | a job asleep in `thread_wait` does not count when aborted |
| `LockedWhileLoading` ("lock history for the time of loading", `toolbarclass.c:389`) | `Navigation` | - | a failed load leaves the history locked |
| `HistoryAddsNothing` ("lock history for the time of loading new URI to not create new node", `toolbarclass.c:534`) | `Navigation` | `MAX_NODES = 3`, `CanFail = FALSE`, `MaxLoads = 2`, no symmetry | the second of two quick moves makes a node and drops those ahead |
| `NoStrayMessages` ("You MUST check the AppMessage port after removal", `wblib/appicon.c:243`) | `AppIcons` | - | an AppMessage to a port already deleted |
| `IconsKept` ("an icon is optional", `movefile.c:194`) | `FileJobs` | `Jobs <- MovesOnly`, `Targets <- TakenOnly`, `Faults = {}`, `CanAbort = FALSE` | the icon of a moved file is deleted although the user has chosen not to replace the old one |
| `NothingLost` | `FileJobs` | `Targets <- TakenOnly`, `Faults = {"close"}` | a moved file is deleted although closing its copy has failed, with its last buffer unwritten |
| `RefusedStays`, `CancelStops` | `FileJobs` | `Jobs <- DeletesOnly`, `Protected <- DirProtected`, `Faults = {}`, `CanAbort = FALSE` | Cancel, when asked about a protected directory, is not heard: the walk goes on and deletes what is in it |
| `RefusedStays` | `FileJobs` | `Jobs <- MovesOnly`, `Sources <- EmptyDir`, `Targets <- DirTaken`, `Faults = {}`, `CanAbort = FALSE` | Cancel, when asked whether a file makes way for the directory that is moved: `recurse` says TRUE all the same, and `tr_movedir` deletes the directory, which is empty |
| `CallableFromTasks` ("Can be called from another task", `smartreq.c:725`) | `SmartReq` | `Failures = {}`, `MainEarly = TRUE`, `MaxAsks = 1` | the main task waits for the semaphore of a thread that waits for the main task |
| `AnswersShownAlways` ("HACK HACK HACK!", `smartreq.c:487`) | `SmartReq` | `Failures = {}`, `MaxAsks = 1` | a second press on a requester that is queued, and put off while the next one's files are compared, is carried out without a look at the counter |
| `NotWedged` ("beware of deadlocks..", `notify.c:464`) | `ListView` | `MaxModes = 0` | the main task registers a list's new place and waits for the semaphore of a file job that waits for the main task |
| `NotLateAborted` ("Clear it.. in case one arrived too late", `threads.c:931`) | `ListView` | `MaxModes = 0`, `MaxFileJobs = 0` | a CTRL_D for a scan that has just ended aborts the next job of its thread, the scan of the directory asked for, which is then not shown |
| `ListTrue` | `ListView` | `MaxModes = 0`, `MaxLoads = 1` | a file made while the directory is being scanned is listed twice |
| `NotifiedFresh` | `ListView` | `MaxModes = 0` | a file of the last directory is listed in the new one |
| `UpdatesOn` | `ListView` | `MaxModes = 0` | a file job turns off the updates of a list, which then shows another directory and is not told to turn them on |
| `ModeApplied` ("scheduled viewmode after a viewmode change", `listviewclass.c:275`) | `ListView` | `MaxLoads = 1`, `MaxFileJobs = 0` | a mode chosen while files are being shown is never set |
| `CloseCompletes` ("Defer til the (possible) process returns.", `windowclass.c:696`) | `ListView` | `MaxModes = 0`, `MaxLoads = 1`, `MaxFileJobs = 0` | a window stays when the thread that was to be aborted ends by itself |
| `RunningCounted` ("You have %lu desktop processes running.", `wbstart.c:1480`) | `Programs` | - | two tasks change the counter at once and one of the updates is lost: Ambient can never be quit, or too early |
| `NoneLeftBehind` (`ASSERT(!running_wbproc)`, `wbstart.c:123`) | `Programs` | - | another program opens the library after it was looked at, before Ambient ends |
| `PortThere` ("no need to Forbid()", `wbstart.c:167`) | `Programs` | - | the port is found, Ambient ends, and the message is put to what is no port any more |
| `EachReplied` ("all of that should be checked and sent in the reply!", `ipc.c:133`) | `Programs` | `Threads = {}`, `Clients = {c1, c2}` | a message behind one for `wbstart.library` gets no reply, as `msgreply` stays FALSE |
| `PropsAnswered` | `Programs` | `Threads = {}`, `Failures = {"thread"}` | `do_action` fails and nobody answers |
| `LocksOnce` | `Programs` | `Icons <- ProjectIcons`, `Names = {"plain"}`, `Clients = {}` | a project with a tool, neither with a path: the home directory of the first is overwritten and never unlocked, or one is unlocked twice |
| `LocksOnce` | `Programs` | `Failures = {"name"}`, `Clients = {}` | no memory for the name of a script: the element stays empty, the next one is filled, and `free_wbrun` unlocks what was in the empty one |

## Fairness

- `MainNext` and each thread are weakly fair: exec runs every ready task, and
  methods and jobs end. What methods decide to do (`MethodNext`), user input
  and quitting are not fair.
- Jobs wake (`Wake` in `ThreadPool`) because a user answers a window.
- `quitting /\ Quit` is fair: `doloop` calls `MM_Application_Cleanup` on each
  of its turns once `do_quit` is set, and MUI's ticks make it turn.
- `SetAttrs` in `AppIcons` is strongly fair: it is a thread's synchronous push,
  possible whenever the main task looks at the method stack, which it does
  again and again (`ServiceSpec` of `MethodStack`), though not while it is
  within `appicon_synchronize`.
- In `SmartReq` the main task's actions, each thread that may go on and the
  end of a comparison are weakly fair as above, and `Press` because a user
  answers what he is asked; that anybody asks is not assumed.
- In `ListView` the main task (`MainNext`), the view's threads (`JobNext`) and
  the file job at work (`FileJobNext`) are; requests, modes, closing and the
  start of file jobs are not. `FileJobs` has no liveness property: that a job
  ends depends on how often a user retries.
- In `Programs` the main task, each task within `v_wbstart` and the thread that
  answers a question are weakly fair; entering `ipc_handle` is strongly fair, as
  `doloop` looks at every signal on each turn. That anybody starts a program or
  asks, that a program ends, and that the user quits is not assumed.
- `AddSignal`, `RemoveSignal` are weakly fair, as these calls return; that a
  program ever adds, removes, serves or closes is not assumed.

## What is proved

| Theorem | Statement |
|---|---|
| `MethodStackProofs!TypeCorrect` | `Spec => []TypeOK` |
| `MethodStackProofs!OrderKept` | `Spec => []InOrder` |
| `MethodStackProofs!WakeupsKept` | `Spec => []NoWakeupLost` |
| `MethodStackProofs!RepliesKept` | `Spec => []OneReplyPerCall` |
| `MethodStackProofs!RefsKept` | `Spec => []RefBalance` |
| `MethodStackProofs!ServiceImplemented` | `Aliens = {} => (Spec => ServiceSafety)` |
| `ThreadPoolProofs!TypeCorrect` | `Spec => []TypeOK` |
| `ThreadPoolProofs!NodesSafe` | `Spec => []NodesLive` |
| `ThreadPoolProofs!OneJobAtATime` | `Spec => []IdleHasNoJob` |
| `NavigationProofs!TypeCorrect` | `Spec => []TypeOK` |
| `NavigationProofs!ShapeKept` | `Spec => [](TypeOK /\ HistoryShape)` |
| `NavigationProofs!CurrentShown` | `Spec => []ShowsCurrent` |
| `NavigationProofs!BrowsingImplemented` | `MaxLoads <= 1 /\ ~CanFail => (Spec => BrowsingSpec)` |
| `AppIconsProofs!TypeCorrect` | `Spec => []TypeOK` |
| `AppIconsProofs!MemorySafe` | `Spec => []MemoryKept` |
| `AppIconsProofs!OverlooksNothing` | `Spec => []NothingOverlooked` |
| `FileJobsProofs!TypeCorrect` | `Spec => []TypeOK` |
| `FileJobsProofs!FilesKept` | `"close" \notin Faults => (Spec => []NothingLost)` |
| `FileJobsProofs!CancelHeard` | `NoDirProtected => (Spec => CancelStops)` |
| `FileJobsProofs!RefusalsKept` | `NoDirProtected /\ NoEmptyDirInWay => (Spec => RefusedStays)` |
| `FileJobsProofs!JobComplete` | `"close" \notin Faults /\ Rooted => (Spec => []Complete)` |
| `SmartReqProofs!TypeCorrect` | `Spec => []TypeOK` |
| `SmartReqProofs!RequestsTracked` | `Spec => []EachTracked` |
| `SmartReqProofs!AnswersAreShown` | `Spec => []AnswersShown` |
| `SmartReqProofs!ExaminesAreShown` | `Spec => []ExaminesShown` |
| `ListViewProofs!TypeCorrect` | `Spec => []TypeOK` |
| `ListViewProofs!BusyHaveJobs` | `Spec => []BusyHasJob` |
| `ListViewProofs!ScansOnce` | `Spec => []OneScan` |
| `ListViewProofs!ListsFresh` | `Spec => []ListFresh` |
| `ProgramsProofs!TypeCorrect` | `Spec => []TypeOK` |
| `ProgramsProofs!OwnerUnique` | `Spec => []OneOwner` |
| `ProgramsProofs!LocksGivenBack` | `NoSlips => (Spec => []LocksOnce)` |

So every invariant and every action property that a passing run checks is a
theorem, and both refinements are but for fairness; the runs show them on small
instances, and are where the inductive invariants below were tried out first.

They hold for every value of the constants that satisfies the module's
`ConstantsAssumption`, which TLC evaluates on each run. Two modules assume more.
`NullAssumption` in `MethodStack` says that `NULL` is no method and no result.
`TreeAssumption` in `FileJobs` says what `Under`, a recursive function, computes of a
tree: that the paths at and below an entry lie within those of its directory,
which is not among them, and beside those of the other entries; and that no
selected path lies below another. The provers cannot unfold such a function, so it
is an assumption about the tree, which TLC finds true of the one it has.

The hypotheses of the single theorems exclude what the table of refuted properties
shows, and as little else as we could. The theorems of `SmartReq` need none, as
the second presses it has no guard for are in the properties (`hasty`). With `"close"` a copy loses its last buffer;
`NoDirProtected` is about directories the user has selected, not about those
within them, and `NoEmptyDirInWay` about selected directories that hold nothing
but icons; `NoSlips` is the failure `"name"`, and a project and its tool which
both have names without a path. `Rooted` is about the file system, where nothing
lies in a directory that is not there. `Aliens` have `AlienCallsReturn` against
them. A history does not keep its trails when loads overtake one another
(`HistoryAddsNothing`) or fail (`LockedWhileLoading`).

*TypeCorrect.* `TypeOK` is inductive. Its proof is about the two sequences: what
`Append`, `Front`, `Last`, `Tail` and concatenation leave of `Seq(Method)` and
`Seq(Frame)` (`FrontProperties`, `FrameTypes`, `TopTypes`, `SeveralFrames`), and that
killing methods keeps the list typed and counts a finite set (`ForgetType`,
`PendingFinite`, `KillType`). The interesting case is `PopType`: a call whose
object has been killed gets no frame of its own.

*OrderKept.* `InOrder` is inductive together with `TypeOK`. The actions that
touch `methodlist` are those with `Enqueue` (the new call has the largest number
of its caller), `CheckPop` (the head has the smallest number left of its caller)
and those with `Kill` (no number changes), one lemma each. All others leave list
and counters alone.

*WakeupsKept*, *RepliesKept*, *RefsKept.* Between the last look at the list and
`Wait()` the main task may still be in a method, with a nested `methodstack_check`
above it; `Bottom` says that the outermost one is then that of `doloop`, which
signals the task itself when it breaks off. `RepliesKept` and
`RefsKept` count, over the list and the main task's stack; `OneFor` and `BalanceOf`
are the sums of one thread and one object, and the lemmas about them say what an
`Enqueue`, a `CheckPop`, the end of a method and a `Kill` do to the sets of positions
that are counted (a position moves when the head is taken off). Both need
`FinishOver`: a job whose end `threads_handle` reports is over, and not on the
port any more, so that its object is released once.

*ServiceImplemented.* `ServiceSafety` is the initial condition and the next-state
relation of `CallService` under the refinement mapping of `MethodStack`, its
`ServiceSpec` without the fairness. The mapping takes what is on the main task's
stack and what each thread waits for (`Blocked`). Four facts make the steps
abstract ones: that a call taken up has not been before (`TakenOnce`, of which
`InOrder` is a part), that a thread waits for the last call it has made, so that
its reply is to that one (`LastAwaited`), that `doloop` is left with nothing to do
(`EndsIdle`), and `FinishOver`. There is one lemma per action (`StepServes` has
them together), which says which action of `CallService` it is, or that it is
none.

*NodesSafe*, *OneJobAtATime.* Neither is inductive, and they need each other. A
node is taken off the list when the start message of its thread is handled:
`StartsLast` says that no message of the thread comes after it. That a free node
has no job needs that a job is in one place, the port of its thread, at work or
replied (`OneJob`), or the end of one would free a node that has another; that the
node made for a job is a new one, that threads get their numbers in order
(`Numbered`). `Handled` ties what `threads_handle` is at to the list. The steps
are taken by what they do to nodes and messages: a thread goes on (`ThreadMoves`), a job is
taken, replied, reported (`JobTaken`, `JobReplied`, `NodeFreed`), a node is given a
job, made, removed (`NodeTaken`, `NodeMade`, `NodeRemoved`). For the types, a job
with an object to report to has an action ID (`Acted`).

*ShapeKept.* The invariant is the shape of the history, the types of the view and
of the loads. There is one lemma per operator of the history: the update, the
append with the truncation and the limit before it, the move, the lock, the
target of a move. With `MAX_NODES` 1 the oldest node dropped is the current one,
which is why `position` is moved before it is taken back.

*BrowsingImplemented.* With one load at a time the history is locked only while the
load of a place of its own is under way, and that is the place of the current node
(`OneAtATime`). The rest is about sequences: the history is its trail behind, the
place and the trail ahead (`Behind`, `Here`, `Ahead`), and each operator is taken
to what it makes of the three. `BrowsingSpec` has no fairness, so that this is all
of it.

*MemorySafe.* `MemoryKept` is not inductive: it does not say why an entry in use
is not disposed of. `Inv` does. A listed entry has its memory (`ListedLive`); one
a thread reads is listed, not new, not marked as loaded (`ReaderListed`) and has
a file (`ReadersOwn`); one whose icon is being created is listed, not new, and
has no file (`CreatingListed`), so that the main task, which disposes of
entries only outside of the creation, and programs, which dispose of new ones
only, leave it alone; an icon on the desktop is listed and not new
(`ViewListed`); a new entry was neither given to a thread nor marked
(`NewUntouched`), and before its program adds it there is nothing (`NotYet`). TLC
checked `Inv` first, on the instance of `AppIcons.cfg`.

*CurrentShown.* `ShowsCurrent` is inductive together with the shape. The step that
matters is the end of a load, which unlocks the history and has to leave it at the
place loaded, whichever load that was; `history_update` has a lemma of its own
(`UpdatedCurrent`).

*OverlooksNothing.* What a waiting main task overlooks is a matter of the few
steps in which a program has changed the list and has not signalled yet, or the
main task has taken the signal and not looked at the list. `Announced` says for
each kind of entry, one to be created (`NewAnnounced`) and one to be removed
(`RemovalAnnounced`), who is going to notice it.

*FilesKept.* `Placed` says what a place in the job means: who works on a path has
one, only a job that deletes is where things are deleted, only a move renames,
only a directory is walked through. `Kept` is `NothingLost` where a copy can be
closed: without that the theorem is false, as the table above shows. A result of
`fastcopy` that says success has left a whole file behind (`FastCopyResult`,
`RenamedResult`), and each of the four functions that delete a source does so on
a success only (`TakeKeeps`). *CancelHeard* needs that a job that deletes ends
when it is cancelled (`CancelEnds`), which it does not in a directory that is
protected; and that `fastcopy` looks at the flag (`CancelledCopiesNothing`).

*RefusalsKept.* Nobody remembers what the user has refused: a file stays only
because the thread never comes to it again, and because nothing around it is moved
or deleted as a whole. The invariant (`Stays`) says so of each place the job
may be at. `Ahead`: nothing was refused of what is still to come on the list, and
its paths lie beside one another. `Levels`: nor of what a deleting walk still has
to come to in the directories it is in; outer levels lie around inner ones
(`Around`), and what they list lies beside them. `PutThere`: what a copying job has
been refused has something in its way, and as long as a directory is not there at
the destination nothing in it was refused, so that it may be moved by its name.
`InWay`: a selected directory with a file in its way is not empty, so that
`tr_movedir` does not delete it. `Asks`: a deleting job asks about each path once.
That what lies in the way at the destination is left as it was is said of each step
that writes there (`ThereKept`): a result of `fastcopy` or `_rename` in which the user
has not agreed has changed nothing (`CopyRefused`, `RenameRefused`), and a directory is
renamed as a whole only when nothing in it was refused.

*JobComplete.* The invariant (`Done`) says of each state without trouble what must
have been done by then: of what has left the source (`GoneFine`), of the paths the
list has left behind (`LeftFine`), of the path at work (`HereFine`: that it is
judged by the return code of a copy that went well, is what a wrong place of an
assignment to `rc` would break), of the entries the walk has left behind in each
directory it is in (`WalkFine`). Steps without trouble go forward (`Forward`), so
that what is done stays done; and a directory is empty when it is left, because
all that was in it has gone.

*OwnerUnique.* A struct is passed from the task that fills it to the program and
from there to the port; the invariant states this once from the side of each
(`Mine`, `Running`, `Back`), that none is lost before Ambient ends (`Kept`), and
that nothing has been allocated for a start that is to come (`NotYet`). The answers
to questions about icons come into it because they move a task on: `Asked` says
that only who waits is answered, and once. That a program gets a process only with
its code loaded is a property of the operators that fill the struct
(`PreparedLoaded`), proved through all the ways an icon can name a tool.

*LocksGivenBack*, and *TypeCorrect* of `Programs`. `Filled` is what the operators
that fill a struct keep: the locks taken for it are the first few numbers, each is
at one place of it, and there are as many arguments as `num` says. There is a
lemma per operator, which says how many locks more it may take (`Grown`, `Made`),
up to four and one for each argument of the caller. `Contents` has it for every
struct: whatever a step leaves in one `free_wbrun` can give back. The bound on the
numbers of locks is part of the types, and an earlier version of the model had it
one too small, which no run had found: the types could not be proved.

*SmartReq.* `CreateOnce` and `MainFree` say who may wait for what, whatever the user
presses. The rest (`InOrder`) holds until a second press comes where the code has no
guard (`hasty`): `Tracked` is that the method stack, the list and the display have
every request that waits and was not lost, and once (`Places`); `OnDisplay` that
who is answered is the requester that is shown, and that nothing is put off but while
its files are compared; `Queued` that presses under way on earlier requesters, with
smaller counters (`Late`), come before those on the requester shown (`Own`), with no
comparison under way that would put them off, and that a second one on it is there
only before a next one it does not harm; `Compared` that there is one comparison, of the requester
shown, as long as the window has opened for every request with files. The types need
`CreateOnce`, the other theorems all of it.

*ListView.* `OneScan` and `ListFresh` are about threads and entries, but what keeps
them true is what the main task is about to do. `Inv` is mostly about `todo`:
`Bottom` (what an event of a thread has begun ends with the release of its job,
and nothing comes below it), `AbortsScan` (a scan is aborted once, for an event of
the user, and is marked as busy until its end is told), `Shows` and `ShowsLater` (a
list is shown once, when all scans have ended), `Busy` (for each mark there is a
thread, or a call that will tell of the end of it), `Fresh` (what a scan has found
and will find is of the path of the window, unless that is to change), `Loaded`,
and `Noticed` about file jobs. An event shifts `todo` (`Shift`, `Minor`) or ends a
thread (`Continues`, `ShowsNow`), and the lemmas are stated for those. That an
address is free for a new job is the pigeonhole principle (`FreeIdNew`). The
attempt to prove `Noticed` showed that the model let a file job begin while the
last one still waited for its notification, which the bound of one job had hidden;
the model has that guard now.

Only model-checked: liveness, which is out of the prover's reach, as is ENABLED. It
is `JobsReported`, `AbortsAnswered`, `QuitEnds`, `RemovalCompletes`,
`IconAppears`, `EachAnswered`, `ShowsRequested`, `PropsAnswered`, and the part of
`ServiceSpec` that promises that calls return and pushed methods run. So is that no
file job hangs.

## What is not modelled

- The contents of methods, other than what they do to a modelled component.
- `v_do_action_sync`, which runs a job within a job and has no state in the
  pool; names and priorities of threads.
- `threads_finish(TRUE)` at the very end, reached with an empty list only.
- AppMessages with arguments (locks of files dropped on an icon).
- The trashcan, links, and the windows that rename (`tr_rename` with a list);
  data, dates and comments of the files that are copied.
- `cache.c` and `doslistcache.c`, where a low-memory handler may free nodes from
  within an allocation (`cache.c:564`).
- The parts in the table of components that have no module: see the plan.
- Drawing, layout, formats and the user interface classes as such, which are
  sequential code around libraries that are not in the repository, and the
  copies of libpng, libjpeg and others in `libs/`, which are not Ambient's.

## Plan

Done: `MethodStack`, `ThreadPool`, `Navigation`, `AppIcons`, `FileJobs`, `SmartReq`,
`ListView`, `Programs`, with their proofs as above. Next, each with its
configurations:

1. `Cache` and `DosListCache`: the low-memory handler inside an allocation,
   try-lock and retry.
2. `Notify`: contexts, registrations and the semaphore held over a push, which
   `ListView` has only as far as a list needs it; DOS notifications
   (`dosnotify.c`).
3. `Storage`, `UpdateList`: delayed commit and reset; nested updates.
4. Pure algorithms (layout, sorting, integer square root, names) as functions,
   checked against reference definitions.
5. Proofs: what those modules will check; and the states in which each action
   of a file job can be taken, as far as that can be said without ENABLED.
