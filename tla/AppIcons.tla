------------------------------ MODULE AppIcons ------------------------------
(***************************************************************************)
(* AppIcons: the icons other programs put on the desktop.                  *)
(*                                                                         *)
(* workbench.library (src/wblib/appicon.c) runs in the task of the         *)
(* program. It shares a list of entries with Ambient, under the semaphore  *)
(* "Ambient IPC", and signals Ambient when it has changed the list.        *)
(* Ambient (src/appicon.c, called from src/ipc.c) then removes and creates *)
(* icons. An icon with a file of its own is read by a thread, which goes   *)
(* on using the memory of the entry; three flags of the entry say who may  *)
(* free it. A double click on an icon is sent to the program's message     *)
(* port by another thread (src/appmessage.c).                              *)
(*                                                                         *)
(* The list is a set here: nothing depends on the order of its entries.    *)
(***************************************************************************)
EXTENDS Naturals, FiniteSets

CONSTANTS
  Icons,      \* the AppIcon handles, each of one AddAppIconA
  Own,        \* those with an icon file to be read (ISOWN)
  NULL,       \* no entry, and the address of an icon nobody has set
  Failures,   \* what may go wrong, see FailureKinds
  MaxClicks,  \* bound: double clicks on one icon
  CanQuit     \* TRUE: the user may quit Ambient

\* The node cannot be allocated; do_action fails; the file cannot be read;
\* the thread has been told to end before it got to the job.
FailureKinds == {"nonode", "nothread", "unreadable", "refused"}

ASSUME ConstantsAssumption ==
  /\ Own \subseteq Icons
  /\ NULL \notin Icons
  /\ Failures \subseteq FailureKinds
  /\ MaxClicks \in Nat
  /\ CanQuit \in BOOLEAN

VARIABLES
  appicon_list,  \* the entries shared with Ambient
  newentry,      \* the three flags of an entry
  removedentry,
  loadedentry,
  pool,          \* pool[i]: the memory that holds message, entry and node
  apc,           \* apc[i]: where the program is with its icon
  ipcsig,        \* the signal of the port "Ambient IPC"
  mpc,           \* where the main task is
  creating,      \* the icon appicon_create is at
  view,          \* the addresses of the AppIcons in the root window
  job,           \* job[i]: TA_Appicon_Read
  sending,       \* sending[i]: TA_AppMsg_Send jobs before their PutMsg
  inport,        \* inport[i]: AppMessages in the program's port
  strays,        \* strays[i]: AppMessages put to the port after its end
  clicks         \* counter for the bound

flags == <<newentry, removedentry, loadedentry>>
messages == <<sending, inport, strays, clicks>>
vars == <<appicon_list, flags, pool, apc, ipcsig, mpc, creating, view, job,
          messages>>

\* The program has no icon yet, has linked the entry, goes on, has unlinked
\* it, has got its RemoveAppIcon done, has deleted its port.
APC == {"none", "linked", "have", "unlinked", "removed", "closed"}
\* In doloop; before the second half of appicon_markasloaded; in
\* appicon_synchronize; there within methodstack_push_sync; ended.
MPC == {"idle", "marked", "sync", "nested", "gone"}
Job == {"none", "queued", "push", "ok", "failed", "aborted", "done"}

TypeOK ==
  /\ appicon_list \subseteq Icons
  /\ newentry \in [Icons -> BOOLEAN]
  /\ removedentry \in [Icons -> BOOLEAN]
  /\ loadedentry \in [Icons -> BOOLEAN]
  /\ pool \in [Icons -> {"none", "live", "freed"}]
  /\ apc \in [Icons -> APC]
  /\ ipcsig \in BOOLEAN
  /\ mpc \in MPC
  /\ creating \in Icons \cup {NULL}
  /\ view \subseteq Icons \cup {NULL}
  /\ job \in [Icons -> Job]
  /\ sending \in [Icons -> Nat]
  /\ inport \in [Icons -> Nat]
  /\ strays \in [Icons -> Nat]
  /\ clicks \in [Icons -> 0..MaxClicks]

Init ==
  /\ appicon_list = {}
  /\ newentry = [i \in Icons |-> FALSE]
  /\ removedentry = [i \in Icons |-> FALSE]
  /\ loadedentry = [i \in Icons |-> FALSE]
  /\ pool = [i \in Icons |-> "none"]
  /\ apc = [i \in Icons |-> "none"]
  /\ ipcsig = FALSE
  /\ mpc = "idle"
  /\ creating = NULL
  /\ view = {}
  /\ job = [i \in Icons |-> "none"]
  /\ sending = [i \in Icons |-> 0]
  /\ inport = [i \in Icons |-> 0]
  /\ strays = [i \in Icons |-> 0]
  /\ clicks = [i \in Icons |-> 0]

\* ipcdata.sema is free: only appicon_synchronize holds it over several steps.
Free == mpc \in {"idle", "marked", "gone"}

\* FindSemaphore("Ambient IPC")
Running == mpc # "gone"

Fails(kind) == kind \in Failures

-----------------------------------------------------------------------------
(* The programs: workbench.library.                                        *)

Step(i, from, to) == apc[i] = from /\ apc' = [apc EXCEPT ![i] = to]

\* AddAppIconA, up to ReleaseSemaphore. Without Ambient it fails.
AddLink(i) ==
  /\ Running
  /\ Free
  /\ Step(i, "none", "linked")
  /\ pool' = [pool EXCEPT ![i] = "live"]
  /\ \/ /\ appicon_list' = appicon_list \cup {i}
        /\ newentry' = [newentry EXCEPT ![i] = TRUE]
     \/ /\ Fails("nonode")
        /\ UNCHANGED <<appicon_list, newentry>>
  /\ UNCHANGED <<removedentry, loadedentry, ipcsig, mpc, creating, view, job,
                 messages>>

\* Mutant of AddSignal: no Signal.
AddSilently(i) ==
  /\ Step(i, "linked", "have")
  /\ UNCHANGED <<appicon_list, flags, pool, ipcsig, mpc, creating, view, job,
                 messages>>

AddSignal(i) ==
  /\ Step(i, "linked", "have")
  /\ ipcsig' = TRUE
  /\ UNCHANGED <<appicon_list, flags, pool, mpc, creating, view, job, messages>>

\* An entry Ambient has not seen is disposed of here, others are marked.
Unlink(i) ==
  IF i \notin appicon_list
    THEN UNCHANGED <<appicon_list, pool, removedentry>>
    ELSE IF newentry[i]
      THEN /\ appicon_list' = appicon_list \ {i}
           /\ pool' = [pool EXCEPT ![i] = "freed"]
           /\ UNCHANGED removedentry
      ELSE /\ removedentry' = [removedentry EXCEPT ![i] = TRUE]
           /\ UNCHANGED <<appicon_list, pool>>

\* RemoveAppIcon, up to ReleaseSemaphore
RemoveUnlink(i) ==
  /\ Running
  /\ Free
  /\ Step(i, "have", "unlinked")
  /\ Unlink(i)
  /\ UNCHANGED <<newentry, loadedentry, ipcsig, mpc, creating, view, job, messages>>

\* Mutant of RemoveSignal: no Signal.
RemoveSilently(i) ==
  /\ Step(i, "unlinked", "removed")
  /\ UNCHANGED <<appicon_list, flags, pool, ipcsig, mpc, creating, view, job,
                 messages>>

RemoveSignal(i) ==
  /\ Step(i, "unlinked", "removed")
  /\ ipcsig' = TRUE
  /\ UNCHANGED <<appicon_list, flags, pool, mpc, creating, view, job, messages>>

\* RemoveAppIcon when Ambient has ended
RemoveLate(i) ==
  /\ ~Running
  /\ Step(i, "have", "removed")
  /\ UNCHANGED <<appicon_list, flags, pool, ipcsig, mpc, creating, view, job,
                 messages>>

\* The program replies an AppMessage; its sender's job ends.
Serve(i) ==
  /\ apc[i] \in {"linked", "have", "unlinked", "removed"}
  /\ inport[i] > 0
  /\ inport' = [inport EXCEPT ![i] = @ - 1]
  /\ UNCHANGED <<appicon_list, flags, pool, apc, ipcsig, mpc, creating, view, job,
                 sending, strays, clicks>>

\* "You MUST check the AppMessage port after removal." The program has done
\* so, nothing is left in it, and it deletes the port.
ClosePort(i) ==
  /\ inport[i] = 0
  /\ Step(i, "removed", "closed")
  /\ UNCHANGED <<appicon_list, flags, pool, ipcsig, mpc, creating, view, job,
                 messages>>

-----------------------------------------------------------------------------
(* The main task.                                                          *)

\* Mutant of Removable: loadedentry is not looked at.
RemovableAlways == {i \in appicon_list : removedentry[i]}

\* The entries appicon_synchronize disposes of. Those a thread still reads
\* are put off.
Removable == {i \in appicon_list : removedentry[i] /\ loadedentry[i]}

\* appicon_synchronize, its first loop. The semaphore is kept.
Synchronize ==
  /\ LET gone == Removable
     IN  /\ appicon_list' = appicon_list \ gone
         /\ view' = view \ gone
         /\ pool' = [i \in Icons |-> IF i \in gone THEN "freed" ELSE pool[i]]
  /\ mpc' = "sync"

\* ipc_handle
IpcHandle ==
  /\ mpc = "idle"
  /\ ipcsig
  /\ ipcsig' = FALSE
  /\ Synchronize
  /\ UNCHANGED <<flags, apc, creating, job, messages>>

\* appicon_create of an icon with a file: the rest is up to a thread. When
\* there is none the entry counts as loaded.
CreateAsync(i) ==
  /\ mpc = "sync"
  /\ i \in appicon_list \cap Own
  /\ newentry[i]
  /\ newentry' = [newentry EXCEPT ![i] = FALSE]
  /\ \/ /\ job' = [job EXCEPT ![i] = "queued"]
        /\ UNCHANGED loadedentry
     \/ /\ Fails("nothread")
        /\ loadedentry' = [loadedentry EXCEPT ![i] = TRUE]
        /\ UNCHANGED job
  /\ UNCHANGED <<appicon_list, removedentry, pool, apc, ipcsig, mpc, creating, view,
                 messages>>

\* appicon_create of an icon from an image in memory: setattrs runs pushed
\* methods before it returns.
CreateStarts(i) ==
  /\ mpc = "sync"
  /\ i \in appicon_list \ Own
  /\ newentry[i]
  /\ newentry' = [newentry EXCEPT ![i] = FALSE]
  /\ mpc' = "nested"
  /\ creating' = i
  /\ UNCHANGED <<appicon_list, removedentry, loadedentry, pool, apc, ipcsig, view,
                 job, messages>>

CreateEnds ==
  /\ mpc = "nested"
  /\ mpc' = "sync"
  /\ view' = view \cup {creating}
  /\ loadedentry' = [loadedentry EXCEPT ![creating] = TRUE]
  /\ creating' = NULL
  /\ UNCHANGED <<appicon_list, newentry, removedentry, pool, apc, ipcsig, job,
                 messages>>

\* ReleaseSemaphore, once the second loop has seen every entry
SynchronizeEnds ==
  /\ mpc = "sync"
  /\ \A i \in appicon_list : ~newentry[i]
  /\ mpc' = "idle"
  /\ UNCHANGED <<appicon_list, flags, pool, apc, ipcsig, creating, view, job,
                 messages>>

\* MM_Thread_Finished for TA_Appicon_Read, when the file has been read: the
\* icon is added, the entry marked (appicon_markasloaded).
ReadFinished(i) ==
  /\ mpc = "idle"
  /\ job[i] = "ok"
  /\ job' = [job EXCEPT ![i] = "done"]
  /\ view' = view \cup {i}
  /\ loadedentry' = [loadedentry EXCEPT ![i] = i \in appicon_list]
  /\ mpc' = "marked"
  /\ UNCHANGED <<appicon_list, newentry, removedentry, pool, apc, ipcsig, creating,
                 messages>>

\* An abort has a status that is not 0 either. The icon is added without
\* having been set up, and no entry has its address, which is NULL.
ReadAborted(i) ==
  /\ mpc = "idle"
  /\ job[i] = "aborted"
  /\ job' = [job EXCEPT ![i] = "done"]
  /\ view' = view \cup {NULL}
  /\ mpc' = "marked"
  /\ UNCHANGED <<appicon_list, flags, pool, apc, ipcsig, creating, messages>>

\* The icon is disposed of.
ReadFailed(i) ==
  /\ mpc = "idle"
  /\ job[i] = "failed"
  /\ job' = [job EXCEPT ![i] = "done"]
  /\ UNCHANGED <<appicon_list, flags, pool, apc, ipcsig, mpc, creating, view,
                 messages>>

\* Mutant of MarkedSynchronize: what was put off waits for the next signal.
MarkedOnly ==
  /\ mpc = "marked"
  /\ mpc' = "idle"
  /\ UNCHANGED <<appicon_list, flags, pool, apc, ipcsig, creating, view, job,
                 messages>>

\* appicon_markasloaded goes on with appicon_synchronize.
MarkedSynchronize ==
  /\ mpc = "marked"
  /\ Synchronize
  /\ UNCHANGED <<flags, apc, ipcsig, creating, job, messages>>

\* The user double clicks the icon.
Click(i) ==
  /\ mpc = "idle"
  /\ i \in view
  /\ clicks[i] < MaxClicks
  /\ clicks' = [clicks EXCEPT ![i] = @ + 1]
  /\ sending' = [sending EXCEPT ![i] = @ + 1]
  /\ UNCHANGED <<appicon_list, flags, pool, apc, ipcsig, mpc, creating, view, job,
                 inport, strays>>

\* doloop ends when no thread is left; ipc_cleanup frees the entries.
Quit ==
  /\ CanQuit
  /\ mpc = "idle"
  /\ \A i \in Icons :
       /\ job[i] \in {"none", "done"}
       /\ sending[i] + inport[i] + strays[i] = 0
  /\ mpc' = "gone"
  /\ view' = {}
  /\ appicon_list' = {}
  /\ pool' = [i \in Icons |-> IF i \in appicon_list THEN "freed" ELSE pool[i]]
  /\ UNCHANGED <<flags, apc, ipcsig, creating, job, messages>>

-----------------------------------------------------------------------------
(* The threads.                                                            *)

\* icon_read, of the path in the entry
ReadIcon(i) ==
  /\ job[i] = "queued"
  /\ job' \in {[job EXCEPT ![i] = to] :
                 to \in {"push"}
                        \cup (IF Fails("unreadable") THEN {"failed"} ELSE {})
                        \cup (IF Fails("refused") THEN {"aborted"} ELSE {})}
  /\ UNCHANGED <<appicon_list, flags, pool, apc, ipcsig, mpc, creating, view,
                 messages>>

\* setattrs: its methods run when the main task looks at its method stack.
SetAttrs(i) ==
  /\ job[i] = "push"
  /\ mpc \in {"idle", "nested"}
  /\ job' = [job EXCEPT ![i] = "ok"]
  /\ UNCHANGED <<appicon_list, flags, pool, apc, ipcsig, mpc, creating, view,
                 messages>>

\* Mutant of SendAppMessage: one job sends twice.
SendTwice(i) ==
  /\ clicks[i] > 0
  /\ sending' = [sending EXCEPT ![i] = @ - 1]
  /\ IF apc[i] = "closed"
       THEN strays' = [strays EXCEPT ![i] = @ + 1] /\ UNCHANGED inport
       ELSE inport' = [inport EXCEPT ![i] = @ + 1] /\ UNCHANGED strays
  /\ UNCHANGED <<appicon_list, flags, pool, apc, ipcsig, mpc, creating, view, job,
                 clicks>>

\* tr_appmessage_send: PutMsg to the port the icon was made with.
SendAppMessage(i) ==
  /\ sending[i] > 0
  /\ sending' = [sending EXCEPT ![i] = @ - 1]
  /\ IF apc[i] = "closed"
       THEN strays' = [strays EXCEPT ![i] = @ + 1] /\ UNCHANGED inport
       ELSE inport' = [inport EXCEPT ![i] = @ + 1] /\ UNCHANGED strays
  /\ UNCHANGED <<appicon_list, flags, pool, apc, ipcsig, mpc, creating, view, job,
                 clicks>>

-----------------------------------------------------------------------------

ProgramNext(i) ==
  \/ AddLink(i) \/ AddSignal(i) \/ RemoveUnlink(i) \/ RemoveSignal(i)
  \/ RemoveLate(i) \/ Serve(i) \/ ClosePort(i)

MainNext ==
  \/ IpcHandle \/ CreateEnds \/ SynchronizeEnds \/ MarkedSynchronize
  \/ \E i \in Icons : \/ CreateAsync(i) \/ CreateStarts(i) \/ ReadFinished(i)
                      \/ ReadAborted(i) \/ ReadFailed(i)

ThreadNext(i) == ReadIcon(i) \/ SetAttrs(i) \/ SendAppMessage(i)

Next ==
  \/ MainNext
  \/ Quit
  \/ \E i \in Icons : ProgramNext(i) \/ ThreadNext(i) \/ Click(i)

\* The main task and the threads are scheduled; the main task looks at its
\* method stack again and again; calls of workbench.library return.
Fairness ==
  /\ WF_vars(MainNext)
  /\ \A i \in Icons :
       /\ WF_vars(ReadIcon(i)) /\ SF_vars(SetAttrs(i)) /\ WF_vars(SendAppMessage(i))
       /\ WF_vars(AddSignal(i)) /\ WF_vars(RemoveSignal(i))

Spec == Init /\ [][Next]_vars /\ Fairness

-----------------------------------------------------------------------------
(* Properties.                                                             *)

\* The thread that reads the icon uses the entry's message, and the icon
\* it has set up is added under its address.
Reading(i) == job[i] \in {"queued", "push", "ok"}

\* The memory of an entry is there as long as somebody uses it: the list it
\* is linked in, the thread that reads its file, the call that creates its
\* icon, the icon on the desktop, which has it for its address. So the three
\* flags keep the program, the main task and the thread from freeing what
\* another one of them still needs.
MemoryKept ==
  \A i \in Icons :
    i \in appicon_list \/ Reading(i) \/ creating = i \/ i \in view
      => pool[i] = "live"

\* When the main task sleeps with no signal pending it has dealt with every
\* entry whose program is not about to signal: no new entry is left, and no
\* removed one that may go.
NothingOverlooked ==
  mpc = "idle" /\ ~ipcsig =>
    \A i \in appicon_list :
      /\ newentry[i] => apc[i] = "linked"
      /\ removedentry[i] /\ loadedentry[i] => apc[i] = "unlinked"

\* The file of the icon could not be read: its entry is never marked as loaded.
Unread(i) == job[i] = "done" /\ ~loadedentry[i]

\* "if icon was already added, node itself will be deleted from ambient after
\* icon is removed" (RemoveAppIcon): an entry marked as removed is disposed
\* of, and its icon leaves the desktop. Ambient postpones this forever when
\* the file of the icon could not be read; see README.md.
RemovalCompletes ==
  \A i \in Icons :
    removedentry[i] ~> \/ pool[i] = "freed" /\ i \notin view
                      \/ Unread(i)

\* "A pointer to AppIcon handle or NULL if icon could not be added"
\* (AddAppIconA): the icon of a program that got a handle, and an entry,
\* appears, unless the program removes it, no thread can read its file or
\* reading fails, or Ambient quits.
IconAppears ==
  \A i \in Icons :
    apc[i] = "have" /\ i \in appicon_list ~>
      \/ i \in view
      \/ apc[i] # "have"
      \/ Unread(i)
      \/ loadedentry[i] /\ job[i] = "none"
      \/ ~Running

\* "You MUST check the AppMessage port after removal." (RemoveAppIcon): a
\* program that has done so gets no AppMessage any more. (The code does not
\* keep this; see README.md.)
NoStrayMessages == \A i \in Icons : strays[i] = 0
=============================================================================
