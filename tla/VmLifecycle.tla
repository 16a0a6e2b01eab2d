---------------------------- MODULE VmLifecycle ----------------------------
(***************************************************************************)
(* The life of a user's Firecracker VM in the server process: admission    *)
(* of a request, provisioning, the terminal session, saving the root file  *)
(* system on disconnect, resetting it, the idle sweep, shutdown, a crash.  *)
(*                                                                         *)
(* A task is one tokio task: an HTTP request from its arrival to its       *)
(* response, or the terminal session a WebSocket upgrade turns it into.    *)
(* A step of a task is the code between two awaits, or a critical section  *)
(* of one of the two short mutexes; everything interleaves between steps.  *)
(* rootfs_lock is tokio's fair mutex: the head of lockQueue holds it.      *)
(*                                                                         *)
(* The contents of a disk are the VMs whose user's work it carries: the    *)
(* base image is {}, and a VM that its user worked in adds its own id.     *)
(* VmIds are Uuid::new_v4(), never used twice.                             *)
(***************************************************************************)
EXTENDS Naturals, FiniteSets, Sequences

CONSTANTS
    Users,      \* rows of the users table
    VmIds,      \* VM ids; a run creates at most |VmIds| VMs
    Tasks,      \* concurrent requests and terminal sessions
    Main,       \* serve_router, which saves every VM on shutdown
    None,       \* no user, no VM
    MaxVms      \* config.vm_max_count

ASSUME ConstantsAssumption ==
    /\ MaxVms \in Nat
    /\ Main \notin Tasks
    /\ None \notin Users
    /\ None \notin VmIds

VARIABLES
    vms,            \* AppState.vms: the ids registered
    owner,          \* VmEntry.user_id of every VM created
    idle,           \* registered VMs whose last_activity is older than IDLE_TIMEOUT
    provisioning,   \* AppState.provisioning_users
    lockQueue,      \* AppState.rootfs_lock: holder, then waiters in order
    pc,             \* where each task is
    user,           \* the user a task works for
    held,           \* the VM a task has in hand
    main,           \* where serve_router is
    draining,       \* save_all_vm_rootfs: entries drained and not yet saved
    alive,          \* Firecracker processes running
    disk,           \* contents of a running VM's own copy of the root file system
    hasFile,        \* users whose user_rootfs_dir/{user_id}.ext4 exists
    file,           \* contents of that file
    wipe,           \* history: the user's VMs and work when a reset began, and
                    \* whether no provisioning or save of the user was in flight
    promised,       \* history: work forgotten by a reset that reported success
    erased          \* history: that of promised whose reset met nothing in flight

registryVars == <<vms, owner, idle>>
diskVars     == <<alive, disk>>
fileVars     == <<hasFile, file>>
mainVars     == <<main, draining>>
historyVars  == <<wipe, promised, erased>>
vars == <<vms, owner, idle, provisioning, lockQueue, pc, user, held, main, draining,
          alive, disk, hasFile, file, wipe, promised, erased>>

Labels == {"free", "lookup", "reserve", "ensureLock", "ensureWait", "copy", "create",
           "register", "registered", "ready", "relay", "saveLock", "saveWait", "save",
           "delete", "deleteLock", "deleteWait", "deleteFile"}
MainLabels == {"serving", "grace", "drainWait", "drainSave", "down"}

NoWipe == [vms |-> {}, work |-> {}, quiet |-> FALSE]

TypeOK ==
    /\ vms \subseteq VmIds
    /\ owner \in [VmIds -> Users \cup {None}]
    /\ idle \subseteq vms
    /\ provisioning \subseteq Users
    /\ lockQueue \in Seq(Tasks \cup {Main})
    /\ pc \in [Tasks -> Labels]
    /\ user \in [Tasks -> Users \cup {None}]
    /\ held \in [Tasks -> VmIds \cup {None}]
    /\ main \in MainLabels
    /\ draining \subseteq VmIds
    /\ alive \subseteq VmIds
    /\ disk \in [VmIds -> SUBSET VmIds]
    /\ hasFile \subseteq Users
    /\ file \in [Users -> SUBSET VmIds]
    /\ wipe \in [Tasks -> [vms : SUBSET VmIds, work : SUBSET VmIds, quiet : BOOLEAN]]
    /\ promised \subseteq VmIds
    /\ erased \subseteq VmIds

Init ==
    /\ vms = {}
    /\ owner = [v \in VmIds |-> None]
    /\ idle = {}
    /\ provisioning = {}
    /\ lockQueue = <<>>
    /\ pc = [t \in Tasks |-> "free"]
    /\ user = [t \in Tasks |-> None]
    /\ held = [t \in Tasks |-> None]
    /\ main = "serving"
    /\ draining = {}
    /\ alive = {}
    /\ disk = [v \in VmIds |-> {}]
    /\ hasFile \in SUBSET Users
    /\ file = [u \in Users |-> {}]
    /\ wipe = [t \in Tasks |-> NoWipe]
    /\ promised = {}
    /\ erased = {}

-----------------------------------------------------------------------------
(* Helpers.                                                                *)

Up == main # "down"

VmsOf(u) == {v \in VmIds : owner[v] = u}

Goto(t, label) == pc' = [pc EXCEPT ![t] = label]

\* The task is over: its response is sent, or its session has ended.
Finish(t) ==
    /\ pc' = [pc EXCEPT ![t] = "free"]
    /\ user' = [user EXCEPT ![t] = None]
    /\ held' = [held EXCEPT ![t] = None]
    /\ wipe' = [wipe EXCEPT ![t] = NoWipe]

\* rootfs_lock: lock() appends, dropping the guard removes the holder.
HasLock(t) == lockQueue # <<>> /\ Head(lockQueue) = t
Enqueue(t) == lockQueue' = Append(lockQueue, t)
Unlock == lockQueue' = Tail(lockQueue)

\* A waiter (or a holder) leaves: timeout() gives up, or its future is dropped.
LeaveQueue(t) ==
    \E i \in 1..Len(lockQueue) :
        /\ lockQueue[i] = t
        /\ lockQueue' = SubSeq(lockQueue, 1, i - 1)
                            \o SubSeq(lockQueue, i + 1, Len(lockQueue))

\* Requests that hold a ProvisioningGuard; those past "register" are registered.
Unregistered == {"ensureLock", "ensureWait", "copy", "create", "register"}
Guarded == Unregistered \cup {"registered"}
Saving == {"saveLock", "saveWait", "save"}

-----------------------------------------------------------------------------
(* A request that needs a VM: the UserVm extractor and provision_new_vm.   *)

\* An authenticated request of a user arrives; `delete` is POST /rootfs/delete.
Arrive(t, u) ==
    /\ main = "serving"
    /\ pc[t] = "free"
    /\ user' = [user EXCEPT ![t] = u]
    /\ \E label \in {"lookup", "delete"} : Goto(t, label)
    /\ UNCHANGED <<registryVars, provisioning, lockQueue, held, mainVars,
                   diskVars, fileVars, historyVars>>

\* Mutant: the lookup does not compare the user.
FindUserVm_AnyUser(t) ==
    /\ pc[t] = "lookup"
    /\ \/ \E v \in vms : held' = [held EXCEPT ![t] = v] /\ Goto(t, "ready")
       \/ vms = {} /\ Goto(t, "reserve") /\ UNCHANGED held
    /\ UNCHANGED <<registryVars, provisioning, lockQueue, user, mainVars,
                   diskVars, fileVars, historyVars>>

\* find_user_vm, under the registry mutex alone.
FindUserVm(t) ==
    /\ pc[t] = "lookup"
    /\ \/ \E v \in vms :
            /\ owner[v] = user[t]
            /\ held' = [held EXCEPT ![t] = v]
            /\ Goto(t, "ready")
       \/ /\ \A v \in vms : owner[v] # user[t]
          /\ Goto(t, "reserve")
          /\ UNCHANGED held
    /\ UNCHANGED <<registryVars, provisioning, lockQueue, user, mainVars,
                   diskVars, fileVars, historyVars>>

\* Mutants: the limit is compared before the insertion is counted; the registry
\* is not looked at again; provisions in flight are not counted.
SlotAvailable_OffByOne(u) ==
    /\ \A v \in vms : owner[v] # u
    /\ u \notin provisioning
    /\ Cardinality(vms) + Cardinality(provisioning) <= MaxVms

SlotAvailable_StaleLookup(u) ==
    /\ u \notin provisioning
    /\ Cardinality(vms) + Cardinality(provisioning) < MaxVms

SlotAvailable_RunningOnly(u) ==
    /\ \A v \in vms : owner[v] # u
    /\ u \notin provisioning
    /\ Cardinality(vms) < MaxVms

\* acquire_provisioning_slot admits: the three checks and the insertion.
SlotAvailable(u) ==
    /\ \A v \in vms : owner[v] # u
    /\ u \notin provisioning
    /\ Cardinality(vms) + Cardinality(provisioning) < MaxVms

Reserve(t) ==
    /\ pc[t] = "reserve"
    /\ SlotAvailable(user[t])
    /\ provisioning' = provisioning \cup {user[t]}
    /\ Goto(t, "ensureLock")
    /\ UNCHANGED <<registryVars, lockQueue, user, held, mainVars,
                   diskVars, fileVars, historyVars>>

\* acquire_provisioning_slot rejects; the request fails.
Reject(t) ==
    /\ pc[t] = "reserve"
    /\ ~SlotAvailable(user[t])
    /\ Finish(t)
    /\ UNCHANGED <<registryVars, provisioning, lockQueue, mainVars,
                   diskVars, fileVars, promised, erased>>

\* rootfs_lock.lock() is first polled: by ensure_user_rootfs, by the save on
\* disconnect (its create_dir_all done), by the reset.
RequestLock(t) ==
    /\ \E p \in {<<"ensureLock", "ensureWait">>, <<"saveLock", "saveWait">>,
                 <<"deleteLock", "deleteWait">>} :
            /\ pc[t] = p[1]
            /\ Goto(t, p[2])
    /\ Enqueue(t)
    /\ UNCHANGED <<registryVars, provisioning, user, held, mainVars,
                   diskVars, fileVars, historyVars>>

\* ensure_user_rootfs holds the lock and finds the file: it returns, unlocking.
FindFile(t) ==
    /\ pc[t] = "ensureWait"
    /\ HasLock(t)
    /\ user[t] \in hasFile
    /\ Unlock
    /\ Goto(t, "create")
    /\ UNCHANGED <<registryVars, provisioning, user, held, mainVars,
                   diskVars, fileVars, historyVars>>

\* Mutant: the file is looked for before the lock is held.
MissFile_Unlocked(t) ==
    /\ pc[t] = "ensureWait"
    /\ user[t] \notin hasFile
    /\ Goto(t, "copy")
    /\ UNCHANGED <<registryVars, provisioning, lockQueue, user, held, mainVars,
                   diskVars, fileVars, historyVars>>

\* ensure_user_rootfs holds the lock and finds no file: it goes on to
\* create_dir_all and copy_sparse, still holding the lock.
MissFile(t) ==
    /\ pc[t] = "ensureWait"
    /\ HasLock(t)
    /\ user[t] \notin hasFile
    /\ Goto(t, "copy")
    /\ UNCHANGED <<registryVars, provisioning, lockQueue, user, held, mainVars,
                   diskVars, fileVars, historyVars>>

CopyBase(t) ==
    /\ pc[t] = "copy"
    /\ hasFile' = hasFile \cup {user[t]}
    /\ file' = [file EXCEPT ![user[t]] = {}]
    /\ Unlock
    /\ Goto(t, "create")
    /\ UNCHANGED <<registryVars, provisioning, user, held, mainVars,
                   diskVars, historyVars>>

\* An interrupted copy_sparse leaves the path existing or not.
InterruptedCopies(users) ==
    \E partial \in SUBSET users :
        /\ hasFile' = hasFile \cup partial
        /\ file' = [u \in Users |-> IF u \in partial THEN {} ELSE file[u]]

\* ProvisioningGuard::drop.
DropGuard(t) == provisioning' = provisioning \ {user[t]}

\* Waiting 30 s for the lock, or the request's future is dropped (the browser
\* went away), while waiting.
GiveUpEnsure(t) ==
    /\ pc[t] = "ensureWait"
    /\ LeaveQueue(t)
    /\ DropGuard(t)
    /\ Finish(t)
    /\ UNCHANGED <<registryVars, mainVars, diskVars, fileVars, promised, erased>>

\* create_dir_all or copy_sparse fails, or the request is dropped meanwhile.
CopyFails(t) ==
    /\ pc[t] = "copy"
    /\ InterruptedCopies({user[t]})
    /\ Unlock
    /\ DropGuard(t)
    /\ Finish(t)
    /\ UNCHANGED <<registryVars, mainVars, diskVars, promised, erased>>

\* fetch_host_iam_credentials and create_vm: the VM boots from a copy of the
\* user's file, read without the lock.
CreateVm(t) ==
    /\ pc[t] = "create"
    /\ user[t] \in hasFile
    /\ \E v \in VmIds :
            /\ owner[v] = None
            /\ owner' = [owner EXCEPT ![v] = user[t]]
            /\ alive' = alive \cup {v}
            /\ disk' = [disk EXCEPT ![v] = file[user[t]]]
            /\ held' = [held EXCEPT ![t] = v]
    /\ Goto(t, "register")
    /\ UNCHANGED <<vms, idle, provisioning, lockQueue, user, mainVars,
                   fileVars, historyVars>>

\* Mutant: an error of create_vm leaves the reservation behind.
CreateFails_KeepsSlot(t) ==
    /\ pc[t] = "create"
    /\ Finish(t)
    /\ UNCHANGED <<registryVars, provisioning, lockQueue, mainVars, diskVars, fileVars,
                   promised, erased>>

\* The credentials or the VM fail (the file may be gone by now), or the
\* request is dropped: the guard drops too.
CreateFails(t) ==
    /\ pc[t] = "create"
    /\ DropGuard(t)
    /\ Finish(t)
    /\ UNCHANGED <<registryVars, lockQueue, mainVars, diskVars, fileVars,
                   promised, erased>>

RegisterVm(t) ==
    /\ pc[t] = "register"
    /\ vms' = vms \cup {held[t]}
    /\ Goto(t, "registered")
    /\ UNCHANGED <<owner, idle, provisioning, lockQueue, user, held, mainVars,
                   diskVars, fileVars, historyVars>>

\* provision_new_vm returns and its guard drops.
Provisioned(t) ==
    /\ pc[t] = "registered"
    /\ DropGuard(t)
    /\ Goto(t, "ready")
    /\ UNCHANGED <<registryVars, lockQueue, user, held, mainVars,
                   diskVars, fileVars, historyVars>>

-----------------------------------------------------------------------------
(* What a request does with its VM.                                        *)

\* update_vm_last_activity; the entry may be gone.
Touch(v) == idle' = idle \ {v}

\* A page, a listing, a file transfer, a 404: the registry is left alone.
Respond(t) ==
    /\ pc[t] = "ready"
    /\ Finish(t)
    /\ UNCHANGED <<registryVars, provisioning, lockQueue, mainVars,
                   diskVars, fileVars, promised, erased>>

\* handle_chat_query and handle_chat_reconnect.
Chat(t) ==
    /\ pc[t] = "ready"
    /\ Touch(held[t])
    /\ Finish(t)
    /\ UNCHANGED <<vms, owner, provisioning, lockQueue, mainVars,
                   diskVars, fileVars, promised, erased>>

\* handle_ws_upgrade with the id of the user's VM, then run_terminal_session.
OpenTerminal(t) ==
    /\ pc[t] = "ready"
    /\ Touch(held[t])
    /\ Goto(t, "relay")
    /\ UNCHANGED <<vms, owner, provisioning, lockQueue, user, held, mainVars,
                   diskVars, fileVars, historyVars>>

\* run_ssh_relay: bytes, resizes and keepalives go back and forth, and change nothing
\* here. It may end at any time: SSH does not connect, the shell exits, either side
\* closes, or a send takes 30 s.
InRelay(t) == pc[t] = "relay"

\* Mutant: the entry is looked up, not removed.
Disconnect_KeepsEntry(t) ==
    /\ InRelay(t)
    /\ held[t] \in vms
    /\ Goto(t, "saveLock")
    /\ UNCHANGED <<registryVars, provisioning, lockQueue, user, held, mainVars,
                   diskVars, fileVars, historyVars>>

\* The relay ends and save_and_drop_vm takes the entry out of the registry.
Disconnect(t) ==
    /\ InRelay(t)
    /\ held[t] \in vms
    /\ vms' = vms \ {held[t]}
    /\ Touch(held[t])
    /\ Goto(t, "saveLock")
    /\ UNCHANGED <<owner, provisioning, lockQueue, user, held, mainVars,
                   diskVars, fileVars, historyVars>>

\* The relay ends and the registry no longer has the VM: nothing to save.
DisconnectGone(t) ==
    /\ InRelay(t)
    /\ held[t] \notin vms
    /\ Finish(t)
    /\ UNCHANGED <<registryVars, provisioning, lockQueue, mainVars,
                   diskVars, fileVars, promised, erased>>

DropVm(v) == alive' = alive \ {v}

LockForSave(t) ==
    /\ pc[t] = "saveWait"
    /\ HasLock(t)
    /\ Goto(t, "save")
    /\ UNCHANGED <<registryVars, provisioning, lockQueue, user, held, mainVars,
                   diskVars, fileVars, historyVars>>

\* Vm::save_rootfs copies the VM's disk over the file of the session's user.
WriteFile(u, contents) ==
    /\ hasFile' = hasFile \cup {u}
    /\ file' = [file EXCEPT ![u] = contents]

SaveRootfs(t) ==
    /\ pc[t] = "save"
    /\ WriteFile(user[t], disk[held[t]])
    /\ Unlock
    /\ DropVm(held[t])
    /\ Finish(t)
    /\ UNCHANGED <<registryVars, provisioning, mainVars, disk, promised, erased>>

\* Mutant: a save that did not get the lock asks for it again, and again.
SaveFails_Retries(t) ==
    /\ pc[t] = "saveWait"
    /\ LeaveQueue(t)
    /\ Goto(t, "saveLock")
    /\ UNCHANGED <<registryVars, provisioning, user, held, mainVars,
                   diskVars, fileVars, historyVars>>

\* create_dir_all fails, 30 s pass in the queue, or save_rootfs fails: the
\* error is logged and the VM dropped all the same.
SaveFails(t) ==
    /\ \/ pc[t] = "saveLock" /\ UNCHANGED lockQueue
       \/ pc[t] = "saveWait" /\ LeaveQueue(t)
       \/ pc[t] = "save" /\ Unlock
    /\ DropVm(held[t])
    /\ Finish(t)
    /\ UNCHANGED <<registryVars, provisioning, mainVars, disk, fileVars,
                   promised, erased>>

-----------------------------------------------------------------------------
(* POST /rootfs/delete.                                                    *)

\* Nothing of the user is on its way into a VM or into the file.
Quiet(u) ==
    /\ main = "serving"
    /\ u \notin provisioning
    /\ \A s \in Tasks : pc[s] \in Saving => user[s] # u

\* The work of a user that exists: in the file, and in VMs that run.
WorkOf(u) == file[u] \cup UNION {disk[v] : v \in alive \cap VmsOf(u)}

\* Mutant: the reset leaves the user's running VM alone.
RemoveUserVm_Keeps(t) ==
    /\ pc[t] = "delete"
    /\ Goto(t, "deleteLock")
    /\ wipe' = [wipe EXCEPT ![t] = [vms |-> VmsOf(user[t]), work |-> WorkOf(user[t]),
                                    quiet |-> Quiet(user[t])]]
    /\ UNCHANGED <<registryVars, provisioning, lockQueue, user, held, mainVars,
                   diskVars, fileVars, promised, erased>>

\* remove_user_vm: the user's entries leave the registry and are dropped.
RemoveUserVm(t) ==
    /\ pc[t] = "delete"
    /\ LET removed == vms \cap VmsOf(user[t])
       IN  /\ vms' = vms \ removed
           /\ idle' = idle \ removed
           /\ alive' = alive \ removed
    /\ Goto(t, "deleteLock")
    /\ wipe' = [wipe EXCEPT ![t] = [vms |-> VmsOf(user[t]), work |-> WorkOf(user[t]),
                                    quiet |-> Quiet(user[t])]]
    /\ UNCHANGED <<owner, provisioning, lockQueue, user, held, mainVars,
                   disk, fileVars, promised, erased>>

LockForDelete(t) ==
    /\ pc[t] = "deleteWait"
    /\ HasLock(t)
    /\ Goto(t, "deleteFile")
    /\ UNCHANGED <<registryVars, provisioning, lockQueue, user, held, mainVars,
                   diskVars, fileVars, historyVars>>

\* remove_file succeeds, or there was no file.
DeleteFile(t) ==
    /\ pc[t] = "deleteFile"
    /\ hasFile' = hasFile \ {user[t]}
    /\ file' = [file EXCEPT ![user[t]] = {}]
    /\ promised' = promised \cup wipe[t].work
    /\ erased' = IF wipe[t].quiet /\ wipe[t].vms = VmsOf(user[t])
                 THEN erased \cup wipe[t].work ELSE erased
    /\ Unlock
    /\ Finish(t)
    /\ UNCHANGED <<registryVars, provisioning, mainVars, diskVars>>

\* 30 s pass in the queue, remove_file fails, or the request is dropped.
DeleteFails(t) ==
    /\ \/ pc[t] = "deleteWait" /\ LeaveQueue(t)
       \/ pc[t] = "deleteFile" /\ Unlock
    /\ Finish(t)
    /\ UNCHANGED <<registryVars, provisioning, mainVars, diskVars, fileVars,
                   promised, erased>>

-----------------------------------------------------------------------------
(* The guest, the clock and the idle sweep.                                *)

\* The user or the agent changes files in a VM that a request was given.
Work(v) ==
    /\ v \in alive
    /\ \A t \in Tasks : pc[t] = "register" => held[t] # v
    /\ disk' = [disk EXCEPT ![v] = @ \cup {v}]
    /\ UNCHANGED <<registryVars, provisioning, lockQueue, pc, user, held, mainVars,
                   alive, fileVars, historyVars>>

\* IDLE_TIMEOUT passes since last_activity.
GoIdle(v) ==
    /\ v \in vms \ idle
    /\ idle' = idle \cup {v}
    /\ UNCHANGED <<vms, owner, provisioning, lockQueue, pc, user, held, mainVars,
                   diskVars, fileVars, historyVars>>

\* sweep_idle_vms: the stale entries leave the registry and are dropped.
Sweep ==
    /\ main = "serving"
    /\ idle # {}
    /\ vms' = vms \ idle
    /\ alive' = alive \ idle
    /\ idle' = {}
    /\ UNCHANGED <<owner, provisioning, lockQueue, pc, user, held, mainVars,
                   disk, fileVars, historyVars>>

-----------------------------------------------------------------------------
(* serve_router: shutdown, and the process ending.                         *)

\* shutdown_signal: the sweep is aborted and no connection is accepted.
Signal ==
    /\ main = "serving"
    /\ main' = "grace"
    /\ UNCHANGED <<registryVars, provisioning, lockQueue, pc, user, held, draining,
                   diskVars, fileVars, historyVars>>

\* The five seconds are over: save_all_vm_rootfs drains the registry and asks
\* for the lock. Requests still running keep running.
Drain ==
    /\ main = "grace"
    /\ vms # {}
    /\ draining' = vms
    /\ vms' = {}
    /\ idle' = {}
    /\ Enqueue(Main)
    /\ main' = "drainWait"
    /\ UNCHANGED <<owner, provisioning, pc, user, held,
                   diskVars, fileVars, historyVars>>

LockForDrain ==
    /\ main = "drainWait"
    /\ HasLock(Main)
    /\ main' = "drainSave"
    /\ UNCHANGED <<registryVars, provisioning, lockQueue, pc, user, held, draining,
                   diskVars, fileVars, historyVars>>

\* save_vm_rootfs_to_dir saves the next VM, or logs that it could not.
SaveNext(v) ==
    /\ main = "drainSave"
    /\ v \in draining
    /\ draining' = draining \ {v}
    /\ WriteFile(owner[v], disk[v]) \/ UNCHANGED fileVars
    /\ UNCHANGED <<registryVars, provisioning, lockQueue, pc, user, held, main,
                   diskVars, historyVars>>

\* The memory of the process is gone, and every task with it.
LoseMemory ==
    /\ vms' = {}
    /\ idle' = {}
    /\ provisioning' = {}
    /\ lockQueue' = <<>>
    /\ pc' = [t \in Tasks |-> "free"]
    /\ user' = [t \in Tasks |-> None]
    /\ held' = [t \in Tasks |-> None]
    /\ wipe' = [t \in Tasks |-> NoWipe]
    /\ draining' = {}
    /\ main' = "down"
    /\ InterruptedCopies({user[t] : t \in {s \in Tasks : pc[s] = "copy"}})
    /\ UNCHANGED <<owner, disk, promised, erased>>

\* serve_router returns: nothing was running, all is saved, or the lock timed
\* out. The runtime drops the remaining tasks and with them their VMs.
Exit ==
    /\ \/ main = "grace" /\ vms = {}
       \/ main = "drainWait"
       \/ main = "drainSave" /\ draining = {}
    /\ LoseMemory
    /\ alive' = {}

\* The process dies; the Firecracker processes stay.
Crash ==
    /\ Up
    /\ LoseMemory
    /\ UNCHANGED alive

\* Mutant: cleanup_stale_vms is not called.
Start_NoCleanup ==
    /\ main = "down"
    /\ main' = "serving"
    /\ UNCHANGED <<registryVars, provisioning, lockQueue, pc, user, held, draining,
                   diskVars, fileVars, historyVars>>

\* main starts again and cleanup_stale_vms ends what a crash left.
Start ==
    /\ main = "down"
    /\ main' = "serving"
    /\ alive' = {}
    /\ UNCHANGED <<registryVars, provisioning, lockQueue, pc, user, held, draining,
                   disk, fileVars, historyVars>>

-----------------------------------------------------------------------------
Proceed(t) ==
    \/ FindUserVm(t) \/ Reserve(t) \/ Reject(t) \/ RequestLock(t)
    \/ FindFile(t) \/ MissFile(t) \/ CopyBase(t) \/ CopyFails(t) \/ GiveUpEnsure(t)
    \/ CreateVm(t) \/ CreateFails(t) \/ RegisterVm(t) \/ Provisioned(t)
    \/ LockForSave(t) \/ SaveRootfs(t) \/ SaveFails(t)
    \/ RemoveUserVm(t) \/ LockForDelete(t) \/ DeleteFile(t) \/ DeleteFails(t)

Next ==
    \/ \E t \in Tasks : \/ \E u \in Users : Arrive(t, u)
                        \/ Proceed(t)
                        \/ Respond(t) \/ Chat(t) \/ OpenTerminal(t)
                        \/ Disconnect(t) \/ DisconnectGone(t)
    \/ \E v \in VmIds : Work(v) \/ GoIdle(v) \/ SaveNext(v)
    \/ Sweep
    \/ Signal \/ Drain \/ LockForDrain \/ Exit \/ Crash \/ Start

Spec == Init /\ [][Next]_vars

(* The runtime polls every task that can run, and what a request awaits    *)
(* (the lock, file copies, AWS, Firecracker) answers or fails. Nothing     *)
(* obliges a user to arrive, work or leave, an idle VM to be swept soon,   *)
(* or the process to stop.                                                 *)
FairSpec == Spec /\ \A t \in Tasks : WF_vars(Proceed(t))

-----------------------------------------------------------------------------
(* Safety.                                                                 *)

\* Users whose provisioning has not reached the registry yet.
Booting == {user[t] : t \in {s \in Tasks : pc[s] \in Unregistered}}

\* Registered VMs and provisions on their way never exceed vm_max_count,
\* whatever requests, disconnects, sweeps and cancellations interleave
\* (acquire_provisioning_slot and the order in which provision_new_vm
\* registers and drops its guard).
CapacityRespected == Cardinality(vms) + Cardinality(Booting) <= MaxVms

\* A user never has two registered VMs, though the lookup that found none
\* (find_user_vm) and the registration (register_vm) are many awaits apart.
OneVmPerUser == \A v, w \in vms : owner[v] = owner[w] => v = w

\* Every registered VM is running, and every running VM is still owned by
\* the registry, by the task that creates or saves it, or by the shutdown
\* drain: no path drops an entry and leaves a VM running, none keeps an entry
\* whose VM was dropped (VmEntry owns its Vm, whose Drop ends the process).
NoLeakedVm ==
    /\ vms \subseteq alive
    /\ main \in {"serving", "grace", "drainWait"} =>
          \A v \in alive : \/ v \in vms \cup draining
                           \/ \E t \in Tasks : /\ held[t] = v
                                             /\ pc[t] \in Saving \cup {"register"}

\* At most one party saves a VM: two tabs that close together, the shutdown
\* drain and a disconnect never both hold the same entry (save_and_drop_vm,
\* save_all_vm_rootfs take it out of the registry first).
OneSaver ==
    \A t \in Tasks : pc[t] \in Saving =>
        /\ held[t] \notin vms \cup draining
        /\ \A s \in Tasks : pc[s] \in Saving /\ held[s] = held[t] => s = t

\* A user's saved file and VMs carry that user's work only, although the file
\* is chosen by the id the session brought, not by the entry's.
DiskIsolation ==
    /\ \A u \in Users : file[u] \subseteq VmsOf(u)
    /\ \A v \in alive : disk[v] \subseteq VmsOf(owner[v])

\* The base image is never copied over a file that exists: between the check
\* of ensure_user_rootfs and its copy nobody saves that user's file.
CopyTargetAbsent == \A t \in Tasks : pc[t] = "copy" => user[t] \notin hasFile

\* A reset that began with no provisioning and no save of the user in flight,
\* and during which no new VM came up, erases for good: the work that existed
\* then is in no file and in no running VM (delete_user_rootfs_handler).
QuietResetErases ==
    \A v \in erased : /\ v \notin file[owner[v]]
                      /\ \A w \in alive : v \notin disk[w]

(* The abstract specification this one implements.                         *)

\* A user's slot, as VmSlots sees it.
slotOf == [u \in Users |->
              IF \E v \in vms : owner[v] = u THEN "running"
              ELSE IF u \in Booting THEN "booting" ELSE "none"]

Slots == INSTANCE VmSlots WITH slot <- slotOf

\* Every step of the server is a step of VmSlots or leaves the slots alone:
\* admission, booting, failure, disconnect, reset, sweep, drain and crash.
ImplementsSlots == Slots!Spec

(* Liveness, under FairSpec.                                               *)

\* A reservation never leaks: a user who is being provisioned is not for
\* ever, by success, failure, timeout or cancellation (ProvisioningGuard).
ReservationsEnd == \A u \in Users : u \in provisioning ~> u \notin provisioning

\* A VM taken out of the registry while the server is up does not run for
\* ever: its save ends or is given up, and it is dropped.
RetiredVmsEnd ==
    \A v \in VmIds : (v \in alive \ vms /\ main = "serving")
                        ~> (v \notin alive \/ v \in vms \/ main # "serving")

(* What the documentation says and this code does not do.                  *)

\* server/spec.md: the WebSocket relay "drops VM and saves rootfs on close".
\* While the server serves, a session that ends with no save of its own finds
\* its VM's work saved, unless a reset erased it.
CloseSavesRootfs ==
    [][\A t \in Tasks :
            main = "serving" /\ Up' /\ pc[t] = "relay" /\ pc'[t] = "free"
            /\ held[t] \in disk[held[t]] \ promised
                => held[t] \in file[user[t]]]_vars

\* server/spec.md: "Persist user rootfs between sessions". Work that reached
\* the file stays in it until the user resets it.
SavedWorkSurvives ==
    [][\A u \in hasFile : u \in hasFile' => file[u] \subseteq file'[u]]_vars
=============================================================================
