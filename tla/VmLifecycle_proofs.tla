------------------------ MODULE VmLifecycle_proofs ------------------------
(***************************************************************************)
(* Proofs about VmLifecycle for every set of users, VM ids and tasks, and  *)
(* every limit: type correctness, at most one VM per user, the VM limit,   *)
(* that no user's disk ever carries another user's work, that the base     *)
(* image never replaces a saved file, that no VM is leaked or saved twice, *)
(* that the admission control is that of VmSlots, and that what a quiet    *)
(* reset erased does not come back.                                        *)
(***************************************************************************)
EXTENDS VmLifecycle, FiniteSetTheorems, SequenceTheorems, TLAPS

\* Labels at which a task has a VM in hand.
HasVm == {"register", "registered", "ready", "relay"} \cup Saving

\* What a task or an entry refers to exists: a busy task works for a user, the
\* VM it has in hand is that user's, and registered entries have owners.
RefInv ==
    /\ \A t \in Tasks : pc[t] # "free" => user[t] \in Users
    /\ \A t \in Tasks : pc[t] \in HasVm => /\ held[t] \in VmIds
                                           /\ owner[held[t]] = user[t]
    /\ \A v \in vms \cup draining : owner[v] \in Users

\* Whoever is inside a critical section of rootfs_lock is at its head.
LockInv ==
    /\ \A t \in Tasks : pc[t] \in {"copy", "save", "deleteFile"} => HasLock(t)
    /\ main = "drainSave" => HasLock(Main)

TypeInv == TypeOK /\ RefInv /\ LockInv

(* rootfs_lock stays a queue of tasks.                                     *)

\* A task that gives up waiting (timeout() around lock()) leaves a queue of
\* the same kind.
LEMMA LeaveQueueType ==
    ASSUME NEW Q, lockQueue \in Seq(Q), NEW t, LeaveQueue(t)
    PROVE  lockQueue' \in Seq(Q)
<1>1. PICK i \in 1..Len(lockQueue) :
            lockQueue' = SubSeq(lockQueue, 1, i - 1)
                            \o SubSeq(lockQueue, i + 1, Len(lockQueue))
  BY DEF LeaveQueue
<1>2. SubSeq(lockQueue, 1, i - 1) \in Seq(Q)
  BY SubSeqProperties, LenProperties
<1>3. SubSeq(lockQueue, i + 1, Len(lockQueue)) \in Seq(Q)
  BY SubSeqProperties, LenProperties
<1> QED
  BY <1>1, <1>2, <1>3, ConcatProperties

\* A holder that drops its guard leaves a queue of the same kind.
LEMMA UnlockType ==
    ASSUME NEW Q, lockQueue \in Seq(Q), lockQueue # <<>>
    PROVE  Tail(lockQueue) \in Seq(Q)
BY HeadTailProperties

\* The holder stays the holder when another task gives up, or joins the queue.
LEMMA LeaveKeepsHolder ==
    ASSUME NEW Q, lockQueue \in Seq(Q), NEW t, LeaveQueue(t), NEW h, HasLock(h), h # t
    PROVE  HasLock(h)'
<1>1. PICK i \in 1..Len(lockQueue) :
            /\ lockQueue[i] = t
            /\ lockQueue' = SubSeq(lockQueue, 1, i - 1)
                                \o SubSeq(lockQueue, i + 1, Len(lockQueue))
  BY DEF LeaveQueue
<1>2. lockQueue # <<>> /\ lockQueue[1] = h /\ Len(lockQueue) \in Nat
  BY HeadTailProperties, LenProperties DEF HasLock
<1>3. i # 1
  BY <1>1, <1>2
<1> DEFINE front == SubSeq(lockQueue, 1, i - 1)
           back  == SubSeq(lockQueue, i + 1, Len(lockQueue))
<1>4. front \in Seq(Q) /\ Len(front) = i - 1 /\ front[1] = h
  BY <1>2, <1>3, SubSeqProperties
<1>5. back \in Seq(Q)
  BY <1>2, SubSeqProperties
<1>6. lockQueue' = front \o back
  BY <1>1
<1> HIDE DEF front, back
<1>7. /\ front \o back \in Seq(Q)
      /\ Len(front \o back) = Len(front) + Len(back)
      /\ (front \o back)[1] = front[1]
  <2>1. 1 \in 1..Len(front) + Len(back) /\ 1 <= Len(front)
    BY <1>2, <1>3, <1>4, <1>5, LenProperties
  <2>2. front \in Seq(Q) /\ back \in Seq(Q)
    BY <1>4, <1>5
  <2> QED
    BY <2>1, <2>2, ConcatProperties
<1>8. Len(front) \in Nat /\ Len(back) \in Nat /\ Len(front) >= 1
  BY <1>2, <1>3, <1>4, <1>5, LenProperties
<1>9. lockQueue' \in Seq(Q) /\ Len(lockQueue') >= 1 /\ lockQueue'[1] = h
  BY <1>4, <1>6, <1>7, <1>8
<1> QED
  BY <1>9, HeadTailProperties, EmptySeq DEF HasLock

\* A task that asks for the lock (lock().await) does not displace its holder.
LEMMA EnqueueKeepsHolder ==
    ASSUME NEW Q, lockQueue \in Seq(Q), NEW t \in Q, Enqueue(t), NEW h, HasLock(h)
    PROVE  HasLock(h)'
<1>1. /\ lockQueue' = Append(lockQueue, t)
      /\ lockQueue # <<>>
      /\ Head(lockQueue) = h
  BY DEF Enqueue, HasLock
<1>2. /\ lockQueue' \in Seq(Q)
      /\ Len(lockQueue') = Len(lockQueue) + 1
      /\ lockQueue'[1] = lockQueue[1]
  BY <1>1, AppendProperties, LenProperties, EmptySeq
<1> QED
  BY <1>1, <1>2, HeadTailProperties, LenProperties, EmptySeq DEF HasLock

(* Type correctness.                                                       *)

\* Every step of the server keeps every variable in its type.
LEMMA TypeOKStep == TypeInv /\ [Next]_vars => TypeOK'
<1> SUFFICES ASSUME TypeOK, RefInv, LockInv, [Next]_vars PROVE TypeOK'
  BY DEF TypeInv
<1> USE ConstantsAssumption
<1>1. ASSUME NEW t \in Tasks, NEW u \in Users, Arrive(t, u)
      PROVE  TypeOK'
  BY <1>1 DEF Arrive, Goto, TypeOK, Labels, MainLabels, NoWipe, registryVars, diskVars,
      fileVars, mainVars, historyVars
<1>2. ASSUME NEW t \in Tasks, FindUserVm(t)
      PROVE  TypeOK'
  <2>1. held' \in [Tasks -> VmIds \cup {None}]
    BY <1>2 DEF FindUserVm, TypeOK
  <2>2. pc' \in [Tasks -> Labels]
    BY <1>2 DEF FindUserVm, Goto, TypeOK, Labels
  <2> QED
    BY <1>2, <2>1, <2>2 DEF FindUserVm, TypeOK, Labels, MainLabels, NoWipe,
        registryVars, diskVars, fileVars, mainVars, historyVars
<1>3. ASSUME NEW t \in Tasks, Reserve(t)
      PROVE  TypeOK'
  BY <1>3 DEF Reserve, Goto, SlotAvailable, RefInv, TypeOK, Labels, MainLabels, NoWipe,
      registryVars, diskVars, fileVars, mainVars, historyVars
<1>4. ASSUME NEW t \in Tasks, Reject(t)
      PROVE  TypeOK'
  BY <1>4 DEF Reject, Finish, TypeOK, Labels, MainLabels, NoWipe, registryVars,
      diskVars, fileVars, mainVars, historyVars
<1>5. ASSUME NEW t \in Tasks, RequestLock(t)
      PROVE  TypeOK'
  BY <1>5 DEF RequestLock, Goto, Enqueue, TypeOK, Labels, MainLabels, NoWipe,
      registryVars, diskVars, fileVars, mainVars, historyVars
<1>6. ASSUME NEW t \in Tasks, FindFile(t)
      PROVE  TypeOK'
  <2>1. lockQueue' \in Seq(Tasks \cup {Main})
    BY <1>6, UnlockType DEF FindFile, Unlock, HasLock, TypeOK
  <2> QED
    BY <1>6, <2>1 DEF FindFile, Goto, HasLock, Unlock, TypeOK, Labels, MainLabels,
        NoWipe, registryVars, diskVars, fileVars, mainVars, historyVars, RefInv,
        HasVm, Saving
<1>7. ASSUME NEW t \in Tasks, MissFile(t)
      PROVE  TypeOK'
  BY <1>7 DEF MissFile, Goto, HasLock, TypeOK, Labels, MainLabels, NoWipe, registryVars,
      diskVars, fileVars, mainVars, historyVars
<1>8. ASSUME NEW t \in Tasks, CopyBase(t)
      PROVE  TypeOK'
  <2>1. lockQueue' \in Seq(Tasks \cup {Main})
    BY <1>8, UnlockType DEF CopyBase, Unlock, HasLock, LockInv, TypeOK
  <2> QED
    BY <1>8, <2>1 DEF CopyBase, Goto, Unlock, TypeOK, Labels, MainLabels, NoWipe,
        registryVars, diskVars, fileVars, mainVars, historyVars, RefInv, HasVm, Saving
<1>9. ASSUME NEW t \in Tasks, CopyFails(t)
      PROVE  TypeOK'
  <2>1. lockQueue' \in Seq(Tasks \cup {Main})
    BY <1>9, UnlockType DEF CopyFails, Unlock, HasLock, LockInv, TypeOK
  <2> QED
    BY <1>9, <2>1 DEF CopyFails, Finish, Unlock, DropGuard, InterruptedCopies, TypeOK,
        Labels, MainLabels, NoWipe, registryVars, diskVars, fileVars, mainVars,
        historyVars, RefInv, HasVm, Saving
<1>10. ASSUME NEW t \in Tasks, GiveUpEnsure(t)
      PROVE  TypeOK'
  <2>1. lockQueue' \in Seq(Tasks \cup {Main})
    BY <1>10, LeaveQueueType DEF GiveUpEnsure, TypeOK
  <2> QED
    BY <1>10, <2>1 DEF GiveUpEnsure, Finish, DropGuard, TypeOK, Labels, MainLabels,
        NoWipe, registryVars, diskVars, fileVars, mainVars, historyVars, RefInv,
        HasVm, Saving
<1>11. ASSUME NEW t \in Tasks, CreateVm(t)
      PROVE  TypeOK'
  BY <1>11 DEF CreateVm, Goto, TypeOK, Labels, MainLabels, NoWipe, registryVars,
      diskVars, fileVars, mainVars, historyVars
<1>12. ASSUME NEW t \in Tasks, CreateFails(t)
      PROVE  TypeOK'
  BY <1>12 DEF CreateFails, Finish, DropGuard, TypeOK, Labels, MainLabels, NoWipe,
      registryVars, diskVars, fileVars, mainVars, historyVars
<1>13. ASSUME NEW t \in Tasks, RegisterVm(t)
      PROVE  TypeOK'
  BY <1>13 DEF RegisterVm, Goto, RefInv, HasVm, Saving, TypeOK, Labels, MainLabels,
      NoWipe, registryVars, diskVars, fileVars, mainVars, historyVars
<1>14. ASSUME NEW t \in Tasks, Provisioned(t)
      PROVE  TypeOK'
  BY <1>14 DEF Provisioned, Goto, DropGuard, TypeOK, Labels, MainLabels, NoWipe,
      registryVars, diskVars, fileVars, mainVars, historyVars
<1>15. ASSUME NEW t \in Tasks, LockForSave(t)
      PROVE  TypeOK'
  BY <1>15 DEF LockForSave, Goto, HasLock, TypeOK, Labels, MainLabels, NoWipe,
      registryVars, diskVars, fileVars, mainVars, historyVars
<1>16. ASSUME NEW t \in Tasks, SaveRootfs(t)
      PROVE  TypeOK'
  <2>1. lockQueue' \in Seq(Tasks \cup {Main})
    BY <1>16, UnlockType DEF SaveRootfs, Unlock, HasLock, LockInv, TypeOK
  <2> QED
    BY <1>16, <2>1 DEF SaveRootfs, Finish, Unlock, WriteFile, DropVm, TypeOK, Labels,
        MainLabels, NoWipe, registryVars, diskVars, fileVars, mainVars, historyVars,
        RefInv, HasVm, Saving
<1>17. ASSUME NEW t \in Tasks, SaveFails(t)
      PROVE  TypeOK'
  <2>1. lockQueue' \in Seq(Tasks \cup {Main})
    <3>1. CASE pc[t] = "save"
      <4>1. lockQueue' = Tail(lockQueue) /\ lockQueue # <<>>
        BY <1>17, <3>1 DEF SaveFails, Unlock, HasLock, LockInv
      <4> QED
        BY <4>1, UnlockType DEF TypeOK
    <3>2. CASE pc[t] # "save"
      BY <1>17, <3>2, LeaveQueueType DEF SaveFails, TypeOK
    <3> QED
      BY <3>1, <3>2
  <2> QED
    BY <1>17, <2>1 DEF SaveFails, Finish, Unlock, DropVm, TypeOK, Labels, MainLabels,
        NoWipe, registryVars, diskVars, fileVars, mainVars, historyVars, RefInv,
        HasVm, Saving
<1>18. ASSUME NEW t \in Tasks, RemoveUserVm(t)
      PROVE  TypeOK'
  <2>1. WorkOf(user[t]) \subseteq VmIds
    BY <1>18 DEF RemoveUserVm, WorkOf, TypeOK, RefInv
  <2>2. VmsOf(user[t]) \subseteq VmIds /\ Quiet(user[t]) \in BOOLEAN
    BY DEF VmsOf, Quiet
  <2>3. wipe' \in [Tasks -> [vms : SUBSET VmIds, work : SUBSET VmIds, quiet : BOOLEAN]]
    BY <1>18, <2>1, <2>2 DEF RemoveUserVm, TypeOK
  <2> QED
    BY <1>18, <2>3 DEF RemoveUserVm, Goto, TypeOK, Labels, MainLabels, NoWipe,
        registryVars, diskVars, fileVars, mainVars, historyVars
<1>19. ASSUME NEW t \in Tasks, LockForDelete(t)
      PROVE  TypeOK'
  BY <1>19 DEF LockForDelete, Goto, HasLock, TypeOK, Labels, MainLabels, NoWipe,
      registryVars, diskVars, fileVars, mainVars, historyVars
<1>20. ASSUME NEW t \in Tasks, DeleteFile(t)
      PROVE  TypeOK'
  <2>1. lockQueue' \in Seq(Tasks \cup {Main})
    BY <1>20, UnlockType DEF DeleteFile, Unlock, HasLock, LockInv, TypeOK
  <2> QED
    BY <1>20, <2>1 DEF DeleteFile, Finish, Unlock, TypeOK, Labels, MainLabels, NoWipe,
        registryVars, diskVars, fileVars, mainVars, historyVars, RefInv, HasVm, Saving
<1>21. ASSUME NEW t \in Tasks, DeleteFails(t)
      PROVE  TypeOK'
  <2>1. lockQueue' \in Seq(Tasks \cup {Main})
    <3>1. CASE pc[t] = "deleteFile"
      <4>1. lockQueue' = Tail(lockQueue) /\ lockQueue # <<>>
        BY <1>21, <3>1 DEF DeleteFails, Unlock, HasLock, LockInv
      <4> QED
        BY <4>1, UnlockType DEF TypeOK
    <3>2. CASE pc[t] # "deleteFile"
      BY <1>21, <3>2, LeaveQueueType DEF DeleteFails, TypeOK
    <3> QED
      BY <3>1, <3>2
  <2> QED
    BY <1>21, <2>1 DEF DeleteFails, Finish, Unlock, TypeOK, Labels, MainLabels,
        NoWipe, registryVars, diskVars, fileVars, mainVars, historyVars, RefInv,
        HasVm, Saving
<1>22. ASSUME NEW t \in Tasks, Respond(t)
      PROVE  TypeOK'
  BY <1>22 DEF Respond, Finish, TypeOK, Labels, MainLabels, NoWipe, registryVars,
      diskVars, fileVars, mainVars, historyVars
<1>23. ASSUME NEW t \in Tasks, Chat(t)
      PROVE  TypeOK'
  BY <1>23 DEF Chat, Finish, Touch, TypeOK, Labels, MainLabels, NoWipe, registryVars,
      diskVars, fileVars, mainVars, historyVars
<1>24. ASSUME NEW t \in Tasks, OpenTerminal(t)
      PROVE  TypeOK'
  BY <1>24 DEF OpenTerminal, Goto, Touch, TypeOK, Labels, MainLabels, NoWipe,
      registryVars, diskVars, fileVars, mainVars, historyVars
<1>25. ASSUME NEW t \in Tasks, Disconnect(t)
      PROVE  TypeOK'
  BY <1>25 DEF Disconnect, InRelay, Goto, Touch, RefInv, HasVm, Saving, TypeOK, Labels,
      MainLabels, NoWipe, registryVars, diskVars, fileVars, mainVars, historyVars
<1>26. ASSUME NEW t \in Tasks, DisconnectGone(t)
      PROVE  TypeOK'
  BY <1>26 DEF DisconnectGone, InRelay, Finish, TypeOK, Labels, MainLabels, NoWipe, registryVars,
      diskVars, fileVars, mainVars, historyVars
<1>27. ASSUME NEW v \in VmIds, Work(v)
      PROVE  TypeOK'
  BY <1>27 DEF Work, TypeOK, Labels, MainLabels, NoWipe, registryVars, diskVars,
      fileVars, mainVars, historyVars
<1>28. ASSUME NEW v \in VmIds, GoIdle(v)
      PROVE  TypeOK'
  BY <1>28 DEF GoIdle, TypeOK, Labels, MainLabels, NoWipe, registryVars, diskVars,
      fileVars, mainVars, historyVars
<1>29. ASSUME NEW v \in VmIds, SaveNext(v)
      PROVE  TypeOK'
  BY <1>29 DEF SaveNext, WriteFile, RefInv, HasVm, Saving, TypeOK, Labels, MainLabels,
      NoWipe, registryVars, diskVars, fileVars, mainVars, historyVars
<1>30. ASSUME Sweep
      PROVE  TypeOK'
  BY <1>30 DEF Sweep, TypeOK, Labels, MainLabels, NoWipe, registryVars, diskVars,
      fileVars, mainVars, historyVars
<1>31. ASSUME Signal
      PROVE  TypeOK'
  BY <1>31 DEF Signal, TypeOK, Labels, MainLabels, NoWipe, registryVars, diskVars,
      fileVars, mainVars, historyVars
<1>32. ASSUME Drain
      PROVE  TypeOK'
  BY <1>32 DEF Drain, Enqueue, TypeOK, Labels, MainLabels, NoWipe, registryVars,
      diskVars, fileVars, mainVars, historyVars
<1>33. ASSUME LockForDrain
      PROVE  TypeOK'
  BY <1>33 DEF LockForDrain, HasLock, TypeOK, Labels, MainLabels, NoWipe, registryVars,
      diskVars, fileVars, mainVars, historyVars
<1>34. ASSUME Exit
      PROVE  TypeOK'
  <2>1. hasFile' \subseteq Users /\ file' \in [Users -> SUBSET VmIds]
    BY <1>34 DEF Exit, LoseMemory, InterruptedCopies, TypeOK, RefInv
  <2>2. lockQueue' \in Seq(Tasks \cup {Main})
    BY <1>34, EmptySeq DEF Exit, LoseMemory
  <2> QED
    BY <1>34, <2>1, <2>2 DEF Exit, LoseMemory, TypeOK, Labels, MainLabels, NoWipe,
        registryVars, diskVars, fileVars, mainVars, historyVars
<1>35. ASSUME Crash
      PROVE  TypeOK'
  <2>1. hasFile' \subseteq Users /\ file' \in [Users -> SUBSET VmIds]
    BY <1>35 DEF Crash, LoseMemory, InterruptedCopies, TypeOK, RefInv
  <2>2. lockQueue' \in Seq(Tasks \cup {Main})
    BY <1>35, EmptySeq DEF Crash, LoseMemory
  <2> QED
    BY <1>35, <2>1, <2>2 DEF Crash, LoseMemory, TypeOK, Labels, MainLabels, NoWipe,
        registryVars, diskVars, fileVars, mainVars, historyVars
<1>36. ASSUME Start
      PROVE  TypeOK'
  BY <1>36 DEF Start, TypeOK, Labels, MainLabels, NoWipe, registryVars, diskVars,
      fileVars, mainVars, historyVars
<1>37. CASE UNCHANGED vars
  BY <1>37 DEF TypeOK, Labels, MainLabels, NoWipe, registryVars, diskVars, fileVars,
      mainVars, historyVars, vars, registryVars, diskVars, fileVars, mainVars,
      historyVars
<1> QED
  BY <1>1, <1>2, <1>3, <1>4, <1>5, <1>6, <1>7, <1>8, <1>9, <1>10, <1>11, <1>12,
     <1>13, <1>14, <1>15, <1>16, <1>17, <1>18, <1>19, <1>20, <1>21, <1>22, <1>23,
     <1>24, <1>25, <1>26, <1>27, <1>28, <1>29, <1>30, <1>31, <1>32, <1>33, <1>34,
     <1>35, <1>36, <1>37 DEF Next, Proceed

(* Mutual exclusion on rootfs_lock.                                        *)

\* Every step keeps whoever copies, saves or deletes a file at the head of the
\* queue: rootfs_lock excludes the others.
LEMMA LockInvStep == TypeInv /\ [Next]_vars => LockInv'
<1> SUFFICES ASSUME TypeOK, LockInv, [Next]_vars PROVE LockInv'
  BY DEF TypeInv
<1> USE ConstantsAssumption
<1>1. ASSUME NEW t \in Tasks, NEW u \in Users, Arrive(t, u)
      PROVE  LockInv'
  BY <1>1 DEF Arrive, Goto, HasLock, LockInv, TypeOK, registryVars, diskVars, fileVars,
      mainVars, historyVars
<1>2. ASSUME NEW t \in Tasks, FindUserVm(t)
      PROVE  LockInv'
  BY <1>2 DEF FindUserVm, Goto, HasLock, LockInv, TypeOK, registryVars, diskVars,
      fileVars, mainVars, historyVars
<1>3. ASSUME NEW t \in Tasks, Reserve(t)
      PROVE  LockInv'
  BY <1>3 DEF Reserve, Goto, SlotAvailable, HasLock, LockInv, TypeOK, registryVars,
      diskVars, fileVars, mainVars, historyVars
<1>4. ASSUME NEW t \in Tasks, Reject(t)
      PROVE  LockInv'
  BY <1>4 DEF Reject, Finish, HasLock, LockInv, TypeOK, registryVars, diskVars,
      fileVars, mainVars, historyVars
<1>5. ASSUME NEW t \in Tasks, RequestLock(t)
      PROVE  LockInv'
  <2>1. \A h \in Tasks \cup {Main} : HasLock(h) => HasLock(h)'
    BY <1>5, EnqueueKeepsHolder DEF RequestLock, TypeOK
  <2> QED
    BY <1>5, <2>1 DEF RequestLock, Goto, LockInv, TypeOK, registryVars, diskVars,
        fileVars, mainVars, historyVars
<1>6. ASSUME NEW t \in Tasks, FindFile(t)
      PROVE  LockInv'
  BY <1>6 DEF FindFile, Goto, HasLock, Unlock, HasLock, LockInv, TypeOK, registryVars,
      diskVars, fileVars, mainVars, historyVars
<1>7. ASSUME NEW t \in Tasks, MissFile(t)
      PROVE  LockInv'
  BY <1>7 DEF MissFile, Goto, HasLock, HasLock, LockInv, TypeOK, registryVars, diskVars,
      fileVars, mainVars, historyVars
<1>8. ASSUME NEW t \in Tasks, CopyBase(t)
      PROVE  LockInv'
  BY <1>8 DEF CopyBase, Goto, Unlock, HasLock, LockInv, TypeOK, registryVars, diskVars,
      fileVars, mainVars, historyVars
<1>9. ASSUME NEW t \in Tasks, CopyFails(t)
      PROVE  LockInv'
  BY <1>9 DEF CopyFails, Finish, Unlock, DropGuard, InterruptedCopies, HasLock, LockInv,
      TypeOK, registryVars, diskVars, fileVars, mainVars, historyVars
<1>10. ASSUME NEW t \in Tasks, GiveUpEnsure(t)
      PROVE  LockInv'
  <2>1. \A h \in Tasks \cup {Main} : HasLock(h) /\ h # t => HasLock(h)'
    BY <1>10, LeaveKeepsHolder DEF GiveUpEnsure, TypeOK
  <2> QED
    BY <1>10, <2>1 DEF GiveUpEnsure, Finish, DropGuard, LockInv, TypeOK, registryVars,
        diskVars, fileVars, mainVars, historyVars
<1>11. ASSUME NEW t \in Tasks, CreateVm(t)
      PROVE  LockInv'
  BY <1>11 DEF CreateVm, Goto, HasLock, LockInv, TypeOK, registryVars, diskVars,
      fileVars, mainVars, historyVars
<1>12. ASSUME NEW t \in Tasks, CreateFails(t)
      PROVE  LockInv'
  BY <1>12 DEF CreateFails, Finish, DropGuard, HasLock, LockInv, TypeOK, registryVars,
      diskVars, fileVars, mainVars, historyVars
<1>13. ASSUME NEW t \in Tasks, RegisterVm(t)
      PROVE  LockInv'
  BY <1>13 DEF RegisterVm, Goto, HasLock, LockInv, TypeOK, registryVars, diskVars,
      fileVars, mainVars, historyVars
<1>14. ASSUME NEW t \in Tasks, Provisioned(t)
      PROVE  LockInv'
  BY <1>14 DEF Provisioned, Goto, DropGuard, HasLock, LockInv, TypeOK, registryVars,
      diskVars, fileVars, mainVars, historyVars
<1>15. ASSUME NEW t \in Tasks, LockForSave(t)
      PROVE  LockInv'
  BY <1>15 DEF LockForSave, Goto, HasLock, HasLock, LockInv, TypeOK, registryVars,
      diskVars, fileVars, mainVars, historyVars
<1>16. ASSUME NEW t \in Tasks, SaveRootfs(t)
      PROVE  LockInv'
  BY <1>16 DEF SaveRootfs, Finish, Unlock, WriteFile, DropVm, HasLock, LockInv, TypeOK,
      registryVars, diskVars, fileVars, mainVars, historyVars
<1>17. ASSUME NEW t \in Tasks, SaveFails(t)
      PROVE  LockInv'
  <2>1. CASE pc[t] = "save"
    BY <1>17, <2>1 DEF SaveFails, Finish, Unlock, DropVm, HasLock, LockInv, TypeOK,
        registryVars, diskVars, fileVars, mainVars, historyVars
  <2>2. CASE pc[t] # "save"
    <3>1. \A h \in Tasks \cup {Main} : HasLock(h) /\ h # t => HasLock(h)'
      BY <1>17, <2>2, LeaveKeepsHolder DEF SaveFails, HasLock, TypeOK
    <3> QED
      BY <1>17, <2>2, <3>1 DEF SaveFails, Finish, Unlock, DropVm, LockInv, TypeOK,
          registryVars, diskVars, fileVars, mainVars, historyVars
  <2> QED
    BY <2>1, <2>2
<1>18. ASSUME NEW t \in Tasks, RemoveUserVm(t)
      PROVE  LockInv'
  BY <1>18 DEF RemoveUserVm, Goto, VmsOf, WorkOf, Quiet, HasLock, LockInv, TypeOK,
      registryVars, diskVars, fileVars, mainVars, historyVars
<1>19. ASSUME NEW t \in Tasks, LockForDelete(t)
      PROVE  LockInv'
  BY <1>19 DEF LockForDelete, Goto, HasLock, HasLock, LockInv, TypeOK, registryVars,
      diskVars, fileVars, mainVars, historyVars
<1>20. ASSUME NEW t \in Tasks, DeleteFile(t)
      PROVE  LockInv'
  BY <1>20 DEF DeleteFile, Finish, Unlock, HasLock, LockInv, TypeOK, registryVars,
      diskVars, fileVars, mainVars, historyVars
<1>21. ASSUME NEW t \in Tasks, DeleteFails(t)
      PROVE  LockInv'
  <2>1. CASE pc[t] = "deleteFile"
    BY <1>21, <2>1 DEF DeleteFails, Finish, Unlock, HasLock, LockInv, TypeOK,
        registryVars, diskVars, fileVars, mainVars, historyVars
  <2>2. CASE pc[t] # "deleteFile"
    <3>1. \A h \in Tasks \cup {Main} : HasLock(h) /\ h # t => HasLock(h)'
      BY <1>21, <2>2, LeaveKeepsHolder DEF DeleteFails, HasLock, TypeOK
    <3> QED
      BY <1>21, <2>2, <3>1 DEF DeleteFails, Finish, Unlock, LockInv, TypeOK,
          registryVars, diskVars, fileVars, mainVars, historyVars
  <2> QED
    BY <2>1, <2>2
<1>22. ASSUME NEW t \in Tasks, Respond(t)
      PROVE  LockInv'
  BY <1>22 DEF Respond, Finish, HasLock, LockInv, TypeOK, registryVars, diskVars,
      fileVars, mainVars, historyVars
<1>23. ASSUME NEW t \in Tasks, Chat(t)
      PROVE  LockInv'
  BY <1>23 DEF Chat, Finish, Touch, HasLock, LockInv, TypeOK, registryVars, diskVars,
      fileVars, mainVars, historyVars
<1>24. ASSUME NEW t \in Tasks, OpenTerminal(t)
      PROVE  LockInv'
  BY <1>24 DEF OpenTerminal, Goto, Touch, HasLock, LockInv, TypeOK, registryVars,
      diskVars, fileVars, mainVars, historyVars
<1>25. ASSUME NEW t \in Tasks, Disconnect(t)
      PROVE  LockInv'
  BY <1>25 DEF Disconnect, InRelay, Goto, Touch, HasLock, LockInv, TypeOK, registryVars,
      diskVars, fileVars, mainVars, historyVars
<1>26. ASSUME NEW t \in Tasks, DisconnectGone(t)
      PROVE  LockInv'
  BY <1>26 DEF DisconnectGone, InRelay, Finish, HasLock, LockInv, TypeOK, registryVars, diskVars,
      fileVars, mainVars, historyVars
<1>27. ASSUME NEW v \in VmIds, Work(v)
      PROVE  LockInv'
  BY <1>27 DEF Work, HasLock, LockInv, TypeOK, registryVars, diskVars, fileVars,
      mainVars, historyVars
<1>28. ASSUME NEW v \in VmIds, GoIdle(v)
      PROVE  LockInv'
  BY <1>28 DEF GoIdle, HasLock, LockInv, TypeOK, registryVars, diskVars, fileVars,
      mainVars, historyVars
<1>29. ASSUME NEW v \in VmIds, SaveNext(v)
      PROVE  LockInv'
  BY <1>29 DEF SaveNext, WriteFile, HasLock, LockInv, TypeOK, registryVars, diskVars,
      fileVars, mainVars, historyVars
<1>30. ASSUME Sweep
      PROVE  LockInv'
  BY <1>30 DEF Sweep, HasLock, LockInv, TypeOK, registryVars, diskVars, fileVars,
      mainVars, historyVars
<1>31. ASSUME Signal
      PROVE  LockInv'
  BY <1>31 DEF Signal, HasLock, LockInv, TypeOK, registryVars, diskVars, fileVars,
      mainVars, historyVars
<1>32. ASSUME Drain
      PROVE  LockInv'
  <2>1. \A h \in Tasks \cup {Main} : HasLock(h) => HasLock(h)'
    BY <1>32, EnqueueKeepsHolder DEF Drain, TypeOK
  <2> QED
    BY <1>32, <2>1 DEF Drain, LockInv, TypeOK, registryVars, diskVars, fileVars,
        mainVars, historyVars
<1>33. ASSUME LockForDrain
      PROVE  LockInv'
  BY <1>33 DEF LockForDrain, HasLock, HasLock, LockInv, TypeOK, registryVars, diskVars,
      fileVars, mainVars, historyVars
<1>34. ASSUME Exit
      PROVE  LockInv'
  BY <1>34 DEF Exit, LoseMemory, InterruptedCopies, HasLock, LockInv, TypeOK,
      registryVars, diskVars, fileVars, mainVars, historyVars
<1>35. ASSUME Crash
      PROVE  LockInv'
  BY <1>35 DEF Crash, LoseMemory, InterruptedCopies, Up, HasLock, LockInv, TypeOK,
      registryVars, diskVars, fileVars, mainVars, historyVars
<1>36. ASSUME Start
      PROVE  LockInv'
  BY <1>36 DEF Start, HasLock, LockInv, TypeOK, registryVars, diskVars, fileVars,
      mainVars, historyVars
<1>37. CASE UNCHANGED vars
  BY <1>37 DEF HasLock, LockInv, TypeOK, registryVars, diskVars, fileVars, mainVars,
      historyVars, vars, registryVars, diskVars, fileVars, mainVars, historyVars
<1> QED
  BY <1>1, <1>2, <1>3, <1>4, <1>5, <1>6, <1>7, <1>8, <1>9, <1>10, <1>11, <1>12,
     <1>13, <1>14, <1>15, <1>16, <1>17, <1>18, <1>19, <1>20, <1>21, <1>22, <1>23,
     <1>24, <1>25, <1>26, <1>27, <1>28, <1>29, <1>30, <1>31, <1>32, <1>33, <1>34,
     <1>35, <1>36, <1>37 DEF Next, Proceed

(* References.                                                             *)

\* Every step keeps the VM a task has in hand that of the user it works for,
\* and gives every registered VM an owner.
LEMMA RefInvStep == TypeInv /\ [Next]_vars => RefInv'
<1> SUFFICES ASSUME TypeOK, RefInv, [Next]_vars PROVE RefInv'
  BY DEF TypeInv
<1> USE ConstantsAssumption
<1>1. ASSUME NEW t \in Tasks, NEW u \in Users, Arrive(t, u)
      PROVE  RefInv'
  BY <1>1 DEF Arrive, Goto, RefInv, HasVm, Saving, TypeOK, registryVars, diskVars,
      fileVars, mainVars, historyVars
<1>2. ASSUME NEW t \in Tasks, FindUserVm(t)
      PROVE  RefInv'
  BY <1>2 DEF FindUserVm, Goto, RefInv, HasVm, Saving, TypeOK, registryVars, diskVars,
      fileVars, mainVars, historyVars
<1>3. ASSUME NEW t \in Tasks, Reserve(t)
      PROVE  RefInv'
  BY <1>3 DEF Reserve, Goto, SlotAvailable, RefInv, HasVm, Saving, TypeOK, registryVars,
      diskVars, fileVars, mainVars, historyVars
<1>4. ASSUME NEW t \in Tasks, Reject(t)
      PROVE  RefInv'
  BY <1>4 DEF Reject, Finish, RefInv, HasVm, Saving, TypeOK, registryVars, diskVars,
      fileVars, mainVars, historyVars
<1>5. ASSUME NEW t \in Tasks, RequestLock(t)
      PROVE  RefInv'
  BY <1>5 DEF RequestLock, Goto, Enqueue, RefInv, HasVm, Saving, TypeOK, registryVars,
      diskVars, fileVars, mainVars, historyVars
<1>6. ASSUME NEW t \in Tasks, FindFile(t)
      PROVE  RefInv'
  BY <1>6 DEF FindFile, Goto, HasLock, Unlock, RefInv, HasVm, Saving, TypeOK,
      registryVars, diskVars, fileVars, mainVars, historyVars
<1>7. ASSUME NEW t \in Tasks, MissFile(t)
      PROVE  RefInv'
  BY <1>7 DEF MissFile, Goto, HasLock, RefInv, HasVm, Saving, TypeOK, registryVars,
      diskVars, fileVars, mainVars, historyVars
<1>8. ASSUME NEW t \in Tasks, CopyBase(t)
      PROVE  RefInv'
  BY <1>8 DEF CopyBase, Goto, Unlock, RefInv, HasVm, Saving, TypeOK, registryVars,
      diskVars, fileVars, mainVars, historyVars
<1>9. ASSUME NEW t \in Tasks, CopyFails(t)
      PROVE  RefInv'
  BY <1>9 DEF CopyFails, Finish, Unlock, DropGuard, InterruptedCopies, RefInv, HasVm,
      Saving, TypeOK, registryVars, diskVars, fileVars, mainVars, historyVars
<1>10. ASSUME NEW t \in Tasks, GiveUpEnsure(t)
      PROVE  RefInv'
  BY <1>10 DEF GiveUpEnsure, Finish, DropGuard, RefInv, HasVm, Saving, TypeOK,
      registryVars, diskVars, fileVars, mainVars, historyVars
<1>11. ASSUME NEW t \in Tasks, CreateVm(t)
      PROVE  RefInv'
  BY <1>11 DEF CreateVm, Goto, RefInv, HasVm, Saving, TypeOK, registryVars, diskVars,
      fileVars, mainVars, historyVars
<1>12. ASSUME NEW t \in Tasks, CreateFails(t)
      PROVE  RefInv'
  BY <1>12 DEF CreateFails, Finish, DropGuard, RefInv, HasVm, Saving, TypeOK,
      registryVars, diskVars, fileVars, mainVars, historyVars
<1>13. ASSUME NEW t \in Tasks, RegisterVm(t)
      PROVE  RefInv'
  BY <1>13 DEF RegisterVm, Goto, RefInv, HasVm, Saving, TypeOK, registryVars, diskVars,
      fileVars, mainVars, historyVars
<1>14. ASSUME NEW t \in Tasks, Provisioned(t)
      PROVE  RefInv'
  BY <1>14 DEF Provisioned, Goto, DropGuard, RefInv, HasVm, Saving, TypeOK,
      registryVars, diskVars, fileVars, mainVars, historyVars
<1>15. ASSUME NEW t \in Tasks, LockForSave(t)
      PROVE  RefInv'
  BY <1>15 DEF LockForSave, Goto, HasLock, RefInv, HasVm, Saving, TypeOK, registryVars,
      diskVars, fileVars, mainVars, historyVars
<1>16. ASSUME NEW t \in Tasks, SaveRootfs(t)
      PROVE  RefInv'
  BY <1>16 DEF SaveRootfs, Finish, Unlock, WriteFile, DropVm, RefInv, HasVm, Saving,
      TypeOK, registryVars, diskVars, fileVars, mainVars, historyVars
<1>17. ASSUME NEW t \in Tasks, SaveFails(t)
      PROVE  RefInv'
  BY <1>17 DEF SaveFails, Finish, Unlock, DropVm, RefInv, HasVm, Saving, TypeOK,
      registryVars, diskVars, fileVars, mainVars, historyVars
<1>18. ASSUME NEW t \in Tasks, RemoveUserVm(t)
      PROVE  RefInv'
  BY <1>18 DEF RemoveUserVm, Goto, VmsOf, WorkOf, Quiet, RefInv, HasVm, Saving, TypeOK,
      registryVars, diskVars, fileVars, mainVars, historyVars
<1>19. ASSUME NEW t \in Tasks, LockForDelete(t)
      PROVE  RefInv'
  BY <1>19 DEF LockForDelete, Goto, HasLock, RefInv, HasVm, Saving, TypeOK,
      registryVars, diskVars, fileVars, mainVars, historyVars
<1>20. ASSUME NEW t \in Tasks, DeleteFile(t)
      PROVE  RefInv'
  BY <1>20 DEF DeleteFile, Finish, Unlock, RefInv, HasVm, Saving, TypeOK, registryVars,
      diskVars, fileVars, mainVars, historyVars
<1>21. ASSUME NEW t \in Tasks, DeleteFails(t)
      PROVE  RefInv'
  BY <1>21 DEF DeleteFails, Finish, Unlock, RefInv, HasVm, Saving, TypeOK, registryVars,
      diskVars, fileVars, mainVars, historyVars
<1>22. ASSUME NEW t \in Tasks, Respond(t)
      PROVE  RefInv'
  BY <1>22 DEF Respond, Finish, RefInv, HasVm, Saving, TypeOK, registryVars, diskVars,
      fileVars, mainVars, historyVars
<1>23. ASSUME NEW t \in Tasks, Chat(t)
      PROVE  RefInv'
  BY <1>23 DEF Chat, Finish, Touch, RefInv, HasVm, Saving, TypeOK, registryVars,
      diskVars, fileVars, mainVars, historyVars
<1>24. ASSUME NEW t \in Tasks, OpenTerminal(t)
      PROVE  RefInv'
  BY <1>24 DEF OpenTerminal, Goto, Touch, RefInv, HasVm, Saving, TypeOK, registryVars,
      diskVars, fileVars, mainVars, historyVars
<1>25. ASSUME NEW t \in Tasks, Disconnect(t)
      PROVE  RefInv'
  BY <1>25 DEF Disconnect, InRelay, Goto, Touch, RefInv, HasVm, Saving, TypeOK, registryVars,
      diskVars, fileVars, mainVars, historyVars
<1>26. ASSUME NEW t \in Tasks, DisconnectGone(t)
      PROVE  RefInv'
  BY <1>26 DEF DisconnectGone, InRelay, Finish, RefInv, HasVm, Saving, TypeOK, registryVars,
      diskVars, fileVars, mainVars, historyVars
<1>27. ASSUME NEW v \in VmIds, Work(v)
      PROVE  RefInv'
  BY <1>27 DEF Work, RefInv, HasVm, Saving, TypeOK, registryVars, diskVars, fileVars,
      mainVars, historyVars
<1>28. ASSUME NEW v \in VmIds, GoIdle(v)
      PROVE  RefInv'
  BY <1>28 DEF GoIdle, RefInv, HasVm, Saving, TypeOK, registryVars, diskVars, fileVars,
      mainVars, historyVars
<1>29. ASSUME NEW v \in VmIds, SaveNext(v)
      PROVE  RefInv'
  BY <1>29 DEF SaveNext, WriteFile, RefInv, HasVm, Saving, TypeOK, registryVars,
      diskVars, fileVars, mainVars, historyVars
<1>30. ASSUME Sweep
      PROVE  RefInv'
  BY <1>30 DEF Sweep, RefInv, HasVm, Saving, TypeOK, registryVars, diskVars, fileVars,
      mainVars, historyVars
<1>31. ASSUME Signal
      PROVE  RefInv'
  BY <1>31 DEF Signal, RefInv, HasVm, Saving, TypeOK, registryVars, diskVars, fileVars,
      mainVars, historyVars
<1>32. ASSUME Drain
      PROVE  RefInv'
  BY <1>32 DEF Drain, Enqueue, RefInv, HasVm, Saving, TypeOK, registryVars, diskVars,
      fileVars, mainVars, historyVars
<1>33. ASSUME LockForDrain
      PROVE  RefInv'
  BY <1>33 DEF LockForDrain, HasLock, RefInv, HasVm, Saving, TypeOK, registryVars,
      diskVars, fileVars, mainVars, historyVars
<1>34. ASSUME Exit
      PROVE  RefInv'
  BY <1>34 DEF Exit, LoseMemory, InterruptedCopies, RefInv, HasVm, Saving, TypeOK,
      registryVars, diskVars, fileVars, mainVars, historyVars
<1>35. ASSUME Crash
      PROVE  RefInv'
  BY <1>35 DEF Crash, LoseMemory, InterruptedCopies, Up, RefInv, HasVm, Saving, TypeOK,
      registryVars, diskVars, fileVars, mainVars, historyVars
<1>36. ASSUME Start
      PROVE  RefInv'
  BY <1>36 DEF Start, RefInv, HasVm, Saving, TypeOK, registryVars, diskVars, fileVars,
      mainVars, historyVars
<1>37. CASE UNCHANGED vars
  BY <1>37 DEF RefInv, HasVm, Saving, TypeOK, registryVars, diskVars, fileVars,
      mainVars, historyVars, vars, registryVars, diskVars, fileVars, mainVars,
      historyVars
<1> QED
  BY <1>1, <1>2, <1>3, <1>4, <1>5, <1>6, <1>7, <1>8, <1>9, <1>10, <1>11, <1>12,
     <1>13, <1>14, <1>15, <1>16, <1>17, <1>18, <1>19, <1>20, <1>21, <1>22, <1>23,
     <1>24, <1>25, <1>26, <1>27, <1>28, <1>29, <1>30, <1>31, <1>32, <1>33, <1>34,
     <1>35, <1>36, <1>37 DEF Next, Proceed

\* AppState::new: nothing is registered, queued or running.
LEMMA TypeInvInit == Init => TypeInv
<1> SUFFICES ASSUME Init PROVE TypeInv
  OBVIOUS
<1>1. TypeOK
  BY DEF Init, TypeOK, Labels, MainLabels, NoWipe
<1>2. RefInv /\ LockInv
  BY DEF Init, RefInv, HasVm, Saving, LockInv
<1> QED
  BY <1>1, <1>2 DEF TypeInv

\* Types, references and the lock hold in every behaviour of the server.
LEMMA TypeInvInvariant == Spec => []TypeInv
<1>1. TypeInv /\ [Next]_vars => TypeInv'
  BY TypeOKStep, LockInvStep, RefInvStep DEF TypeInv
<1> QED
  BY TypeInvInit, <1>1, PTL DEF Spec

\* Every variable of the server keeps its type in every behaviour: no handler
\* uses a VM, a user or a lock it does not have.
THEOREM TypeCorrect == Spec => []TypeOK
BY TypeInvInvariant, PTL DEF TypeInv

(* One VM per user.                                                        *)

\* A task that holds a reservation is the only one of its user, the user is in
\* provisioning_users, and until it registers its VM the user has none.
SlotInv ==
    /\ \A t \in Tasks : pc[t] \in Guarded => user[t] \in provisioning
    /\ \A s, t \in Tasks : pc[s] \in Guarded /\ pc[t] \in Guarded /\ user[s] = user[t]
                            => s = t
    /\ \A t \in Tasks : pc[t] \in Unregistered => \A v \in vms : owner[v] # user[t]
    /\ OneVmPerUser

\* Every step keeps a user out of the registry while one request provisions for
\* it, and that request the only one (acquire_provisioning_slot).
LEMMA SlotInvStep == TypeInv /\ SlotInv /\ [Next]_vars => SlotInv'
<1> SUFFICES ASSUME TypeOK, RefInv, SlotInv, [Next]_vars PROVE SlotInv'
  BY DEF TypeInv
<1> USE ConstantsAssumption
<1>1. ASSUME NEW t \in Tasks, NEW u \in Users, Arrive(t, u)
      PROVE  SlotInv'
  BY <1>1 DEF Arrive, Goto, SlotInv, OneVmPerUser, Guarded, Unregistered, TypeOK,
      registryVars, diskVars, fileVars, mainVars, historyVars
<1>2. ASSUME NEW t \in Tasks, FindUserVm(t)
      PROVE  SlotInv'
  <2>1. vms' = vms /\ owner' = owner /\ provisioning' = provisioning /\ user' = user
    BY <1>2 DEF FindUserVm, registryVars
  <2>2. \A s \in Tasks : /\ pc'[s] \in Guarded => pc[s] \in Guarded
                         /\ pc'[s] \in Unregistered => pc[s] \in Unregistered
    BY <1>2 DEF FindUserVm, Goto, Guarded, Unregistered, TypeOK
  <2> QED
    BY <2>1, <2>2 DEF SlotInv, OneVmPerUser
<1>3. ASSUME NEW t \in Tasks, Reserve(t)
      PROVE  SlotInv'
  BY <1>3 DEF Reserve, Goto, SlotAvailable, SlotInv, OneVmPerUser, Guarded,
      Unregistered, TypeOK, registryVars, diskVars, fileVars, mainVars, historyVars
<1>4. ASSUME NEW t \in Tasks, Reject(t)
      PROVE  SlotInv'
  BY <1>4 DEF Reject, Finish, SlotInv, OneVmPerUser, Guarded, Unregistered, TypeOK,
      registryVars, diskVars, fileVars, mainVars, historyVars
<1>5. ASSUME NEW t \in Tasks, RequestLock(t)
      PROVE  SlotInv'
  BY <1>5 DEF RequestLock, Goto, Enqueue, SlotInv, OneVmPerUser, Guarded, Unregistered,
      TypeOK, registryVars, diskVars, fileVars, mainVars, historyVars
<1>6. ASSUME NEW t \in Tasks, FindFile(t)
      PROVE  SlotInv'
  BY <1>6 DEF FindFile, Goto, HasLock, Unlock, SlotInv, OneVmPerUser, Guarded,
      Unregistered, TypeOK, registryVars, diskVars, fileVars, mainVars, historyVars
<1>7. ASSUME NEW t \in Tasks, MissFile(t)
      PROVE  SlotInv'
  BY <1>7 DEF MissFile, Goto, HasLock, SlotInv, OneVmPerUser, Guarded, Unregistered,
      TypeOK, registryVars, diskVars, fileVars, mainVars, historyVars
<1>8. ASSUME NEW t \in Tasks, CopyBase(t)
      PROVE  SlotInv'
  BY <1>8 DEF CopyBase, Goto, Unlock, SlotInv, OneVmPerUser, Guarded, Unregistered,
      TypeOK, registryVars, diskVars, fileVars, mainVars, historyVars
<1>9. ASSUME NEW t \in Tasks, CopyFails(t)
      PROVE  SlotInv'
  BY <1>9 DEF CopyFails, Finish, Unlock, DropGuard, InterruptedCopies, SlotInv,
      OneVmPerUser, Guarded, Unregistered, TypeOK, registryVars, diskVars, fileVars,
      mainVars, historyVars
<1>10. ASSUME NEW t \in Tasks, GiveUpEnsure(t)
      PROVE  SlotInv'
  BY <1>10 DEF GiveUpEnsure, Finish, DropGuard, SlotInv, OneVmPerUser, Guarded,
      Unregistered, TypeOK, registryVars, diskVars, fileVars, mainVars, historyVars
<1>11. ASSUME NEW t \in Tasks, CreateVm(t)
      PROVE  SlotInv'
  BY <1>11 DEF CreateVm, Goto, RefInv, HasVm, SlotInv, OneVmPerUser, Guarded,
      Unregistered, TypeOK, registryVars, diskVars, fileVars, mainVars, historyVars
<1>12. ASSUME NEW t \in Tasks, CreateFails(t)
      PROVE  SlotInv'
  BY <1>12 DEF CreateFails, Finish, DropGuard, SlotInv, OneVmPerUser, Guarded,
      Unregistered, TypeOK, registryVars, diskVars, fileVars, mainVars, historyVars
<1>13. ASSUME NEW t \in Tasks, RegisterVm(t)
      PROVE  SlotInv'
  BY <1>13 DEF RegisterVm, Goto, RefInv, HasVm, SlotInv, OneVmPerUser, Guarded,
      Unregistered, TypeOK, registryVars, diskVars, fileVars, mainVars, historyVars
<1>14. ASSUME NEW t \in Tasks, Provisioned(t)
      PROVE  SlotInv'
  BY <1>14 DEF Provisioned, Goto, DropGuard, SlotInv, OneVmPerUser, Guarded,
      Unregistered, TypeOK, registryVars, diskVars, fileVars, mainVars, historyVars
<1>15. ASSUME NEW t \in Tasks, LockForSave(t)
      PROVE  SlotInv'
  BY <1>15 DEF LockForSave, Goto, HasLock, SlotInv, OneVmPerUser, Guarded, Unregistered,
      TypeOK, registryVars, diskVars, fileVars, mainVars, historyVars
<1>16. ASSUME NEW t \in Tasks, SaveRootfs(t)
      PROVE  SlotInv'
  BY <1>16 DEF SaveRootfs, Finish, Unlock, WriteFile, DropVm, SlotInv, OneVmPerUser,
      Guarded, Unregistered, TypeOK, registryVars, diskVars, fileVars, mainVars,
      historyVars
<1>17. ASSUME NEW t \in Tasks, SaveFails(t)
      PROVE  SlotInv'
  BY <1>17 DEF SaveFails, Finish, Unlock, DropVm, SlotInv, OneVmPerUser, Guarded,
      Unregistered, TypeOK, registryVars, diskVars, fileVars, mainVars, historyVars
<1>18. ASSUME NEW t \in Tasks, RemoveUserVm(t)
      PROVE  SlotInv'
  BY <1>18 DEF RemoveUserVm, Goto, VmsOf, WorkOf, Quiet, SlotInv, OneVmPerUser, Guarded,
      Unregistered, TypeOK, registryVars, diskVars, fileVars, mainVars, historyVars
<1>19. ASSUME NEW t \in Tasks, LockForDelete(t)
      PROVE  SlotInv'
  BY <1>19 DEF LockForDelete, Goto, HasLock, SlotInv, OneVmPerUser, Guarded,
      Unregistered, TypeOK, registryVars, diskVars, fileVars, mainVars, historyVars
<1>20. ASSUME NEW t \in Tasks, DeleteFile(t)
      PROVE  SlotInv'
  BY <1>20 DEF DeleteFile, Finish, Unlock, SlotInv, OneVmPerUser, Guarded, Unregistered,
      TypeOK, registryVars, diskVars, fileVars, mainVars, historyVars
<1>21. ASSUME NEW t \in Tasks, DeleteFails(t)
      PROVE  SlotInv'
  BY <1>21 DEF DeleteFails, Finish, Unlock, SlotInv, OneVmPerUser, Guarded,
      Unregistered, TypeOK, registryVars, diskVars, fileVars, mainVars, historyVars
<1>22. ASSUME NEW t \in Tasks, Respond(t)
      PROVE  SlotInv'
  BY <1>22 DEF Respond, Finish, SlotInv, OneVmPerUser, Guarded, Unregistered, TypeOK,
      registryVars, diskVars, fileVars, mainVars, historyVars
<1>23. ASSUME NEW t \in Tasks, Chat(t)
      PROVE  SlotInv'
  BY <1>23 DEF Chat, Finish, Touch, SlotInv, OneVmPerUser, Guarded, Unregistered,
      TypeOK, registryVars, diskVars, fileVars, mainVars, historyVars
<1>24. ASSUME NEW t \in Tasks, OpenTerminal(t)
      PROVE  SlotInv'
  BY <1>24 DEF OpenTerminal, Goto, Touch, SlotInv, OneVmPerUser, Guarded, Unregistered,
      TypeOK, registryVars, diskVars, fileVars, mainVars, historyVars
<1>25. ASSUME NEW t \in Tasks, Disconnect(t)
      PROVE  SlotInv'
  BY <1>25 DEF Disconnect, InRelay, Goto, Touch, SlotInv, OneVmPerUser, Guarded, Unregistered,
      TypeOK, registryVars, diskVars, fileVars, mainVars, historyVars
<1>26. ASSUME NEW t \in Tasks, DisconnectGone(t)
      PROVE  SlotInv'
  BY <1>26 DEF DisconnectGone, InRelay, Finish, SlotInv, OneVmPerUser, Guarded, Unregistered,
      TypeOK, registryVars, diskVars, fileVars, mainVars, historyVars
<1>27. ASSUME NEW v \in VmIds, Work(v)
      PROVE  SlotInv'
  BY <1>27 DEF Work, SlotInv, OneVmPerUser, Guarded, Unregistered, TypeOK, registryVars,
      diskVars, fileVars, mainVars, historyVars
<1>28. ASSUME NEW v \in VmIds, GoIdle(v)
      PROVE  SlotInv'
  BY <1>28 DEF GoIdle, SlotInv, OneVmPerUser, Guarded, Unregistered, TypeOK,
      registryVars, diskVars, fileVars, mainVars, historyVars
<1>29. ASSUME NEW v \in VmIds, SaveNext(v)
      PROVE  SlotInv'
  BY <1>29 DEF SaveNext, WriteFile, SlotInv, OneVmPerUser, Guarded, Unregistered,
      TypeOK, registryVars, diskVars, fileVars, mainVars, historyVars
<1>30. ASSUME Sweep
      PROVE  SlotInv'
  BY <1>30 DEF Sweep, RefInv, HasVm, SlotInv, OneVmPerUser, Guarded, Unregistered,
      TypeOK, registryVars, diskVars, fileVars, mainVars, historyVars
<1>31. ASSUME Signal
      PROVE  SlotInv'
  BY <1>31 DEF Signal, SlotInv, OneVmPerUser, Guarded, Unregistered, TypeOK,
      registryVars, diskVars, fileVars, mainVars, historyVars
<1>32. ASSUME Drain
      PROVE  SlotInv'
  BY <1>32 DEF Drain, Enqueue, RefInv, HasVm, SlotInv, OneVmPerUser, Guarded,
      Unregistered, TypeOK, registryVars, diskVars, fileVars, mainVars, historyVars
<1>33. ASSUME LockForDrain
      PROVE  SlotInv'
  BY <1>33 DEF LockForDrain, HasLock, SlotInv, OneVmPerUser, Guarded, Unregistered,
      TypeOK, registryVars, diskVars, fileVars, mainVars, historyVars
<1>34. ASSUME Exit
      PROVE  SlotInv'
  BY <1>34 DEF Exit, LoseMemory, InterruptedCopies, SlotInv, OneVmPerUser, Guarded,
      Unregistered, TypeOK, registryVars, diskVars, fileVars, mainVars, historyVars
<1>35. ASSUME Crash
      PROVE  SlotInv'
  BY <1>35 DEF Crash, LoseMemory, InterruptedCopies, Up, SlotInv, OneVmPerUser, Guarded,
      Unregistered, TypeOK, registryVars, diskVars, fileVars, mainVars, historyVars
<1>36. ASSUME Start
      PROVE  SlotInv'
  BY <1>36 DEF Start, SlotInv, OneVmPerUser, Guarded, Unregistered, TypeOK,
      registryVars, diskVars, fileVars, mainVars, historyVars
<1>37. CASE UNCHANGED vars
  BY <1>37 DEF SlotInv, OneVmPerUser, Guarded, Unregistered, TypeOK, registryVars,
      diskVars, fileVars, mainVars, historyVars, vars, registryVars, diskVars, fileVars,
      mainVars, historyVars
<1> QED
  BY <1>1, <1>2, <1>3, <1>4, <1>5, <1>6, <1>7, <1>8, <1>9, <1>10, <1>11, <1>12,
     <1>13, <1>14, <1>15, <1>16, <1>17, <1>18, <1>19, <1>20, <1>21, <1>22, <1>23,
     <1>24, <1>25, <1>26, <1>27, <1>28, <1>29, <1>30, <1>31, <1>32, <1>33, <1>34,
     <1>35, <1>36, <1>37 DEF Next, Proceed

\* The slot invariant holds in every behaviour of the server.
LEMMA SlotInvariant == Spec => []SlotInv
<1>1. Init => SlotInv
  BY DEF Init, SlotInv, Guarded, Unregistered, OneVmPerUser
<1> QED
  BY TypeInvInvariant, <1>1, SlotInvStep, PTL DEF Spec

\* However lookups, provisions, cancellations, disconnects and sweeps of any
\* number of requests interleave, no user has two VMs in the registry.
THEOREM OneVmPerUserHolds == Spec => []OneVmPerUser
BY SlotInvariant, PTL DEF SlotInv

(* The VM limit.                                                           *)

\* The count is of finite sets, and within the limit.
CapacityInv ==
    /\ IsFiniteSet(vms)
    /\ IsFiniteSet(provisioning)
    /\ CapacityRespected

\* A user whose VM is on its way is in provisioning_users.
LEMMA BootingReserved == SlotInv => Booting \subseteq provisioning
BY DEF SlotInv, Booting, Guarded

\* A step that adds no VM and no provision keeps the limit.
LEMMA ShrinkKeepsCapacity ==
    ASSUME SlotInv, CapacityInv, vms' \subseteq vms, Booting' \subseteq Booting,
           provisioning' \subseteq provisioning
    PROVE  CapacityInv'
<1>1. IsFiniteSet(Booting)
  BY BootingReserved, FS_Subset DEF CapacityInv
<1>2. /\ IsFiniteSet(vms') /\ Cardinality(vms') <= Cardinality(vms)
      /\ IsFiniteSet(Booting') /\ Cardinality(Booting') <= Cardinality(Booting)
      /\ IsFiniteSet(provisioning')
  BY <1>1, FS_Subset DEF CapacityInv
<1>3. /\ Cardinality(vms) \in Nat /\ Cardinality(vms') \in Nat
      /\ Cardinality(Booting) \in Nat /\ Cardinality(Booting') \in Nat
  BY <1>1, <1>2, FS_CardinalityType DEF CapacityInv
<1> QED
  BY <1>2, <1>3, ConstantsAssumption DEF CapacityInv, CapacityRespected

\* Every step keeps the registered VMs and those on their way to the registry
\* within vm_max_count.
LEMMA CapacityInvStep ==
    TypeInv /\ SlotInv /\ CapacityInv /\ [Next]_vars => CapacityInv'
<1> SUFFICES ASSUME TypeOK, RefInv, SlotInv, CapacityInv, [Next]_vars
             PROVE  CapacityInv'
  BY DEF TypeInv
<1> USE ConstantsAssumption
<1>1. ASSUME NEW t \in Tasks, NEW u \in Users, Arrive(t, u)
      PROVE  CapacityInv'
  <2>1. vms' \subseteq vms /\ Booting' \subseteq Booting /\ provisioning' \subseteq provisioning
    BY <1>1 DEF Arrive, Goto, Booting, Unregistered, TypeOK, registryVars, diskVars,
        fileVars, mainVars, historyVars
  <2> QED
    BY <2>1, ShrinkKeepsCapacity
<1>2. ASSUME NEW t \in Tasks, FindUserVm(t)
      PROVE  CapacityInv'
  <2>1. vms' \subseteq vms /\ Booting' \subseteq Booting /\ provisioning' \subseteq provisioning
    BY <1>2 DEF FindUserVm, Goto, Booting, Unregistered, TypeOK, registryVars,
        diskVars, fileVars, mainVars, historyVars
  <2> QED
    BY <2>1, ShrinkKeepsCapacity
<1>3. ASSUME NEW t \in Tasks, Reserve(t)
      PROVE  CapacityInv'
  <2>1. /\ vms' = vms
        /\ provisioning' = provisioning \cup {user[t]}
        /\ user[t] \notin provisioning
        /\ Cardinality(vms) + Cardinality(provisioning) < MaxVms
    BY <1>3 DEF Reserve, SlotAvailable, registryVars
  <2>2. Booting' \subseteq provisioning'
    BY <1>3, BootingReserved DEF Reserve, Goto, Booting, Unregistered, TypeOK
  <2>3. /\ IsFiniteSet(provisioning')
        /\ Cardinality(provisioning') = Cardinality(provisioning) + 1
    BY <2>1, FS_AddElement DEF CapacityInv
  <2>4. IsFiniteSet(Booting') /\ Cardinality(Booting') <= Cardinality(provisioning')
    BY <2>2, <2>3, FS_Subset
  <2>5. /\ Cardinality(vms) \in Nat /\ Cardinality(provisioning) \in Nat
        /\ Cardinality(Booting') \in Nat
    BY <2>4, FS_CardinalityType DEF CapacityInv
  <2> QED
    BY <2>1, <2>3, <2>4, <2>5 DEF CapacityInv, CapacityRespected
<1>4. ASSUME NEW t \in Tasks, Reject(t)
      PROVE  CapacityInv'
  <2>1. vms' \subseteq vms /\ Booting' \subseteq Booting /\ provisioning' \subseteq provisioning
    BY <1>4 DEF Reject, Finish, Booting, Unregistered, TypeOK, registryVars, diskVars,
        fileVars, mainVars, historyVars
  <2> QED
    BY <2>1, ShrinkKeepsCapacity
<1>5. ASSUME NEW t \in Tasks, RequestLock(t)
      PROVE  CapacityInv'
  <2>1. vms' \subseteq vms /\ Booting' \subseteq Booting /\ provisioning' \subseteq provisioning
    BY <1>5 DEF RequestLock, Goto, Enqueue, Booting, Unregistered, TypeOK,
        registryVars, diskVars, fileVars, mainVars, historyVars
  <2> QED
    BY <2>1, ShrinkKeepsCapacity
<1>6. ASSUME NEW t \in Tasks, FindFile(t)
      PROVE  CapacityInv'
  <2>1. vms' \subseteq vms /\ Booting' \subseteq Booting /\ provisioning' \subseteq provisioning
    BY <1>6 DEF FindFile, Goto, HasLock, Unlock, Booting, Unregistered, TypeOK,
        registryVars, diskVars, fileVars, mainVars, historyVars
  <2> QED
    BY <2>1, ShrinkKeepsCapacity
<1>7. ASSUME NEW t \in Tasks, MissFile(t)
      PROVE  CapacityInv'
  <2>1. vms' \subseteq vms /\ Booting' \subseteq Booting /\ provisioning' \subseteq provisioning
    BY <1>7 DEF MissFile, Goto, HasLock, Booting, Unregistered, TypeOK, registryVars,
        diskVars, fileVars, mainVars, historyVars
  <2> QED
    BY <2>1, ShrinkKeepsCapacity
<1>8. ASSUME NEW t \in Tasks, CopyBase(t)
      PROVE  CapacityInv'
  <2>1. vms' \subseteq vms /\ Booting' \subseteq Booting /\ provisioning' \subseteq provisioning
    BY <1>8 DEF CopyBase, Goto, Unlock, Booting, Unregistered, TypeOK, registryVars,
        diskVars, fileVars, mainVars, historyVars
  <2> QED
    BY <2>1, ShrinkKeepsCapacity
<1>9. ASSUME NEW t \in Tasks, CopyFails(t)
      PROVE  CapacityInv'
  <2>1. vms' \subseteq vms /\ Booting' \subseteq Booting /\ provisioning' \subseteq provisioning
    BY <1>9 DEF CopyFails, Finish, Unlock, DropGuard, InterruptedCopies, Booting,
        Unregistered, TypeOK, registryVars, diskVars, fileVars, mainVars, historyVars
  <2> QED
    BY <2>1, ShrinkKeepsCapacity
<1>10. ASSUME NEW t \in Tasks, GiveUpEnsure(t)
      PROVE  CapacityInv'
  <2>1. vms' \subseteq vms /\ Booting' \subseteq Booting /\ provisioning' \subseteq provisioning
    BY <1>10 DEF GiveUpEnsure, Finish, DropGuard, Booting, Unregistered, TypeOK,
        registryVars, diskVars, fileVars, mainVars, historyVars
  <2> QED
    BY <2>1, ShrinkKeepsCapacity
<1>11. ASSUME NEW t \in Tasks, CreateVm(t)
      PROVE  CapacityInv'
  <2>1. vms' \subseteq vms /\ Booting' \subseteq Booting /\ provisioning' \subseteq provisioning
    BY <1>11 DEF CreateVm, Goto, Booting, Unregistered, TypeOK, registryVars,
        diskVars, fileVars, mainVars, historyVars
  <2> QED
    BY <2>1, ShrinkKeepsCapacity
<1>12. ASSUME NEW t \in Tasks, CreateFails(t)
      PROVE  CapacityInv'
  <2>1. vms' \subseteq vms /\ Booting' \subseteq Booting /\ provisioning' \subseteq provisioning
    BY <1>12 DEF CreateFails, Finish, DropGuard, Booting, Unregistered, TypeOK,
        registryVars, diskVars, fileVars, mainVars, historyVars
  <2> QED
    BY <2>1, ShrinkKeepsCapacity
<1>13. ASSUME NEW t \in Tasks, RegisterVm(t)
      PROVE  CapacityInv'
  <2>1. /\ vms' = vms \cup {held[t]}
        /\ provisioning' = provisioning
        /\ user[t] \in Booting
    BY <1>13 DEF RegisterVm, Booting, Unregistered
  <2>2. Booting' \subseteq Booting \ {user[t]}
    BY <1>13 DEF RegisterVm, Goto, Booting, Unregistered, Guarded, SlotInv, TypeOK
  <2>3. IsFiniteSet(Booting)
    BY BootingReserved, FS_Subset DEF CapacityInv
  <2>4. /\ IsFiniteSet(Booting \ {user[t]})
        /\ Cardinality(Booting \ {user[t]}) = Cardinality(Booting) - 1
    BY <2>1, <2>3, FS_RemoveElement
  <2>5. IsFiniteSet(Booting') /\ Cardinality(Booting') <= Cardinality(Booting) - 1
    BY <2>2, <2>4, FS_Subset
  <2>6. IsFiniteSet(vms') /\ Cardinality(vms') <= Cardinality(vms) + 1
    <3>1. IsFiniteSet(vms) /\ Cardinality(vms) \in Nat
      BY FS_CardinalityType DEF CapacityInv
    <3>2. CASE held[t] \in vms
      <4>1. vms' = vms
        BY <2>1, <3>2
      <4> QED
        BY <3>1, <4>1
    <3>3. CASE held[t] \notin vms
      <4>1. /\ IsFiniteSet(vms \cup {held[t]})
            /\ Cardinality(vms \cup {held[t]}) = Cardinality(vms) + 1
        BY <3>1, <3>3, FS_AddElement
      <4> QED
        BY <2>1, <3>1, <4>1
    <3> QED
      BY <3>2, <3>3
  <2>7. /\ Cardinality(vms) \in Nat /\ Cardinality(vms') \in Nat
        /\ Cardinality(Booting) \in Nat /\ Cardinality(Booting') \in Nat
    BY <2>3, <2>5, <2>6, FS_CardinalityType DEF CapacityInv
  <2> QED
    BY <2>1, <2>5, <2>6, <2>7 DEF CapacityInv, CapacityRespected
<1>14. ASSUME NEW t \in Tasks, Provisioned(t)
      PROVE  CapacityInv'
  <2>1. vms' \subseteq vms /\ Booting' \subseteq Booting /\ provisioning' \subseteq provisioning
    BY <1>14 DEF Provisioned, Goto, DropGuard, Booting, Unregistered, TypeOK,
        registryVars, diskVars, fileVars, mainVars, historyVars
  <2> QED
    BY <2>1, ShrinkKeepsCapacity
<1>15. ASSUME NEW t \in Tasks, LockForSave(t)
      PROVE  CapacityInv'
  <2>1. vms' \subseteq vms /\ Booting' \subseteq Booting /\ provisioning' \subseteq provisioning
    BY <1>15 DEF LockForSave, Goto, HasLock, Booting, Unregistered, TypeOK,
        registryVars, diskVars, fileVars, mainVars, historyVars
  <2> QED
    BY <2>1, ShrinkKeepsCapacity
<1>16. ASSUME NEW t \in Tasks, SaveRootfs(t)
      PROVE  CapacityInv'
  <2>1. vms' \subseteq vms /\ Booting' \subseteq Booting /\ provisioning' \subseteq provisioning
    BY <1>16 DEF SaveRootfs, Finish, Unlock, WriteFile, DropVm, Booting, Unregistered,
        TypeOK, registryVars, diskVars, fileVars, mainVars, historyVars
  <2> QED
    BY <2>1, ShrinkKeepsCapacity
<1>17. ASSUME NEW t \in Tasks, SaveFails(t)
      PROVE  CapacityInv'
  <2>1. vms' \subseteq vms /\ Booting' \subseteq Booting /\ provisioning' \subseteq provisioning
    BY <1>17 DEF SaveFails, Finish, Unlock, DropVm, Booting, Unregistered, TypeOK,
        registryVars, diskVars, fileVars, mainVars, historyVars
  <2> QED
    BY <2>1, ShrinkKeepsCapacity
<1>18. ASSUME NEW t \in Tasks, RemoveUserVm(t)
      PROVE  CapacityInv'
  <2>1. vms' \subseteq vms /\ Booting' \subseteq Booting /\ provisioning' \subseteq provisioning
    BY <1>18 DEF RemoveUserVm, Goto, VmsOf, WorkOf, Quiet, Booting, Unregistered,
        TypeOK, registryVars, diskVars, fileVars, mainVars, historyVars
  <2> QED
    BY <2>1, ShrinkKeepsCapacity
<1>19. ASSUME NEW t \in Tasks, LockForDelete(t)
      PROVE  CapacityInv'
  <2>1. vms' \subseteq vms /\ Booting' \subseteq Booting /\ provisioning' \subseteq provisioning
    BY <1>19 DEF LockForDelete, Goto, HasLock, Booting, Unregistered, TypeOK,
        registryVars, diskVars, fileVars, mainVars, historyVars
  <2> QED
    BY <2>1, ShrinkKeepsCapacity
<1>20. ASSUME NEW t \in Tasks, DeleteFile(t)
      PROVE  CapacityInv'
  <2>1. vms' \subseteq vms /\ Booting' \subseteq Booting /\ provisioning' \subseteq provisioning
    BY <1>20 DEF DeleteFile, Finish, Unlock, Booting, Unregistered, TypeOK,
        registryVars, diskVars, fileVars, mainVars, historyVars
  <2> QED
    BY <2>1, ShrinkKeepsCapacity
<1>21. ASSUME NEW t \in Tasks, DeleteFails(t)
      PROVE  CapacityInv'
  <2>1. vms' \subseteq vms /\ Booting' \subseteq Booting /\ provisioning' \subseteq provisioning
    BY <1>21 DEF DeleteFails, Finish, Unlock, Booting, Unregistered, TypeOK,
        registryVars, diskVars, fileVars, mainVars, historyVars
  <2> QED
    BY <2>1, ShrinkKeepsCapacity
<1>22. ASSUME NEW t \in Tasks, Respond(t)
      PROVE  CapacityInv'
  <2>1. vms' \subseteq vms /\ Booting' \subseteq Booting /\ provisioning' \subseteq provisioning
    BY <1>22 DEF Respond, Finish, Booting, Unregistered, TypeOK, registryVars,
        diskVars, fileVars, mainVars, historyVars
  <2> QED
    BY <2>1, ShrinkKeepsCapacity
<1>23. ASSUME NEW t \in Tasks, Chat(t)
      PROVE  CapacityInv'
  <2>1. vms' \subseteq vms /\ Booting' \subseteq Booting /\ provisioning' \subseteq provisioning
    BY <1>23 DEF Chat, Finish, Touch, Booting, Unregistered, TypeOK, registryVars,
        diskVars, fileVars, mainVars, historyVars
  <2> QED
    BY <2>1, ShrinkKeepsCapacity
<1>24. ASSUME NEW t \in Tasks, OpenTerminal(t)
      PROVE  CapacityInv'
  <2>1. vms' \subseteq vms /\ Booting' \subseteq Booting /\ provisioning' \subseteq provisioning
    BY <1>24 DEF OpenTerminal, Goto, Touch, Booting, Unregistered, TypeOK,
        registryVars, diskVars, fileVars, mainVars, historyVars
  <2> QED
    BY <2>1, ShrinkKeepsCapacity
<1>25. ASSUME NEW t \in Tasks, Disconnect(t)
      PROVE  CapacityInv'
  <2>1. vms' \subseteq vms /\ Booting' \subseteq Booting /\ provisioning' \subseteq provisioning
    BY <1>25 DEF Disconnect, InRelay, Goto, Touch, Booting, Unregistered, TypeOK, registryVars,
        diskVars, fileVars, mainVars, historyVars
  <2> QED
    BY <2>1, ShrinkKeepsCapacity
<1>26. ASSUME NEW t \in Tasks, DisconnectGone(t)
      PROVE  CapacityInv'
  <2>1. vms' \subseteq vms /\ Booting' \subseteq Booting /\ provisioning' \subseteq provisioning
    BY <1>26 DEF DisconnectGone, InRelay, Finish, Booting, Unregistered, TypeOK, registryVars,
        diskVars, fileVars, mainVars, historyVars
  <2> QED
    BY <2>1, ShrinkKeepsCapacity
<1>27. ASSUME NEW v \in VmIds, Work(v)
      PROVE  CapacityInv'
  <2>1. vms' \subseteq vms /\ Booting' \subseteq Booting /\ provisioning' \subseteq provisioning
    BY <1>27 DEF Work, Booting, Unregistered, TypeOK, registryVars, diskVars,
        fileVars, mainVars, historyVars
  <2> QED
    BY <2>1, ShrinkKeepsCapacity
<1>28. ASSUME NEW v \in VmIds, GoIdle(v)
      PROVE  CapacityInv'
  <2>1. vms' \subseteq vms /\ Booting' \subseteq Booting /\ provisioning' \subseteq provisioning
    BY <1>28 DEF GoIdle, Booting, Unregistered, TypeOK, registryVars, diskVars,
        fileVars, mainVars, historyVars
  <2> QED
    BY <2>1, ShrinkKeepsCapacity
<1>29. ASSUME NEW v \in VmIds, SaveNext(v)
      PROVE  CapacityInv'
  <2>1. vms' \subseteq vms /\ Booting' \subseteq Booting /\ provisioning' \subseteq provisioning
    BY <1>29 DEF SaveNext, WriteFile, Booting, Unregistered, TypeOK, registryVars,
        diskVars, fileVars, mainVars, historyVars
  <2> QED
    BY <2>1, ShrinkKeepsCapacity
<1>30. ASSUME Sweep
      PROVE  CapacityInv'
  <2>1. vms' \subseteq vms /\ Booting' \subseteq Booting /\ provisioning' \subseteq provisioning
    BY <1>30 DEF Sweep, Booting, Unregistered, TypeOK, registryVars, diskVars,
        fileVars, mainVars, historyVars
  <2> QED
    BY <2>1, ShrinkKeepsCapacity
<1>31. ASSUME Signal
      PROVE  CapacityInv'
  <2>1. vms' \subseteq vms /\ Booting' \subseteq Booting /\ provisioning' \subseteq provisioning
    BY <1>31 DEF Signal, Booting, Unregistered, TypeOK, registryVars, diskVars,
        fileVars, mainVars, historyVars
  <2> QED
    BY <2>1, ShrinkKeepsCapacity
<1>32. ASSUME Drain
      PROVE  CapacityInv'
  <2>1. vms' \subseteq vms /\ Booting' \subseteq Booting /\ provisioning' \subseteq provisioning
    BY <1>32 DEF Drain, Enqueue, Booting, Unregistered, TypeOK, registryVars,
        diskVars, fileVars, mainVars, historyVars
  <2> QED
    BY <2>1, ShrinkKeepsCapacity
<1>33. ASSUME LockForDrain
      PROVE  CapacityInv'
  <2>1. vms' \subseteq vms /\ Booting' \subseteq Booting /\ provisioning' \subseteq provisioning
    BY <1>33 DEF LockForDrain, HasLock, Booting, Unregistered, TypeOK, registryVars,
        diskVars, fileVars, mainVars, historyVars
  <2> QED
    BY <2>1, ShrinkKeepsCapacity
<1>34. ASSUME Exit
      PROVE  CapacityInv'
  <2>1. vms' \subseteq vms /\ Booting' \subseteq Booting /\ provisioning' \subseteq provisioning
    BY <1>34 DEF Exit, LoseMemory, InterruptedCopies, Booting, Unregistered, TypeOK,
        registryVars, diskVars, fileVars, mainVars, historyVars
  <2> QED
    BY <2>1, ShrinkKeepsCapacity
<1>35. ASSUME Crash
      PROVE  CapacityInv'
  <2>1. vms' \subseteq vms /\ Booting' \subseteq Booting /\ provisioning' \subseteq provisioning
    BY <1>35 DEF Crash, LoseMemory, InterruptedCopies, Up, Booting, Unregistered,
        TypeOK, registryVars, diskVars, fileVars, mainVars, historyVars
  <2> QED
    BY <2>1, ShrinkKeepsCapacity
<1>36. ASSUME Start
      PROVE  CapacityInv'
  <2>1. vms' \subseteq vms /\ Booting' \subseteq Booting /\ provisioning' \subseteq provisioning
    BY <1>36 DEF Start, Booting, Unregistered, TypeOK, registryVars, diskVars,
        fileVars, mainVars, historyVars
  <2> QED
    BY <2>1, ShrinkKeepsCapacity
<1>37. CASE UNCHANGED vars
  BY <1>37 DEF CapacityInv, CapacityRespected, Booting, vars, registryVars, diskVars,
      fileVars, mainVars, historyVars
<1> QED
  BY <1>1, <1>2, <1>3, <1>4, <1>5, <1>6, <1>7, <1>8, <1>9, <1>10, <1>11, <1>12,
     <1>13, <1>14, <1>15, <1>16, <1>17, <1>18, <1>19, <1>20, <1>21, <1>22, <1>23,
     <1>24, <1>25, <1>26, <1>27, <1>28, <1>29, <1>30, <1>31, <1>32, <1>33, <1>34,
     <1>35, <1>36, <1>37 DEF Next, Proceed

\* A server that starts has no VM and no reservation.
LEMMA CapacityInvInit == Init => CapacityInv
<1> SUFFICES ASSUME Init PROVE CapacityInv
  OBVIOUS
<1>1. Booting = {}
  BY DEF Init, Booting, Unregistered
<1>2. vms = {} /\ provisioning = {}
  BY DEF Init
<1> QED
  BY <1>1, <1>2, FS_EmptySet, ConstantsAssumption DEF CapacityInv, CapacityRespected

\* The limit is kept in every behaviour, by sets that stay finite.
LEMMA CapacityInvariant == Spec => []CapacityInv
<1>1. TypeInv /\ SlotInv /\ CapacityInv /\ [Next]_vars => CapacityInv'
  BY CapacityInvStep
<1> QED
  BY TypeInvInvariant, SlotInvariant, CapacityInvInit, <1>1, PTL DEF Spec

\* The registered VMs and the provisions on their way to the registry are
\* never more than vm_max_count.
THEOREM CapacityHolds == Spec => []CapacityRespected
<1>1. CapacityInv => CapacityRespected
  BY DEF CapacityInv
<1> QED
  BY CapacityInvariant, <1>1, PTL

(* Isolation of users' disks.                                              *)

\* Files and disks carry their owner's work, and running VMs have an owner.
IsolationInv ==
    /\ \A u \in Users : file[u] \subseteq VmsOf(u)
    /\ \A v \in VmIds : owner[v] \in Users => disk[v] \subseteq VmsOf(owner[v])
    /\ \A v \in alive : owner[v] \in Users

\* Every step (boot, save, drain, reset, crash) moves only work of a user to
\* that user's disks and file.
LEMMA IsolationInvStep == TypeInv /\ IsolationInv /\ [Next]_vars => IsolationInv'
<1> SUFFICES ASSUME TypeOK, RefInv, IsolationInv, [Next]_vars PROVE IsolationInv'
  BY DEF TypeInv
<1> USE ConstantsAssumption
<1>1. ASSUME NEW t \in Tasks, NEW u \in Users, Arrive(t, u)
      PROVE  IsolationInv'
  BY <1>1 DEF Arrive, Goto, IsolationInv, VmsOf, TypeOK, registryVars, diskVars,
      fileVars, mainVars, historyVars
<1>2. ASSUME NEW t \in Tasks, FindUserVm(t)
      PROVE  IsolationInv'
  BY <1>2 DEF FindUserVm, Goto, IsolationInv, VmsOf, TypeOK, registryVars, diskVars,
      fileVars, mainVars, historyVars
<1>3. ASSUME NEW t \in Tasks, Reserve(t)
      PROVE  IsolationInv'
  BY <1>3 DEF Reserve, Goto, SlotAvailable, IsolationInv, VmsOf, TypeOK, registryVars,
      diskVars, fileVars, mainVars, historyVars
<1>4. ASSUME NEW t \in Tasks, Reject(t)
      PROVE  IsolationInv'
  BY <1>4 DEF Reject, Finish, IsolationInv, VmsOf, TypeOK, registryVars, diskVars,
      fileVars, mainVars, historyVars
<1>5. ASSUME NEW t \in Tasks, RequestLock(t)
      PROVE  IsolationInv'
  BY <1>5 DEF RequestLock, Goto, Enqueue, IsolationInv, VmsOf, TypeOK, registryVars,
      diskVars, fileVars, mainVars, historyVars
<1>6. ASSUME NEW t \in Tasks, FindFile(t)
      PROVE  IsolationInv'
  BY <1>6 DEF FindFile, Goto, HasLock, Unlock, IsolationInv, VmsOf, TypeOK,
      registryVars, diskVars, fileVars, mainVars, historyVars
<1>7. ASSUME NEW t \in Tasks, MissFile(t)
      PROVE  IsolationInv'
  BY <1>7 DEF MissFile, Goto, HasLock, IsolationInv, VmsOf, TypeOK, registryVars,
      diskVars, fileVars, mainVars, historyVars
<1>8. ASSUME NEW t \in Tasks, CopyBase(t)
      PROVE  IsolationInv'
  BY <1>8 DEF CopyBase, Goto, Unlock, RefInv, IsolationInv, VmsOf, TypeOK, registryVars,
      diskVars, fileVars, mainVars, historyVars
<1>9. ASSUME NEW t \in Tasks, CopyFails(t)
      PROVE  IsolationInv'
  BY <1>9 DEF CopyFails, Finish, Unlock, DropGuard, InterruptedCopies, IsolationInv,
      VmsOf, TypeOK, registryVars, diskVars, fileVars, mainVars, historyVars
<1>10. ASSUME NEW t \in Tasks, GiveUpEnsure(t)
      PROVE  IsolationInv'
  BY <1>10 DEF GiveUpEnsure, Finish, DropGuard, IsolationInv, VmsOf, TypeOK,
      registryVars, diskVars, fileVars, mainVars, historyVars
<1>11. ASSUME NEW t \in Tasks, CreateVm(t)
      PROVE  IsolationInv'
  BY <1>11 DEF CreateVm, Goto, RefInv, IsolationInv, VmsOf, TypeOK, registryVars,
      diskVars, fileVars, mainVars, historyVars
<1>12. ASSUME NEW t \in Tasks, CreateFails(t)
      PROVE  IsolationInv'
  BY <1>12 DEF CreateFails, Finish, DropGuard, IsolationInv, VmsOf, TypeOK,
      registryVars, diskVars, fileVars, mainVars, historyVars
<1>13. ASSUME NEW t \in Tasks, RegisterVm(t)
      PROVE  IsolationInv'
  BY <1>13 DEF RegisterVm, Goto, IsolationInv, VmsOf, TypeOK, registryVars, diskVars,
      fileVars, mainVars, historyVars
<1>14. ASSUME NEW t \in Tasks, Provisioned(t)
      PROVE  IsolationInv'
  BY <1>14 DEF Provisioned, Goto, DropGuard, IsolationInv, VmsOf, TypeOK, registryVars,
      diskVars, fileVars, mainVars, historyVars
<1>15. ASSUME NEW t \in Tasks, LockForSave(t)
      PROVE  IsolationInv'
  BY <1>15 DEF LockForSave, Goto, HasLock, IsolationInv, VmsOf, TypeOK, registryVars,
      diskVars, fileVars, mainVars, historyVars
<1>16. ASSUME NEW t \in Tasks, SaveRootfs(t)
      PROVE  IsolationInv'
  BY <1>16 DEF SaveRootfs, Finish, Unlock, WriteFile, DropVm, RefInv, HasVm, Saving,
      IsolationInv, VmsOf, TypeOK, registryVars, diskVars, fileVars, mainVars,
      historyVars
<1>17. ASSUME NEW t \in Tasks, SaveFails(t)
      PROVE  IsolationInv'
  BY <1>17 DEF SaveFails, Finish, Unlock, DropVm, IsolationInv, VmsOf, TypeOK,
      registryVars, diskVars, fileVars, mainVars, historyVars
<1>18. ASSUME NEW t \in Tasks, RemoveUserVm(t)
      PROVE  IsolationInv'
  BY <1>18 DEF RemoveUserVm, Goto, IsolationInv, VmsOf, TypeOK, registryVars, diskVars,
      fileVars, mainVars, historyVars
<1>19. ASSUME NEW t \in Tasks, LockForDelete(t)
      PROVE  IsolationInv'
  BY <1>19 DEF LockForDelete, Goto, HasLock, IsolationInv, VmsOf, TypeOK, registryVars,
      diskVars, fileVars, mainVars, historyVars
<1>20. ASSUME NEW t \in Tasks, DeleteFile(t)
      PROVE  IsolationInv'
  BY <1>20 DEF DeleteFile, Finish, Unlock, IsolationInv, VmsOf, TypeOK, registryVars,
      diskVars, fileVars, mainVars, historyVars
<1>21. ASSUME NEW t \in Tasks, DeleteFails(t)
      PROVE  IsolationInv'
  BY <1>21 DEF DeleteFails, Finish, Unlock, IsolationInv, VmsOf, TypeOK, registryVars,
      diskVars, fileVars, mainVars, historyVars
<1>22. ASSUME NEW t \in Tasks, Respond(t)
      PROVE  IsolationInv'
  BY <1>22 DEF Respond, Finish, IsolationInv, VmsOf, TypeOK, registryVars, diskVars,
      fileVars, mainVars, historyVars
<1>23. ASSUME NEW t \in Tasks, Chat(t)
      PROVE  IsolationInv'
  BY <1>23 DEF Chat, Finish, Touch, IsolationInv, VmsOf, TypeOK, registryVars, diskVars,
      fileVars, mainVars, historyVars
<1>24. ASSUME NEW t \in Tasks, OpenTerminal(t)
      PROVE  IsolationInv'
  BY <1>24 DEF OpenTerminal, Goto, Touch, IsolationInv, VmsOf, TypeOK, registryVars,
      diskVars, fileVars, mainVars, historyVars
<1>25. ASSUME NEW t \in Tasks, Disconnect(t)
      PROVE  IsolationInv'
  BY <1>25 DEF Disconnect, InRelay, Goto, Touch, IsolationInv, VmsOf, TypeOK, registryVars,
      diskVars, fileVars, mainVars, historyVars
<1>26. ASSUME NEW t \in Tasks, DisconnectGone(t)
      PROVE  IsolationInv'
  BY <1>26 DEF DisconnectGone, InRelay, Finish, IsolationInv, VmsOf, TypeOK, registryVars,
      diskVars, fileVars, mainVars, historyVars
<1>27. ASSUME NEW v \in VmIds, Work(v)
      PROVE  IsolationInv'
  BY <1>27 DEF Work, IsolationInv, VmsOf, TypeOK, registryVars, diskVars, fileVars,
      mainVars, historyVars
<1>28. ASSUME NEW v \in VmIds, GoIdle(v)
      PROVE  IsolationInv'
  BY <1>28 DEF GoIdle, IsolationInv, VmsOf, TypeOK, registryVars, diskVars, fileVars,
      mainVars, historyVars
<1>29. ASSUME NEW v \in VmIds, SaveNext(v)
      PROVE  IsolationInv'
  BY <1>29 DEF SaveNext, WriteFile, RefInv, IsolationInv, VmsOf, TypeOK, registryVars,
      diskVars, fileVars, mainVars, historyVars
<1>30. ASSUME Sweep
      PROVE  IsolationInv'
  BY <1>30 DEF Sweep, IsolationInv, VmsOf, TypeOK, registryVars, diskVars, fileVars,
      mainVars, historyVars
<1>31. ASSUME Signal
      PROVE  IsolationInv'
  BY <1>31 DEF Signal, IsolationInv, VmsOf, TypeOK, registryVars, diskVars, fileVars,
      mainVars, historyVars
<1>32. ASSUME Drain
      PROVE  IsolationInv'
  BY <1>32 DEF Drain, Enqueue, IsolationInv, VmsOf, TypeOK, registryVars, diskVars,
      fileVars, mainVars, historyVars
<1>33. ASSUME LockForDrain
      PROVE  IsolationInv'
  BY <1>33 DEF LockForDrain, HasLock, IsolationInv, VmsOf, TypeOK, registryVars,
      diskVars, fileVars, mainVars, historyVars
<1>34. ASSUME Exit
      PROVE  IsolationInv'
  BY <1>34 DEF Exit, LoseMemory, InterruptedCopies, IsolationInv, VmsOf, TypeOK,
      registryVars, diskVars, fileVars, mainVars, historyVars
<1>35. ASSUME Crash
      PROVE  IsolationInv'
  BY <1>35 DEF Crash, LoseMemory, InterruptedCopies, Up, IsolationInv, VmsOf, TypeOK,
      registryVars, diskVars, fileVars, mainVars, historyVars
<1>36. ASSUME Start
      PROVE  IsolationInv'
  BY <1>36 DEF Start, IsolationInv, VmsOf, TypeOK, registryVars, diskVars, fileVars,
      mainVars, historyVars
<1>37. CASE UNCHANGED vars
  BY <1>37 DEF IsolationInv, VmsOf, TypeOK, registryVars, diskVars, fileVars, mainVars,
      historyVars, vars, registryVars, diskVars, fileVars, mainVars, historyVars
<1> QED
  BY <1>1, <1>2, <1>3, <1>4, <1>5, <1>6, <1>7, <1>8, <1>9, <1>10, <1>11, <1>12,
     <1>13, <1>14, <1>15, <1>16, <1>17, <1>18, <1>19, <1>20, <1>21, <1>22, <1>23,
     <1>24, <1>25, <1>26, <1>27, <1>28, <1>29, <1>30, <1>31, <1>32, <1>33, <1>34,
     <1>35, <1>36, <1>37 DEF Next, Proceed

\* Isolation holds in every behaviour.
LEMMA IsolationInvariant == Spec => []IsolationInv
<1>1. Init => IsolationInv
  BY DEF Init, IsolationInv
<1>2. TypeInv /\ IsolationInv /\ [Next]_vars => IsolationInv'
  BY IsolationInvStep
<1> QED
  BY TypeInvInvariant, <1>1, <1>2, PTL DEF Spec

\* No disk and no saved file ever carries the work of another user, whichever
\* VMs were removed, saved late or provisioned meanwhile.
THEOREM DiskIsolationHolds == Spec => []DiskIsolation
<1>1. IsolationInv /\ TypeInv => DiskIsolation
  BY DEF IsolationInv, DiskIsolation, TypeInv, TypeOK
<1> QED
  BY TypeInvInvariant, IsolationInvariant, <1>1, PTL

(* The base image and the file.                                            *)

\* Every step keeps a user without a file while the base image is copied.
LEMMA CopyTargetStep ==
    TypeInv /\ CopyTargetAbsent /\ [Next]_vars => CopyTargetAbsent'
<1> SUFFICES ASSUME TypeOK, RefInv, LockInv, CopyTargetAbsent, [Next]_vars
             PROVE  CopyTargetAbsent'
  BY DEF TypeInv
<1> USE ConstantsAssumption
<1>1. ASSUME NEW t \in Tasks, NEW u \in Users, Arrive(t, u)
      PROVE  CopyTargetAbsent'
  BY <1>1 DEF Arrive, Goto, CopyTargetAbsent, TypeOK, registryVars, diskVars, fileVars,
      mainVars, historyVars
<1>2. ASSUME NEW t \in Tasks, FindUserVm(t)
      PROVE  CopyTargetAbsent'
  BY <1>2 DEF FindUserVm, Goto, CopyTargetAbsent, TypeOK, registryVars, diskVars,
      fileVars, mainVars, historyVars
<1>3. ASSUME NEW t \in Tasks, Reserve(t)
      PROVE  CopyTargetAbsent'
  BY <1>3 DEF Reserve, Goto, SlotAvailable, CopyTargetAbsent, TypeOK, registryVars,
      diskVars, fileVars, mainVars, historyVars
<1>4. ASSUME NEW t \in Tasks, Reject(t)
      PROVE  CopyTargetAbsent'
  BY <1>4 DEF Reject, Finish, CopyTargetAbsent, TypeOK, registryVars, diskVars,
      fileVars, mainVars, historyVars
<1>5. ASSUME NEW t \in Tasks, RequestLock(t)
      PROVE  CopyTargetAbsent'
  BY <1>5 DEF RequestLock, Goto, Enqueue, CopyTargetAbsent, TypeOK, registryVars,
      diskVars, fileVars, mainVars, historyVars
<1>6. ASSUME NEW t \in Tasks, FindFile(t)
      PROVE  CopyTargetAbsent'
  BY <1>6 DEF FindFile, Goto, HasLock, Unlock, CopyTargetAbsent, TypeOK, registryVars,
      diskVars, fileVars, mainVars, historyVars
<1>7. ASSUME NEW t \in Tasks, MissFile(t)
      PROVE  CopyTargetAbsent'
  BY <1>7 DEF MissFile, Goto, HasLock, CopyTargetAbsent, TypeOK, registryVars, diskVars,
      fileVars, mainVars, historyVars
<1>8. ASSUME NEW t \in Tasks, CopyBase(t)
      PROVE  CopyTargetAbsent'
  BY <1>8 DEF CopyBase, Goto, Unlock, LockInv, HasLock, CopyTargetAbsent, TypeOK,
      registryVars, diskVars, fileVars, mainVars, historyVars
<1>9. ASSUME NEW t \in Tasks, CopyFails(t)
      PROVE  CopyTargetAbsent'
  BY <1>9 DEF CopyFails, Finish, Unlock, DropGuard, InterruptedCopies, LockInv, HasLock,
      CopyTargetAbsent, TypeOK, registryVars, diskVars, fileVars, mainVars, historyVars
<1>10. ASSUME NEW t \in Tasks, GiveUpEnsure(t)
      PROVE  CopyTargetAbsent'
  BY <1>10 DEF GiveUpEnsure, Finish, DropGuard, CopyTargetAbsent, TypeOK, registryVars,
      diskVars, fileVars, mainVars, historyVars
<1>11. ASSUME NEW t \in Tasks, CreateVm(t)
      PROVE  CopyTargetAbsent'
  BY <1>11 DEF CreateVm, Goto, CopyTargetAbsent, TypeOK, registryVars, diskVars,
      fileVars, mainVars, historyVars
<1>12. ASSUME NEW t \in Tasks, CreateFails(t)
      PROVE  CopyTargetAbsent'
  BY <1>12 DEF CreateFails, Finish, DropGuard, CopyTargetAbsent, TypeOK, registryVars,
      diskVars, fileVars, mainVars, historyVars
<1>13. ASSUME NEW t \in Tasks, RegisterVm(t)
      PROVE  CopyTargetAbsent'
  BY <1>13 DEF RegisterVm, Goto, CopyTargetAbsent, TypeOK, registryVars, diskVars,
      fileVars, mainVars, historyVars
<1>14. ASSUME NEW t \in Tasks, Provisioned(t)
      PROVE  CopyTargetAbsent'
  BY <1>14 DEF Provisioned, Goto, DropGuard, CopyTargetAbsent, TypeOK, registryVars,
      diskVars, fileVars, mainVars, historyVars
<1>15. ASSUME NEW t \in Tasks, LockForSave(t)
      PROVE  CopyTargetAbsent'
  BY <1>15 DEF LockForSave, Goto, HasLock, CopyTargetAbsent, TypeOK, registryVars,
      diskVars, fileVars, mainVars, historyVars
<1>16. ASSUME NEW t \in Tasks, SaveRootfs(t)
      PROVE  CopyTargetAbsent'
  BY <1>16 DEF SaveRootfs, Finish, Unlock, WriteFile, DropVm, LockInv, HasLock,
      CopyTargetAbsent, TypeOK, registryVars, diskVars, fileVars, mainVars, historyVars
<1>17. ASSUME NEW t \in Tasks, SaveFails(t)
      PROVE  CopyTargetAbsent'
  BY <1>17 DEF SaveFails, Finish, Unlock, DropVm, CopyTargetAbsent, TypeOK,
      registryVars, diskVars, fileVars, mainVars, historyVars
<1>18. ASSUME NEW t \in Tasks, RemoveUserVm(t)
      PROVE  CopyTargetAbsent'
  BY <1>18 DEF RemoveUserVm, Goto, CopyTargetAbsent, TypeOK, registryVars, diskVars,
      fileVars, mainVars, historyVars
<1>19. ASSUME NEW t \in Tasks, LockForDelete(t)
      PROVE  CopyTargetAbsent'
  BY <1>19 DEF LockForDelete, Goto, HasLock, CopyTargetAbsent, TypeOK, registryVars,
      diskVars, fileVars, mainVars, historyVars
<1>20. ASSUME NEW t \in Tasks, DeleteFile(t)
      PROVE  CopyTargetAbsent'
  BY <1>20 DEF DeleteFile, Finish, Unlock, CopyTargetAbsent, TypeOK, registryVars,
      diskVars, fileVars, mainVars, historyVars
<1>21. ASSUME NEW t \in Tasks, DeleteFails(t)
      PROVE  CopyTargetAbsent'
  BY <1>21 DEF DeleteFails, Finish, Unlock, CopyTargetAbsent, TypeOK, registryVars,
      diskVars, fileVars, mainVars, historyVars
<1>22. ASSUME NEW t \in Tasks, Respond(t)
      PROVE  CopyTargetAbsent'
  BY <1>22 DEF Respond, Finish, CopyTargetAbsent, TypeOK, registryVars, diskVars,
      fileVars, mainVars, historyVars
<1>23. ASSUME NEW t \in Tasks, Chat(t)
      PROVE  CopyTargetAbsent'
  BY <1>23 DEF Chat, Finish, Touch, CopyTargetAbsent, TypeOK, registryVars, diskVars,
      fileVars, mainVars, historyVars
<1>24. ASSUME NEW t \in Tasks, OpenTerminal(t)
      PROVE  CopyTargetAbsent'
  BY <1>24 DEF OpenTerminal, Goto, Touch, CopyTargetAbsent, TypeOK, registryVars,
      diskVars, fileVars, mainVars, historyVars
<1>25. ASSUME NEW t \in Tasks, Disconnect(t)
      PROVE  CopyTargetAbsent'
  BY <1>25 DEF Disconnect, InRelay, Goto, Touch, CopyTargetAbsent, TypeOK, registryVars,
      diskVars, fileVars, mainVars, historyVars
<1>26. ASSUME NEW t \in Tasks, DisconnectGone(t)
      PROVE  CopyTargetAbsent'
  BY <1>26 DEF DisconnectGone, InRelay, Finish, CopyTargetAbsent, TypeOK, registryVars, diskVars,
      fileVars, mainVars, historyVars
<1>27. ASSUME NEW v \in VmIds, Work(v)
      PROVE  CopyTargetAbsent'
  BY <1>27 DEF Work, CopyTargetAbsent, TypeOK, registryVars, diskVars, fileVars,
      mainVars, historyVars
<1>28. ASSUME NEW v \in VmIds, GoIdle(v)
      PROVE  CopyTargetAbsent'
  BY <1>28 DEF GoIdle, CopyTargetAbsent, TypeOK, registryVars, diskVars, fileVars,
      mainVars, historyVars
<1>29. ASSUME NEW v \in VmIds, SaveNext(v)
      PROVE  CopyTargetAbsent'
  BY <1>29 DEF SaveNext, WriteFile, LockInv, HasLock, CopyTargetAbsent, TypeOK,
      registryVars, diskVars, fileVars, mainVars, historyVars
<1>30. ASSUME Sweep
      PROVE  CopyTargetAbsent'
  BY <1>30 DEF Sweep, CopyTargetAbsent, TypeOK, registryVars, diskVars, fileVars,
      mainVars, historyVars
<1>31. ASSUME Signal
      PROVE  CopyTargetAbsent'
  BY <1>31 DEF Signal, CopyTargetAbsent, TypeOK, registryVars, diskVars, fileVars,
      mainVars, historyVars
<1>32. ASSUME Drain
      PROVE  CopyTargetAbsent'
  BY <1>32 DEF Drain, Enqueue, CopyTargetAbsent, TypeOK, registryVars, diskVars,
      fileVars, mainVars, historyVars
<1>33. ASSUME LockForDrain
      PROVE  CopyTargetAbsent'
  BY <1>33 DEF LockForDrain, HasLock, CopyTargetAbsent, TypeOK, registryVars, diskVars,
      fileVars, mainVars, historyVars
<1>34. ASSUME Exit
      PROVE  CopyTargetAbsent'
  BY <1>34 DEF Exit, LoseMemory, InterruptedCopies, CopyTargetAbsent, TypeOK,
      registryVars, diskVars, fileVars, mainVars, historyVars
<1>35. ASSUME Crash
      PROVE  CopyTargetAbsent'
  BY <1>35 DEF Crash, LoseMemory, InterruptedCopies, Up, CopyTargetAbsent, TypeOK,
      registryVars, diskVars, fileVars, mainVars, historyVars
<1>36. ASSUME Start
      PROVE  CopyTargetAbsent'
  BY <1>36 DEF Start, CopyTargetAbsent, TypeOK, registryVars, diskVars, fileVars,
      mainVars, historyVars
<1>37. CASE UNCHANGED vars
  BY <1>37 DEF CopyTargetAbsent, TypeOK, registryVars, diskVars, fileVars, mainVars,
      historyVars, vars, registryVars, diskVars, fileVars, mainVars, historyVars
<1> QED
  BY <1>1, <1>2, <1>3, <1>4, <1>5, <1>6, <1>7, <1>8, <1>9, <1>10, <1>11, <1>12,
     <1>13, <1>14, <1>15, <1>16, <1>17, <1>18, <1>19, <1>20, <1>21, <1>22, <1>23,
     <1>24, <1>25, <1>26, <1>27, <1>28, <1>29, <1>30, <1>31, <1>32, <1>33, <1>34,
     <1>35, <1>36, <1>37 DEF Next, Proceed

\* While ensure_user_rootfs copies the base image, the user has no file that
\* the copy could replace: rootfs_lock covers the check and the copy.
THEOREM CopyTargetAbsentHolds == Spec => []CopyTargetAbsent
<1>1. Init => CopyTargetAbsent
  BY DEF Init, CopyTargetAbsent
<1> QED
  BY TypeInvInvariant, <1>1, CopyTargetStep, PTL DEF Spec

(* Who has a VM.                                                           *)

\* A task that creates or saves a VM is all that keeps it running.
InHand(t) == pc[t] \in Saving \cup {"register"}

\* A running VM is in exactly one place: the registry, the shutdown drain, or
\* the hands of one task. (Once the drain saves, its VMs run on until the exit.)
Custody ==
    /\ vms \cap draining = {}
    /\ main \notin {"drainWait", "drainSave"} => draining = {}
    /\ main = "down" => vms = {} /\ \A t \in Tasks : pc[t] = "free"
    /\ vms \cup draining \subseteq alive
    /\ \A t \in Tasks : InHand(t) => held[t] \in alive \ (vms \cup draining)
    /\ \A s, t \in Tasks : InHand(s) /\ InHand(t) /\ held[s] = held[t] => s = t
    /\ main \in {"serving", "grace", "drainWait"} =>
          \A v \in alive \ (vms \cup draining) : \E t \in Tasks : InHand(t) /\ held[t] = v

\* Nothing changes hands while no task takes a VM up or lets one go.
LEMMA CustodyKept ==
    ASSUME Custody, UNCHANGED <<vms, draining, alive, main>>, main # "down",
           \A t \in Tasks : /\ InHand(t)' <=> InHand(t)
                            /\ InHand(t) => held'[t] = held[t]
    PROVE  Custody'
BY DEF Custody

\* Every step hands a VM from one place to another, and drops one that is in
\* the dropper's hands, or leaves the registry with the drop.
LEMMA CustodyStep == TypeInv /\ Custody /\ [Next]_vars => Custody'
<1> SUFFICES ASSUME TypeOK, RefInv, Custody, [Next]_vars PROVE Custody'
  BY DEF TypeInv
<1> USE ConstantsAssumption
<1>1. ASSUME NEW t \in Tasks, NEW u \in Users, Arrive(t, u)
      PROVE  Custody'
  <2>1. \A s \in Tasks : (InHand(s)' <=> InHand(s)) /\ (InHand(s) => held'[s] = held[s])
    BY <1>1 DEF Arrive, Goto, InHand, Saving, TypeOK
  <2>2. UNCHANGED <<vms, draining, alive, main>> /\ main # "down"
    BY <1>1 DEF Custody, Arrive, registryVars, mainVars, diskVars
  <2> QED
    BY <2>1, <2>2, CustodyKept
<1>2. ASSUME NEW t \in Tasks, FindUserVm(t)
      PROVE  Custody'
  <2>1. \A s \in Tasks : (InHand(s)' <=> InHand(s)) /\ (InHand(s) => held'[s] = held[s])
    BY <1>2 DEF FindUserVm, Goto, InHand, Saving, TypeOK
  <2> QED
    BY <1>2, <2>1, CustodyKept DEF Custody, FindUserVm, registryVars, mainVars, diskVars
<1>3. ASSUME NEW t \in Tasks, Reserve(t)
      PROVE  Custody'
  <2>1. \A s \in Tasks : (InHand(s)' <=> InHand(s)) /\ (InHand(s) => held'[s] = held[s])
    BY <1>3 DEF Reserve, Goto, InHand, Saving, TypeOK
  <2>2. UNCHANGED <<vms, draining, alive, main>> /\ main # "down"
    BY <1>3 DEF Custody, Reserve, registryVars, mainVars, diskVars
  <2> QED
    BY <2>1, <2>2, CustodyKept
<1>4. ASSUME NEW t \in Tasks, Reject(t)
      PROVE  Custody'
  <2>1. \A s \in Tasks : (InHand(s)' <=> InHand(s)) /\ (InHand(s) => held'[s] = held[s])
    BY <1>4 DEF Reject, Finish, InHand, Saving, TypeOK
  <2>2. UNCHANGED <<vms, draining, alive, main>> /\ main # "down"
    BY <1>4 DEF Custody, Reject, registryVars, mainVars, diskVars
  <2> QED
    BY <2>1, <2>2, CustodyKept
<1>5. ASSUME NEW t \in Tasks, RequestLock(t)
      PROVE  Custody'
  <2>1. \A s \in Tasks : (InHand(s)' <=> InHand(s)) /\ held'[s] = held[s]
    BY <1>5 DEF RequestLock, Goto, InHand, Saving, TypeOK
  <2> QED
    BY <1>5, <2>1, CustodyKept DEF Custody, RequestLock, registryVars, mainVars, diskVars
<1>6. ASSUME NEW t \in Tasks, FindFile(t)
      PROVE  Custody'
  <2>1. \A s \in Tasks : (InHand(s)' <=> InHand(s)) /\ (InHand(s) => held'[s] = held[s])
    BY <1>6 DEF FindFile, Goto, InHand, Saving, TypeOK
  <2>2. UNCHANGED <<vms, draining, alive, main>> /\ main # "down"
    BY <1>6 DEF Custody, FindFile, registryVars, mainVars, diskVars
  <2> QED
    BY <2>1, <2>2, CustodyKept
<1>7. ASSUME NEW t \in Tasks, MissFile(t)
      PROVE  Custody'
  <2>1. \A s \in Tasks : (InHand(s)' <=> InHand(s)) /\ (InHand(s) => held'[s] = held[s])
    BY <1>7 DEF MissFile, Goto, InHand, Saving, TypeOK
  <2>2. UNCHANGED <<vms, draining, alive, main>> /\ main # "down"
    BY <1>7 DEF Custody, MissFile, registryVars, mainVars, diskVars
  <2> QED
    BY <2>1, <2>2, CustodyKept
<1>8. ASSUME NEW t \in Tasks, CopyBase(t)
      PROVE  Custody'
  <2>1. \A s \in Tasks : (InHand(s)' <=> InHand(s)) /\ (InHand(s) => held'[s] = held[s])
    BY <1>8 DEF CopyBase, Goto, InHand, Saving, TypeOK
  <2>2. UNCHANGED <<vms, draining, alive, main>> /\ main # "down"
    BY <1>8 DEF Custody, CopyBase, registryVars, mainVars, diskVars
  <2> QED
    BY <2>1, <2>2, CustodyKept
<1>9. ASSUME NEW t \in Tasks, CopyFails(t)
      PROVE  Custody'
  <2>1. \A s \in Tasks : (InHand(s)' <=> InHand(s)) /\ (InHand(s) => held'[s] = held[s])
    BY <1>9 DEF CopyFails, Finish, InHand, Saving, TypeOK
  <2>2. UNCHANGED <<vms, draining, alive, main>> /\ main # "down"
    BY <1>9 DEF Custody, CopyFails, registryVars, mainVars, diskVars
  <2> QED
    BY <2>1, <2>2, CustodyKept
<1>10. ASSUME NEW t \in Tasks, GiveUpEnsure(t)
      PROVE  Custody'
  <2>1. \A s \in Tasks : (InHand(s)' <=> InHand(s)) /\ (InHand(s) => held'[s] = held[s])
    BY <1>10 DEF GiveUpEnsure, Finish, InHand, Saving, TypeOK
  <2>2. UNCHANGED <<vms, draining, alive, main>> /\ main # "down"
    BY <1>10 DEF Custody, GiveUpEnsure, registryVars, mainVars, diskVars
  <2> QED
    BY <2>1, <2>2, CustodyKept
<1>11. ASSUME NEW t \in Tasks, CreateVm(t)
      PROVE  Custody'
  <2>1. PICK v \in VmIds :
            /\ owner[v] = None /\ alive' = alive \cup {v}
            /\ held' = [held EXCEPT ![t] = v]
    BY <1>11 DEF CreateVm
  <2>2. /\ pc[t] = "create" /\ pc' = [pc EXCEPT ![t] = "register"]
        /\ UNCHANGED <<vms, draining, main>>
    BY <1>11 DEF CreateVm, Goto, mainVars
  <2>3. /\ InHand(t)' /\ held'[t] = v /\ ~InHand(t)
        /\ \A s \in Tasks : s # t => (InHand(s)' <=> InHand(s)) /\ held'[s] = held[s]
    BY <2>1, <2>2 DEF InHand, Saving, TypeOK
  <2>4. \A s \in Tasks : InHand(s) => held[s] # v
    BY <2>1 DEF InHand, Saving, RefInv, HasVm, Labels
  <2>5. v \notin vms \cup draining
    BY <2>1 DEF RefInv
  <2>6. /\ \A s \in Tasks : InHand(s)' => held'[s] \in alive' \ (vms' \cup draining')
        /\ \A r, s \in Tasks : InHand(r)' /\ InHand(s)' /\ held'[r] = held'[s] => r = s
    BY <2>1, <2>2, <2>3, <2>4, <2>5 DEF Custody
  <2>7. main' \in {"serving", "grace", "drainWait"} =>
            \A w \in alive' \ (vms' \cup draining') :
                \E s \in Tasks : InHand(s)' /\ held'[s] = w
    BY <2>1, <2>2, <2>3 DEF Custody
  <2>8. main' # "down"
    BY <2>2 DEF Custody
  <2> QED
    BY <2>1, <2>2, <2>6, <2>7, <2>8 DEF Custody
<1>12. ASSUME NEW t \in Tasks, CreateFails(t)
      PROVE  Custody'
  <2>1. \A s \in Tasks : (InHand(s)' <=> InHand(s)) /\ (InHand(s) => held'[s] = held[s])
    BY <1>12 DEF CreateFails, Finish, InHand, Saving, TypeOK
  <2>2. UNCHANGED <<vms, draining, alive, main>> /\ main # "down"
    BY <1>12 DEF Custody, CreateFails, registryVars, mainVars, diskVars
  <2> QED
    BY <2>1, <2>2, CustodyKept
<1>13. ASSUME NEW t \in Tasks, RegisterVm(t)
      PROVE  Custody'
  <2>1. /\ pc[t] = "register" /\ pc' = [pc EXCEPT ![t] = "registered"]
        /\ vms' = vms \cup {held[t]} /\ UNCHANGED <<draining, main, alive, held>>
    BY <1>13 DEF RegisterVm, Goto, mainVars, diskVars
  <2>2. /\ InHand(t) /\ ~InHand(t)'
        /\ \A s \in Tasks : s # t => (InHand(s)' <=> InHand(s))
    BY <2>1 DEF InHand, Saving, TypeOK
  <2> QED
    BY <2>1, <2>2 DEF Custody
<1>14. ASSUME NEW t \in Tasks, Provisioned(t)
      PROVE  Custody'
  <2>1. \A s \in Tasks : (InHand(s)' <=> InHand(s)) /\ (InHand(s) => held'[s] = held[s])
    BY <1>14 DEF Provisioned, Goto, InHand, Saving, TypeOK
  <2>2. UNCHANGED <<vms, draining, alive, main>> /\ main # "down"
    BY <1>14 DEF Custody, Provisioned, registryVars, mainVars, diskVars
  <2> QED
    BY <2>1, <2>2, CustodyKept
<1>15. ASSUME NEW t \in Tasks, LockForSave(t)
      PROVE  Custody'
  <2>1. \A s \in Tasks : (InHand(s)' <=> InHand(s)) /\ (InHand(s) => held'[s] = held[s])
    BY <1>15 DEF LockForSave, Goto, InHand, Saving, TypeOK
  <2>2. UNCHANGED <<vms, draining, alive, main>> /\ main # "down"
    BY <1>15 DEF Custody, LockForSave, registryVars, mainVars, diskVars
  <2> QED
    BY <2>1, <2>2, CustodyKept
<1>16. ASSUME NEW t \in Tasks, SaveRootfs(t)
      PROVE  Custody'
  BY <1>16 DEF SaveRootfs, Finish, Unlock, WriteFile, DropVm, Custody, InHand, Saving,
      TypeOK, registryVars, diskVars, fileVars, mainVars, historyVars
<1>17. ASSUME NEW t \in Tasks, SaveFails(t)
      PROVE  Custody'
  BY <1>17 DEF SaveFails, Finish, Unlock, DropVm, Custody, InHand, Saving, TypeOK,
      registryVars, diskVars, fileVars, mainVars, historyVars
<1>18. ASSUME NEW t \in Tasks, RemoveUserVm(t)
      PROVE  Custody'
  <2> DEFINE removed == vms \cap VmsOf(user[t])
  <2>1. /\ pc[t] = "delete" /\ pc' = [pc EXCEPT ![t] = "deleteLock"]
        /\ UNCHANGED <<draining, main, held>>
        /\ vms' = vms \ removed /\ alive' = alive \ removed
    BY <1>18 DEF RemoveUserVm, Goto, mainVars
  <2>2. \A s \in Tasks : InHand(s)' <=> InHand(s)
    BY <2>1 DEF InHand, Saving, TypeOK
  <2>3. removed \subseteq vms /\ main # "down"
    BY <2>1 DEF Custody
  <2> HIDE DEF removed
  <2>4. \A s \in Tasks : InHand(s)' => held'[s] \in alive' \ (vms' \cup draining')
    BY <2>1, <2>2, <2>3 DEF Custody
  <2>5. main' \in {"serving", "grace", "drainWait"} =>
            \A v \in alive' \ (vms' \cup draining') : \E s \in Tasks : InHand(s)' /\ held'[s] = v
    BY <2>1, <2>2, <2>3 DEF Custody
  <2> QED
    BY <2>1, <2>2, <2>3, <2>4, <2>5 DEF Custody
<1>19. ASSUME NEW t \in Tasks, LockForDelete(t)
      PROVE  Custody'
  <2>1. \A s \in Tasks : (InHand(s)' <=> InHand(s)) /\ (InHand(s) => held'[s] = held[s])
    BY <1>19 DEF LockForDelete, Goto, InHand, Saving, TypeOK
  <2>2. UNCHANGED <<vms, draining, alive, main>> /\ main # "down"
    BY <1>19 DEF Custody, LockForDelete, registryVars, mainVars, diskVars
  <2> QED
    BY <2>1, <2>2, CustodyKept
<1>20. ASSUME NEW t \in Tasks, DeleteFile(t)
      PROVE  Custody'
  <2>1. \A s \in Tasks : (InHand(s)' <=> InHand(s)) /\ (InHand(s) => held'[s] = held[s])
    BY <1>20 DEF DeleteFile, Finish, InHand, Saving, TypeOK
  <2>2. UNCHANGED <<vms, draining, alive, main>> /\ main # "down"
    BY <1>20 DEF Custody, DeleteFile, registryVars, mainVars, diskVars
  <2> QED
    BY <2>1, <2>2, CustodyKept
<1>21. ASSUME NEW t \in Tasks, DeleteFails(t)
      PROVE  Custody'
  <2>1. \A s \in Tasks : (InHand(s)' <=> InHand(s)) /\ (InHand(s) => held'[s] = held[s])
    BY <1>21 DEF DeleteFails, Finish, InHand, Saving, TypeOK
  <2>2. UNCHANGED <<vms, draining, alive, main>> /\ main # "down"
    BY <1>21 DEF Custody, DeleteFails, registryVars, mainVars, diskVars
  <2> QED
    BY <2>1, <2>2, CustodyKept
<1>22. ASSUME NEW t \in Tasks, Respond(t)
      PROVE  Custody'
  <2>1. \A s \in Tasks : (InHand(s)' <=> InHand(s)) /\ (InHand(s) => held'[s] = held[s])
    BY <1>22 DEF Respond, Finish, InHand, Saving, TypeOK
  <2>2. UNCHANGED <<vms, draining, alive, main>> /\ main # "down"
    BY <1>22 DEF Custody, Respond, registryVars, mainVars, diskVars
  <2> QED
    BY <2>1, <2>2, CustodyKept
<1>23. ASSUME NEW t \in Tasks, Chat(t)
      PROVE  Custody'
  <2>1. \A s \in Tasks : (InHand(s)' <=> InHand(s)) /\ (InHand(s) => held'[s] = held[s])
    BY <1>23 DEF Chat, Finish, InHand, Saving, TypeOK
  <2>2. UNCHANGED <<vms, draining, alive, main>> /\ main # "down"
    BY <1>23 DEF Custody, Chat, registryVars, mainVars, diskVars, Touch
  <2> QED
    BY <2>1, <2>2, CustodyKept
<1>24. ASSUME NEW t \in Tasks, OpenTerminal(t)
      PROVE  Custody'
  <2>1. \A s \in Tasks : (InHand(s)' <=> InHand(s)) /\ (InHand(s) => held'[s] = held[s])
    BY <1>24 DEF OpenTerminal, Goto, InHand, Saving, TypeOK
  <2>2. UNCHANGED <<vms, draining, alive, main>> /\ main # "down"
    BY <1>24 DEF Custody, OpenTerminal, registryVars, mainVars, diskVars, Touch
  <2> QED
    BY <2>1, <2>2, CustodyKept
<1>25. ASSUME NEW t \in Tasks, Disconnect(t)
      PROVE  Custody'
  BY <1>25 DEF Disconnect, InRelay, Goto, Touch, RefInv, HasVm, Custody, InHand, Saving,
      TypeOK, registryVars, diskVars, fileVars, mainVars, historyVars
<1>26. ASSUME NEW t \in Tasks, DisconnectGone(t)
      PROVE  Custody'
  <2>1. \A s \in Tasks : (InHand(s)' <=> InHand(s)) /\ (InHand(s) => held'[s] = held[s])
    BY <1>26 DEF DisconnectGone, Finish, InHand, Saving, TypeOK, InRelay
  <2>2. UNCHANGED <<vms, draining, alive, main>> /\ main # "down"
    BY <1>26 DEF Custody, DisconnectGone, registryVars, mainVars, diskVars, InRelay
  <2> QED
    BY <2>1, <2>2, CustodyKept
<1>27. ASSUME NEW v \in VmIds, Work(v)
      PROVE  Custody'
  BY <1>27 DEF Work, Custody, InHand, Saving, TypeOK, registryVars, diskVars, fileVars,
      mainVars, historyVars
<1>28. ASSUME NEW v \in VmIds, GoIdle(v)
      PROVE  Custody'
  BY <1>28 DEF GoIdle, Custody, InHand, Saving, TypeOK, registryVars, diskVars,
      fileVars, mainVars, historyVars
<1>29. ASSUME NEW v \in VmIds, SaveNext(v)
      PROVE  Custody'
  BY <1>29 DEF SaveNext, WriteFile, Custody, InHand, Saving, TypeOK, registryVars,
      diskVars, fileVars, mainVars, historyVars
<1>30. ASSUME Sweep
      PROVE  Custody'
  BY <1>30 DEF Sweep, Custody, InHand, Saving, TypeOK, registryVars, diskVars, fileVars,
      mainVars, historyVars
<1>31. ASSUME Signal
      PROVE  Custody'
  BY <1>31 DEF Signal, Custody, InHand, Saving, TypeOK, registryVars, diskVars,
      fileVars, mainVars, historyVars
<1>32. ASSUME Drain
      PROVE  Custody'
  BY <1>32 DEF Drain, Enqueue, Custody, InHand, Saving, TypeOK, registryVars, diskVars,
      fileVars, mainVars, historyVars
<1>33. ASSUME LockForDrain
      PROVE  Custody'
  BY <1>33 DEF LockForDrain, HasLock, Custody, InHand, Saving, TypeOK, registryVars,
      diskVars, fileVars, mainVars, historyVars
<1>34. ASSUME Exit
      PROVE  Custody'
  BY <1>34 DEF Exit, LoseMemory, InterruptedCopies, Custody, InHand, Saving, TypeOK,
      registryVars, diskVars, fileVars, mainVars, historyVars
<1>35. ASSUME Crash
      PROVE  Custody'
  BY <1>35 DEF Crash, LoseMemory, InterruptedCopies, Up, Custody, InHand, Saving,
      TypeOK, registryVars, diskVars, fileVars, mainVars, historyVars
<1>36. ASSUME Start
      PROVE  Custody'
  BY <1>36 DEF Start, Custody, InHand, Saving, TypeOK, registryVars, diskVars, fileVars,
      mainVars, historyVars
<1>37. CASE UNCHANGED vars
  BY <1>37 DEF Custody, InHand, Saving, TypeOK, vars, registryVars, diskVars, fileVars,
      mainVars, historyVars
<1> QED
  BY <1>1, <1>2, <1>3, <1>4, <1>5, <1>6, <1>7, <1>8, <1>9, <1>10, <1>11, <1>12, <1>13,
      <1>14, <1>15, <1>16, <1>17, <1>18, <1>19, <1>20, <1>21, <1>22, <1>23, <1>24,
      <1>25, <1>26, <1>27, <1>28, <1>29, <1>30, <1>31, <1>32, <1>33, <1>34, <1>35,
      <1>36, <1>37 DEF Next, Proceed

\* A running VM is in one place in every behaviour.
LEMMA CustodyInvariant == Spec => []Custody
<1>1. Init => Custody
  BY DEF Init, Custody, InHand, Saving
<1> QED
  BY TypeInvInvariant, <1>1, CustodyStep, PTL DEF Spec

\* No path of the server drops an entry and leaves its VM running, or keeps an
\* entry whose VM was dropped, up to the final save of a shutdown.
THEOREM NoLeakedVmHolds == Spec => []NoLeakedVm
<1>1. Custody => NoLeakedVm
  BY DEF Custody, NoLeakedVm, InHand
<1> QED
  BY CustodyInvariant, <1>1, PTL

\* At most one task or the drain saves a VM, and what is being saved is not in
\* the registry any more, however terminals, resets and the shutdown meet.
THEOREM OneSaverHolds == Spec => []OneSaver
<1>1. Custody => OneSaver
  BY DEF Custody, OneSaver, InHand
<1> QED
  BY CustodyInvariant, <1>1, PTL

(* The server implements VmSlots.                                          *)

\* What the slot of a user depends on.
Running(u) == \E v \in vms : owner[v] = u
Coming(u) == \E t \in Tasks : pc[t] \in Unregistered /\ user[t] = u

\* The slots of a state, user by user.
LEMMA SlotValues ==
    /\ slotOf = [u \in Users |-> IF Running(u) THEN "running"
                                 ELSE IF Coming(u) THEN "booting" ELSE "none"]
    /\ slotOf' = [u \in Users |-> IF Running(u)' THEN "running"
                                  ELSE IF Coming(u)' THEN "booting" ELSE "none"]
<1>1. \A u : u \in Booting <=> Coming(u)
  BY DEF Booting, Coming
<1>2. \A u : u \in Booting' <=> Coming(u)'
  BY DEF Booting, Coming
<1> QED
  BY <1>1, <1>2 DEF slotOf, Running

\* A user with a registered VM has none on its way.
LEMMA RunningNotComing == SlotInv => \A u \in Users : ~(Running(u) /\ Coming(u))
BY DEF SlotInv, Running, Coming

\* A provision on its way ends when its task does (ProvisioningGuard::drop).
LEMMA FinishAbandons ==
    ASSUME TypeOK, RefInv, SlotInv, NEW t \in Tasks, pc[t] \in Unregistered, Finish(t),
           UNCHANGED registryVars
    PROVE  Slots!Next
<1>1. PICK u \in Users : u = user[t]
  BY DEF RefInv, Unregistered
<1>2. \A s \in Tasks : s # t => pc'[s] = pc[s] /\ user'[s] = user[s]
  BY DEF Finish, TypeOK
<1>3. pc'[t] = "free"
  BY DEF Finish, TypeOK
<1>4. Coming(u) /\ ~Running(u)
  BY <1>1, RunningNotComing DEF Coming
<1>5. ~Coming(u)'
  BY <1>1, <1>2, <1>3 DEF Coming, SlotInv, Guarded, Unregistered
<1>6. \A w \in Users : w # u => (Coming(w)' <=> Coming(w))
  BY <1>1, <1>2, <1>3 DEF Coming, Unregistered
<1>7. \A w \in Users : Running(w)' <=> Running(w)
  BY DEF Running, registryVars
<1>8. slotOf[u] = "booting" /\ slotOf' = [slotOf EXCEPT ![u] = "none"]
  BY <1>1, <1>4, <1>5, <1>6, <1>7, SlotValues
<1>9. Slots!Abandon(u)
  BY <1>8 DEF Slots!Abandon
<1> QED
  BY <1>1, <1>9 DEF Slots!Next

\* Whatever only takes VMs out of the registry, one, several or none, retires the
\* users who had them: each had one only, and none on its way.
LEMMA RemovalRetires ==
    ASSUME SlotInv, \A v \in vms' : v \in vms /\ owner'[v] = owner[v],
           \A v \in vms : owner'[v] = owner[v],
           \A s \in Tasks : /\ pc'[s] \in Unregistered <=> pc[s] \in Unregistered
                            /\ pc[s] \in Unregistered => user'[s] = user[s]
    PROVE  Slots!Next
<1> DEFINE users == {u \in Users : Running(u) /\ ~Running(u)'}
<1>1. \A u \in Users : Coming(u)' <=> Coming(u)
  BY DEF Coming
<1>2. \A u \in Users : Running(u)' => Running(u)
  BY DEF Running
<1>3. \A u \in users : ~Coming(u)
  BY RunningNotComing
<1>4. \A u \in users : slotOf[u] = "running"
  BY SlotValues
<1>5. slotOf' = [u \in Users |-> IF u \in users THEN "none" ELSE slotOf[u]]
  BY <1>1, <1>2, <1>3, SlotValues
<1>6. Slots!Retire(users)
  BY <1>4, <1>5 DEF Slots!Retire
<1>7. users \in SUBSET Users
  OBVIOUS
<1> QED
  BY <1>6, <1>7 DEF Slots!Next

\* The users who have a slot are no more than the VMs and the reservations.
LEMMA TakenWithin ==
    ASSUME TypeOK, RefInv, SlotInv, CapacityInv
    PROVE  /\ IsFiniteSet(Slots!Taken)
           /\ Cardinality(Slots!Taken) <= Cardinality(vms) + Cardinality(provisioning)
<1> DEFINE owners == {owner[v] : v \in vms}
<1>1. IsFiniteSet(owners) /\ Cardinality(owners) <= Cardinality(vms)
  <2> DEFINE f == [v \in vms |-> owner[v]]
  <2>1. f \in Surjection(vms, owners)
    BY DEF Surjection
  <2> QED
    BY <2>1, FS_Surjection DEF CapacityInv
<1>2. IsFiniteSet(provisioning) /\ IsFiniteSet(vms)
  BY DEF CapacityInv
<1>3. Slots!Taken \subseteq owners \cup provisioning
  <2>1. \A u \in Users : Coming(u) => u \in provisioning
    BY DEF Coming, SlotInv, Guarded
  <2>2. \A u \in Users : Running(u) => u \in owners
    BY DEF Running
  <2>3. \A u \in Slots!Taken : u \in Users /\ (Running(u) \/ Coming(u))
    BY SlotValues DEF Slots!Taken
  <2> QED
    BY <2>1, <2>2, <2>3
<1>4. /\ IsFiniteSet(owners \cup provisioning)
      /\ Cardinality(owners \cup provisioning)
            = Cardinality(owners) + Cardinality(provisioning)
                - Cardinality(owners \cap provisioning)
      /\ IsFiniteSet(owners \cap provisioning)
  BY <1>1, <1>2, FS_Union, FS_Subset
<1>5. /\ IsFiniteSet(Slots!Taken)
      /\ Cardinality(Slots!Taken) <= Cardinality(owners \cup provisioning)
  BY <1>3, <1>4, FS_Subset
<1> HIDE DEF owners
<1>6. /\ Cardinality(owners) \in Nat /\ Cardinality(provisioning) \in Nat
      /\ Cardinality(owners \cap provisioning) \in Nat /\ Cardinality(vms) \in Nat
      /\ Cardinality(Slots!Taken) \in Nat /\ Cardinality(owners \cup provisioning) \in Nat
  BY <1>1, <1>2, <1>4, <1>5, FS_CardinalityType
<1> QED
  BY <1>1, <1>4, <1>5, <1>6

\* Every step of the server is a step of VmSlots or changes no slot.
LEMMA SlotsStep ==
    TypeInv /\ SlotInv /\ CapacityInv /\ [Next]_vars => [Slots!Next]_slotOf
<1> SUFFICES ASSUME TypeOK, RefInv, SlotInv, CapacityInv, [Next]_vars
             PROVE  [Slots!Next]_slotOf
  BY DEF TypeInv
<1> USE ConstantsAssumption
<1>1. ASSUME NEW t \in Tasks, NEW u \in Users, Arrive(t, u)
      PROVE  [Slots!Next]_slotOf
  BY <1>1, RemovalRetires DEF Arrive, Goto, Unregistered, TypeOK, registryVars
<1>2. ASSUME NEW t \in Tasks, FindUserVm(t)
      PROVE  [Slots!Next]_slotOf
  BY <1>2, RemovalRetires DEF FindUserVm, Goto, Unregistered, TypeOK, registryVars
<1>3. ASSUME NEW t \in Tasks, Reserve(t)
      PROVE  [Slots!Next]_slotOf
  <2> PICK u \in Users : u = user[t]
    BY <1>3 DEF Reserve, RefInv
  <2>1. /\ pc[t] = "reserve" /\ SlotAvailable(u) /\ pc' = [pc EXCEPT ![t] = "ensureLock"]
        /\ UNCHANGED <<vms, owner, user>>
    BY <1>3 DEF Reserve, Goto, registryVars
  <2>2. u \in Users /\ ~Running(u) /\ ~Coming(u)
    BY <2>1 DEF RefInv, Running, Coming, SlotAvailable, SlotInv, Guarded
  <2>3. Coming(u)' /\ \A w \in Users : w # u => (Coming(w)' <=> Coming(w))
    BY <2>1 DEF Coming, Unregistered, TypeOK
  <2>4. \A w \in Users : Running(w)' <=> Running(w)
    BY <2>1 DEF Running
  <2>5. slotOf[u] = "none" /\ slotOf' = [slotOf EXCEPT ![u] = "booting"]
    BY <2>2, <2>3, <2>4, SlotValues
  <2>6. Cardinality(Slots!Taken) < MaxVms
    <3>1. Cardinality(vms) + Cardinality(provisioning) < MaxVms
      BY <2>1 DEF SlotAvailable
    <3>2. /\ Cardinality(vms) \in Nat /\ Cardinality(provisioning) \in Nat
          /\ Cardinality(Slots!Taken) \in Nat
      BY TakenWithin, FS_CardinalityType DEF CapacityInv
    <3> QED
      BY <3>1, <3>2, TakenWithin
  <2> QED
    <3>1. Slots!Cardinality(Slots!Taken) = Cardinality(Slots!Taken)
      BY Zenon DEF Slots!Cardinality, Cardinality
    <3>2. Slots!Admit(u)
      BY <2>5, <2>6, <3>1 DEF Slots!Admit
    <3> QED
      BY <3>2 DEF Slots!Next
<1>4. ASSUME NEW t \in Tasks, Reject(t)
      PROVE  [Slots!Next]_slotOf
  BY <1>4, RemovalRetires DEF Reject, Finish, Unregistered, TypeOK, registryVars
<1>5. ASSUME NEW t \in Tasks, RequestLock(t)
      PROVE  [Slots!Next]_slotOf
  BY <1>5, RemovalRetires DEF RequestLock, Goto, Enqueue, Unregistered, TypeOK,
      registryVars
<1>6. ASSUME NEW t \in Tasks, FindFile(t)
      PROVE  [Slots!Next]_slotOf
  BY <1>6, RemovalRetires DEF FindFile, Goto, HasLock, Unlock, Unregistered, TypeOK,
      registryVars
<1>7. ASSUME NEW t \in Tasks, MissFile(t)
      PROVE  [Slots!Next]_slotOf
  BY <1>7, RemovalRetires DEF MissFile, Goto, HasLock, Unregistered, TypeOK, registryVars
<1>8. ASSUME NEW t \in Tasks, CopyBase(t)
      PROVE  [Slots!Next]_slotOf
  BY <1>8, RemovalRetires DEF CopyBase, Goto, Unlock, Unregistered, TypeOK, registryVars
<1>9. ASSUME NEW t \in Tasks, CopyFails(t)
      PROVE  [Slots!Next]_slotOf
  BY <1>9, FinishAbandons DEF CopyFails, Unregistered
<1>10. ASSUME NEW t \in Tasks, GiveUpEnsure(t)
      PROVE  [Slots!Next]_slotOf
  BY <1>10, FinishAbandons DEF GiveUpEnsure, Unregistered
<1>11. ASSUME NEW t \in Tasks, CreateVm(t)
      PROVE  [Slots!Next]_slotOf
  <2>1. \A v \in vms : owner'[v] = owner[v]
    BY <1>11 DEF CreateVm, RefInv, TypeOK
  <2>2. vms' = vms /\ user' = user /\ pc[t] = "create" /\ pc' = [pc EXCEPT ![t] = "register"]
    BY <1>11 DEF CreateVm, Goto
  <2>3. \A s \in Tasks : pc'[s] \in Unregistered <=> pc[s] \in Unregistered
    BY <2>2 DEF Unregistered, TypeOK
  <2> QED
    BY <2>1, <2>2, <2>3, RemovalRetires
<1>12. ASSUME NEW t \in Tasks, CreateFails(t)
      PROVE  [Slots!Next]_slotOf
  BY <1>12, FinishAbandons DEF CreateFails, Unregistered
<1>13. ASSUME NEW t \in Tasks, RegisterVm(t)
      PROVE  [Slots!Next]_slotOf
  <2> PICK u \in Users : u = user[t]
    BY <1>13 DEF RegisterVm, RefInv
  <2>1. /\ pc[t] = "register" /\ pc' = [pc EXCEPT ![t] = "registered"]
        /\ vms' = vms \cup {held[t]} /\ UNCHANGED <<owner, user>>
    BY <1>13 DEF RegisterVm, Goto
  <2>2. u \in Users /\ owner[held[t]] = u /\ Coming(u) /\ ~Running(u)
    <3>1. u \in Users /\ owner[held[t]] = u /\ Coming(u)
      BY <2>1 DEF RefInv, HasVm, Coming, Unregistered
    <3> QED
      BY <3>1, RunningNotComing
  <2>3. Running(u)' /\ \A w \in Users : w # u => (Running(w)' <=> Running(w))
    BY <2>1, <2>2 DEF Running
  <2>4. \A w \in Users : w # u => (Coming(w)' <=> Coming(w))
    BY <2>1 DEF Coming, Unregistered, TypeOK
  <2>5. slotOf[u] = "booting" /\ slotOf' = [slotOf EXCEPT ![u] = "running"]
    BY <2>2, <2>3, <2>4, SlotValues
  <2> QED
    BY <2>2, <2>5 DEF Slots!Next, Slots!Boot
<1>14. ASSUME NEW t \in Tasks, Provisioned(t)
      PROVE  [Slots!Next]_slotOf
  BY <1>14, RemovalRetires DEF Provisioned, Goto, DropGuard, Unregistered, TypeOK,
      registryVars
<1>15. ASSUME NEW t \in Tasks, LockForSave(t)
      PROVE  [Slots!Next]_slotOf
  BY <1>15, RemovalRetires DEF LockForSave, Goto, HasLock, Unregistered, TypeOK,
      registryVars
<1>16. ASSUME NEW t \in Tasks, SaveRootfs(t)
      PROVE  [Slots!Next]_slotOf
  BY <1>16, RemovalRetires DEF SaveRootfs, Finish, Unlock, WriteFile, DropVm,
      Unregistered, TypeOK, registryVars
<1>17. ASSUME NEW t \in Tasks, SaveFails(t)
      PROVE  [Slots!Next]_slotOf
  BY <1>17, RemovalRetires DEF SaveFails, Finish, Unlock, DropVm, Unregistered, TypeOK,
      registryVars
<1>18. ASSUME NEW t \in Tasks, RemoveUserVm(t)
      PROVE  [Slots!Next]_slotOf
  BY <1>18, RemovalRetires DEF RemoveUserVm, Goto, Unregistered, TypeOK, registryVars
<1>19. ASSUME NEW t \in Tasks, LockForDelete(t)
      PROVE  [Slots!Next]_slotOf
  BY <1>19, RemovalRetires DEF LockForDelete, Goto, HasLock, Unregistered, TypeOK,
      registryVars
<1>20. ASSUME NEW t \in Tasks, DeleteFile(t)
      PROVE  [Slots!Next]_slotOf
  BY <1>20, RemovalRetires DEF DeleteFile, Finish, Unlock, Unregistered, TypeOK,
      registryVars
<1>21. ASSUME NEW t \in Tasks, DeleteFails(t)
      PROVE  [Slots!Next]_slotOf
  BY <1>21, RemovalRetires DEF DeleteFails, Finish, Unlock, Unregistered, TypeOK,
      registryVars
<1>22. ASSUME NEW t \in Tasks, Respond(t)
      PROVE  [Slots!Next]_slotOf
  BY <1>22, RemovalRetires DEF Respond, Finish, Unregistered, TypeOK, registryVars
<1>23. ASSUME NEW t \in Tasks, Chat(t)
      PROVE  [Slots!Next]_slotOf
  BY <1>23, RemovalRetires DEF Chat, Finish, Touch, Unregistered, TypeOK, registryVars
<1>24. ASSUME NEW t \in Tasks, OpenTerminal(t)
      PROVE  [Slots!Next]_slotOf
  BY <1>24, RemovalRetires DEF OpenTerminal, Goto, Touch, Unregistered, TypeOK,
      registryVars
<1>25. ASSUME NEW t \in Tasks, Disconnect(t)
      PROVE  [Slots!Next]_slotOf
  BY <1>25, RemovalRetires DEF Disconnect, InRelay, Goto, Touch, Unregistered, TypeOK,
      registryVars
<1>26. ASSUME NEW t \in Tasks, DisconnectGone(t)
      PROVE  [Slots!Next]_slotOf
  BY <1>26, RemovalRetires DEF DisconnectGone, InRelay, Finish, Unregistered, TypeOK,
      registryVars
<1>27. ASSUME NEW v \in VmIds, Work(v)
      PROVE  [Slots!Next]_slotOf
  BY <1>27, RemovalRetires DEF Work, registryVars
<1>28. ASSUME NEW v \in VmIds, GoIdle(v)
      PROVE  [Slots!Next]_slotOf
  BY <1>28, RemovalRetires DEF GoIdle, registryVars
<1>29. ASSUME NEW v \in VmIds, SaveNext(v)
      PROVE  [Slots!Next]_slotOf
  BY <1>29, RemovalRetires DEF SaveNext, WriteFile, registryVars
<1>30. ASSUME Sweep
      PROVE  [Slots!Next]_slotOf
  BY <1>30, RemovalRetires DEF Sweep, registryVars
<1>31. ASSUME Signal
      PROVE  [Slots!Next]_slotOf
  BY <1>31, RemovalRetires DEF Signal, registryVars
<1>32. ASSUME Drain
      PROVE  [Slots!Next]_slotOf
  BY <1>32, RemovalRetires DEF Drain, Enqueue, registryVars
<1>33. ASSUME LockForDrain
      PROVE  [Slots!Next]_slotOf
  BY <1>33, RemovalRetires DEF LockForDrain, HasLock, registryVars
<1>34. ASSUME Exit
      PROVE  [Slots!Next]_slotOf
  <2>1. vms' = {} /\ \A s \in Tasks : pc'[s] = "free"
    BY <1>34 DEF Exit, LoseMemory
  <2>2. \A u \in Users : ~Running(u)' /\ ~Coming(u)'
    BY <2>1 DEF Running, Coming, Unregistered
  <2>3. Slots!Forget
    BY <2>2, SlotValues DEF Slots!Forget
  <2> QED
    BY <2>3 DEF Slots!Next
<1>35. ASSUME Crash
      PROVE  [Slots!Next]_slotOf
  <2>1. vms' = {} /\ \A s \in Tasks : pc'[s] = "free"
    BY <1>35 DEF Crash, LoseMemory
  <2>2. \A u \in Users : ~Running(u)' /\ ~Coming(u)'
    BY <2>1 DEF Running, Coming, Unregistered
  <2>3. Slots!Forget
    BY <2>2, SlotValues DEF Slots!Forget
  <2> QED
    BY <2>3 DEF Slots!Next
<1>36. ASSUME Start
      PROVE  [Slots!Next]_slotOf
  BY <1>36, RemovalRetires DEF Start, registryVars
<1>37. CASE UNCHANGED vars
  BY <1>37, RemovalRetires DEF vars
<1> QED
  BY <1>1, <1>2, <1>3, <1>4, <1>5, <1>6, <1>7, <1>8, <1>9, <1>10, <1>11, <1>12, <1>13,
      <1>14, <1>15, <1>16, <1>17, <1>18, <1>19, <1>20, <1>21, <1>22, <1>23, <1>24,
      <1>25, <1>26, <1>27, <1>28, <1>29, <1>30, <1>31, <1>32, <1>33, <1>34, <1>35,
      <1>36, <1>37 DEF Next, Proceed

\* The tasks, locks and disks of the server give what VmSlots promises: a user has a
\* VM only through an admission within the limit, gets it once, and loses it only by
\* giving up, by a removal, or with the process.
THEOREM ImplementsSlotsHolds == Spec => ImplementsSlots
<1>1. Init => Slots!Init
  <2> SUFFICES ASSUME Init PROVE slotOf = [u \in Users |-> "none"]
    BY DEF Slots!Init
  <2>1. \A u \in Users : ~Running(u) /\ ~Coming(u)
    BY DEF Init, Running, Coming, Unregistered
  <2> QED
    BY <2>1, SlotValues
<1> QED
  BY TypeInvInvariant, SlotInvariant, CapacityInvariant, <1>1, SlotsStep, PTL
     DEF Spec, ImplementsSlots, Slots!Spec

(* What a reset erases.                                                    *)

\* A reset between remove_user_vm and the removal of the file; one that began with
\* nothing of the user in flight, and that no new VM of the user has overtaken.
Resetting(t) == pc[t] \in {"deleteLock", "deleteWait", "deleteFile"}
Sealed(t) == Resetting(t) /\ wipe[t].quiet /\ wipe[t].vms = VmsOf(user[t])

\* A sealed reset has left no VM of the user that could bring work back, and the
\* VMs whose work is erased have ended.
ErasedInv ==
    /\ \A t \in Tasks : Resetting(t) => wipe[t].vms \cup wipe[t].work \subseteq VmsOf(user[t])
    /\ \A t \in Tasks : Sealed(t) => alive \cap VmsOf(user[t]) = {}
    /\ \A v \in erased : owner[v] \in Users /\ v \notin alive
    /\ QuietResetErases

\* Nothing is brought back by a step that creates no VM, writes no work, and begins
\* or ends no reset.
LEMMA ErasedKept ==
    ASSUME ErasedInv, UNCHANGED <<owner, disk, erased>>, alive' \subseteq alive,
           \A u \in Users : file'[u] \subseteq file[u],
           \A t \in Tasks : Resetting(t)' => /\ Resetting(t)
                                             /\ wipe'[t] = wipe[t] /\ user'[t] = user[t]
    PROVE  ErasedInv'
<1>1. \A u : VmsOf(u)' = VmsOf(u)
  BY DEF VmsOf
<1>2. \A t \in Tasks : Resetting(t)' => VmsOf(user[t])' = VmsOf(user[t])
  BY DEF VmsOf
<1>3. \A t \in Tasks : Sealed(t)' => Sealed(t)
  BY <1>2 DEF Sealed
<1>4. \A t \in Tasks : Sealed(t)' => alive' \cap VmsOf(user[t])' = {}
  BY <1>2, <1>3 DEF ErasedInv, Sealed
<1>5. \A t \in Tasks : Resetting(t)' =>
            wipe'[t].vms \cup wipe'[t].work \subseteq VmsOf(user[t])'
  BY <1>2 DEF ErasedInv
<1>6. QuietResetErases'
  BY DEF ErasedInv, QuietResetErases
<1> QED
  BY <1>4, <1>5, <1>6 DEF ErasedInv

\* A save writes what a running VM has, none of it erased.
LEMMA SaveKeepsErased ==
    ASSUME TypeOK, ErasedInv, UNCHANGED <<owner, disk, erased>>, alive' \subseteq alive,
           NEW u \in Users, NEW v \in alive, file' = [file EXCEPT ![u] = disk[v]],
           \A t \in Tasks : Resetting(t)' => /\ Resetting(t)
                                             /\ wipe'[t] = wipe[t] /\ user'[t] = user[t]
    PROVE  ErasedInv'
<1>1. \A t \in Tasks : Resetting(t)' => VmsOf(user[t])' = VmsOf(user[t])
  BY DEF VmsOf
<1>2. \A t \in Tasks : Sealed(t)' => Sealed(t)
  BY <1>1 DEF Sealed
<1>3. \A t \in Tasks : Sealed(t)' => alive' \cap VmsOf(user[t])' = {}
  BY <1>1, <1>2 DEF ErasedInv, Sealed
<1>4. \A t \in Tasks : Resetting(t)' =>
            wipe'[t].vms \cup wipe'[t].work \subseteq VmsOf(user[t])'
  BY <1>1 DEF ErasedInv
<1>5. QuietResetErases'
  BY DEF ErasedInv, QuietResetErases, TypeOK
<1> QED
  BY <1>3, <1>4, <1>5 DEF ErasedInv

\* Every step leaves erased work erased: a reset that began in quiet ended the VMs
\* the user had, and whoever could still save one would have been in flight.
LEMMA ErasedStep ==
    TypeInv /\ SlotInv /\ IsolationInv /\ Custody /\ ErasedInv /\ [Next]_vars => ErasedInv'
<1> SUFFICES ASSUME TypeOK, RefInv, SlotInv, IsolationInv, Custody, ErasedInv, [Next]_vars
             PROVE  ErasedInv'
  BY DEF TypeInv
<1> USE ConstantsAssumption
<1>1. ASSUME NEW t \in Tasks, NEW u \in Users, Arrive(t, u)
      PROVE  ErasedInv'
  BY <1>1, ErasedKept DEF Arrive, Goto, Resetting, TypeOK, registryVars, diskVars,
      fileVars, mainVars, historyVars
<1>2. ASSUME NEW t \in Tasks, FindUserVm(t)
      PROVE  ErasedInv'
  BY <1>2, ErasedKept DEF FindUserVm, Goto, Resetting, TypeOK, registryVars, diskVars,
      fileVars, mainVars, historyVars
<1>3. ASSUME NEW t \in Tasks, Reserve(t)
      PROVE  ErasedInv'
  BY <1>3, ErasedKept DEF Reserve, Goto, SlotAvailable, Resetting, TypeOK, registryVars,
      diskVars, fileVars, mainVars, historyVars
<1>4. ASSUME NEW t \in Tasks, Reject(t)
      PROVE  ErasedInv'
  BY <1>4, ErasedKept DEF Reject, Finish, Resetting, TypeOK, registryVars, diskVars,
      fileVars, mainVars, historyVars
<1>5. ASSUME NEW t \in Tasks, RequestLock(t)
      PROVE  ErasedInv'
  BY <1>5, ErasedKept DEF RequestLock, Goto, Enqueue, Resetting, TypeOK, registryVars,
      diskVars, fileVars, mainVars, historyVars
<1>6. ASSUME NEW t \in Tasks, FindFile(t)
      PROVE  ErasedInv'
  BY <1>6, ErasedKept DEF FindFile, Goto, HasLock, Unlock, Resetting, TypeOK,
      registryVars, diskVars, fileVars, mainVars, historyVars
<1>7. ASSUME NEW t \in Tasks, MissFile(t)
      PROVE  ErasedInv'
  BY <1>7, ErasedKept DEF MissFile, Goto, HasLock, Resetting, TypeOK, registryVars,
      diskVars, fileVars, mainVars, historyVars
<1>8. ASSUME NEW t \in Tasks, CopyBase(t)
      PROVE  ErasedInv'
  BY <1>8, ErasedKept DEF CopyBase, Goto, Unlock, Resetting, TypeOK, registryVars,
      diskVars, fileVars, mainVars, historyVars
<1>9. ASSUME NEW t \in Tasks, CopyFails(t)
      PROVE  ErasedInv'
  BY <1>9, ErasedKept DEF CopyFails, Finish, Unlock, DropGuard, InterruptedCopies,
      Resetting, TypeOK, registryVars, diskVars, fileVars, mainVars, historyVars
<1>10. ASSUME NEW t \in Tasks, GiveUpEnsure(t)
      PROVE  ErasedInv'
  BY <1>10, ErasedKept DEF GiveUpEnsure, Finish, DropGuard, Resetting, TypeOK,
      registryVars, diskVars, fileVars, mainVars, historyVars
<1>11. ASSUME NEW t \in Tasks, CreateVm(t)
      PROVE  ErasedInv'
  <2>1. PICK v \in VmIds :
            /\ owner[v] = None /\ owner' = [owner EXCEPT ![v] = user[t]]
            /\ alive' = alive \cup {v} /\ disk' = [disk EXCEPT ![v] = file[user[t]]]
    BY <1>11 DEF CreateVm
  <2>2. PICK u \in Users : u = user[t]
    BY <1>11 DEF CreateVm, RefInv
  <2>3. /\ UNCHANGED <<user, file, wipe, erased>>
        /\ pc[t] = "create" /\ pc' = [pc EXCEPT ![t] = "register"]
    BY <1>11 DEF CreateVm, Goto, fileVars, historyVars
  <2>4. \A s \in Tasks : Resetting(s)' => Resetting(s) /\ user[s] \in Users
    BY <2>3 DEF Resetting, RefInv, TypeOK
  <2>5. \A w \in Users : /\ v \notin VmsOf(w)
                         /\ VmsOf(w)' = IF w = u THEN VmsOf(w) \cup {v} ELSE VmsOf(w)
    BY <2>1, <2>2 DEF VmsOf, TypeOK
  <2>6. \A s \in Tasks : Resetting(s)' =>
            VmsOf(user[s])' = IF user[s] = u THEN VmsOf(user[s]) \cup {v} ELSE VmsOf(user[s])
    <3> SUFFICES ASSUME NEW s \in Tasks, Resetting(s)'
                 PROVE  VmsOf(user[s])' = IF user[s] = u THEN VmsOf(user[s]) \cup {v}
                                          ELSE VmsOf(user[s])
      OBVIOUS
    <3>1. PICK w \in Users : w = user[s] /\ w = user'[s]
      BY <2>3, <2>4
    <3>2. VmsOf(user[s])' = VmsOf(w)'
      BY <3>1 DEF VmsOf
    <3> QED
      BY <2>5, <3>1, <3>2
  <2>7. \A s \in Tasks : Resetting(s)' =>
            wipe'[s].vms \cup wipe'[s].work \subseteq VmsOf(user[s])'
    <3> SUFFICES ASSUME NEW s \in Tasks, Resetting(s)'
                 PROVE  wipe'[s].vms \cup wipe'[s].work \subseteq VmsOf(user[s])'
      OBVIOUS
    <3>1. wipe[s].vms \cup wipe[s].work \subseteq VmsOf(user[s]) /\ wipe' = wipe
      BY <2>3, <2>4 DEF ErasedInv
    <3>2. VmsOf(user[s]) \subseteq VmsOf(user[s])'
      BY <2>6
    <3> QED
      BY <3>1, <3>2
  <2>8. \A s \in Tasks : Sealed(s)' => user[s] # u /\ Sealed(s)
    <3> SUFFICES ASSUME NEW s \in Tasks, Sealed(s)' PROVE user[s] # u /\ Sealed(s)
      OBVIOUS
    <3>1. /\ Resetting(s)' /\ Resetting(s) /\ wipe[s].quiet /\ user[s] \in Users
          /\ wipe[s].vms = VmsOf(user[s])'
      BY <2>3, <2>4 DEF Sealed
    <3>2. wipe[s].vms \subseteq VmsOf(user[s])
      BY <3>1 DEF ErasedInv
    <3>3. user[s] # u
      BY <2>5, <2>6, <3>1, <3>2
    <3> QED
      BY <2>6, <3>1, <3>3 DEF Sealed
  <2>9. \A s \in Tasks : Sealed(s)' => alive' \cap VmsOf(user[s])' = {}
    <3> SUFFICES ASSUME NEW s \in Tasks, Sealed(s)'
                 PROVE  alive' \cap VmsOf(user[s])' = {}
      OBVIOUS
    <3>1. VmsOf(user[s])' = VmsOf(user[s]) /\ Sealed(s) /\ user[s] \in Users
      BY <2>4, <2>6, <2>8 DEF Sealed
    <3>2. alive \cap VmsOf(user[s]) = {} /\ v \notin VmsOf(user[s])
      BY <2>5, <3>1 DEF ErasedInv
    <3> QED
      BY <2>1, <3>1, <3>2
  <2>10. \A e \in erased : e # v /\ owner'[e] = owner[e] /\ owner[e] \in Users /\ e \notin alive'
    BY <2>1 DEF ErasedInv, TypeOK
  <2>11. \A e \in erased : e \notin file[u]
    BY <2>10 DEF IsolationInv, VmsOf, ErasedInv, QuietResetErases
  <2>12. QuietResetErases'
    BY <2>1, <2>2, <2>3, <2>10, <2>11 DEF ErasedInv, QuietResetErases, TypeOK
  <2> QED
    BY <2>3, <2>7, <2>9, <2>10, <2>12 DEF ErasedInv
<1>12. ASSUME NEW t \in Tasks, CreateFails(t)
      PROVE  ErasedInv'
  BY <1>12, ErasedKept DEF CreateFails, Finish, DropGuard, Resetting, TypeOK,
      registryVars, diskVars, fileVars, mainVars, historyVars
<1>13. ASSUME NEW t \in Tasks, RegisterVm(t)
      PROVE  ErasedInv'
  BY <1>13, ErasedKept DEF RegisterVm, Goto, Resetting, TypeOK, registryVars, diskVars,
      fileVars, mainVars, historyVars
<1>14. ASSUME NEW t \in Tasks, Provisioned(t)
      PROVE  ErasedInv'
  BY <1>14, ErasedKept DEF Provisioned, Goto, DropGuard, Resetting, TypeOK, registryVars,
      diskVars, fileVars, mainVars, historyVars
<1>15. ASSUME NEW t \in Tasks, LockForSave(t)
      PROVE  ErasedInv'
  BY <1>15, ErasedKept DEF LockForSave, Goto, HasLock, Resetting, TypeOK, registryVars,
      diskVars, fileVars, mainVars, historyVars
<1>16. ASSUME NEW t \in Tasks, SaveRootfs(t)
      PROVE  ErasedInv'
  <2>1. \A s \in Tasks : Resetting(s)' => /\ Resetting(s)
                                          /\ wipe'[s] = wipe[s] /\ user'[s] = user[s]
    BY <1>16 DEF SaveRootfs, Finish, Resetting, TypeOK
  <2>2. user[t] \in Users /\ held[t] \in alive
    BY <1>16 DEF SaveRootfs, RefInv, Custody, InHand, Saving
  <2> QED
    BY <1>16, <2>1, <2>2, SaveKeepsErased DEF SaveRootfs, WriteFile, DropVm, registryVars
<1>17. ASSUME NEW t \in Tasks, SaveFails(t)
      PROVE  ErasedInv'
  BY <1>17, ErasedKept DEF SaveFails, Finish, Unlock, DropVm, Resetting, TypeOK,
      registryVars, diskVars, fileVars, mainVars, historyVars
<1>18. ASSUME NEW t \in Tasks, RemoveUserVm(t)
      PROVE  ErasedInv'
  <2>1. PICK u \in Users : u = user[t]
    BY <1>18 DEF RemoveUserVm, RefInv
  <2>2. /\ UNCHANGED <<owner, disk, erased, file, user>>
        /\ alive' = alive \ (vms \cap VmsOf(u)) /\ pc' = [pc EXCEPT ![t] = "deleteLock"]
        /\ wipe' = [wipe EXCEPT ![t] = [vms |-> VmsOf(u), work |-> WorkOf(u),
                                        quiet |-> Quiet(u)]]
    BY <1>18, <2>1 DEF RemoveUserVm, Goto, fileVars
  <2>3. /\ user'[t] = u /\ wipe'[t].vms = VmsOf(u) /\ wipe'[t].work = WorkOf(u)
        /\ wipe'[t].quiet = Quiet(u)
    BY <2>1, <2>2 DEF TypeOK
  <2>4. \A s \in Tasks : VmsOf(user[s])' = VmsOf(user[s])
    BY <2>2 DEF VmsOf
  <2>5. \A s \in Tasks : s # t =>
            /\ Resetting(s)' <=> Resetting(s)
            /\ wipe'[s] = wipe[s]
    BY <2>2 DEF Resetting, TypeOK
  <2>6. WorkOf(u) \subseteq VmsOf(u)
    BY DEF WorkOf, VmsOf, IsolationInv, TypeOK
  <2>7. Quiet(u) => alive' \cap VmsOf(u) = {}
    <3> SUFFICES ASSUME Quiet(u), NEW v \in alive, v \in VmsOf(u), v \notin vms
                 PROVE  FALSE
      BY <2>2
    <3>1. main = "serving" /\ draining = {}
      BY DEF Quiet, Custody
    <3>2. PICK s \in Tasks : InHand(s) /\ held[s] = v
      BY <3>1 DEF Custody
    <3>3. user[s] = u
      BY <3>2 DEF InHand, RefInv, HasVm, VmsOf
    <3>4. pc[s] = "register"
      BY <3>2, <3>3 DEF InHand, Quiet
    <3> QED
      BY <3>3, <3>4 DEF SlotInv, Guarded, Unregistered, Quiet
  <2>8. \A s \in Tasks : Resetting(s)' =>
            wipe'[s].vms \cup wipe'[s].work \subseteq VmsOf(user[s])'
    BY <2>1, <2>3, <2>4, <2>5, <2>6 DEF ErasedInv
  <2>9. \A s \in Tasks : Sealed(s)' => alive' \cap VmsOf(user[s])' = {}
    <3> SUFFICES ASSUME NEW s \in Tasks, Sealed(s)'
                 PROVE  alive' \cap VmsOf(user[s])' = {}
      OBVIOUS
    <3>1. CASE s = t
      BY <2>1, <2>3, <2>4, <2>7, <3>1 DEF Sealed
    <3>2. CASE s # t
      <4>1. Sealed(s)
        BY <2>4, <2>5, <3>2 DEF Sealed
      <4> QED
        BY <2>2, <2>4, <4>1 DEF ErasedInv
    <3> QED
      BY <3>1, <3>2
  <2>10. QuietResetErases'
    BY <2>2 DEF ErasedInv, QuietResetErases
  <2> QED
    BY <2>2, <2>8, <2>9, <2>10 DEF ErasedInv
<1>19. ASSUME NEW t \in Tasks, LockForDelete(t)
      PROVE  ErasedInv'
  BY <1>19, ErasedKept DEF LockForDelete, Goto, HasLock, Resetting, TypeOK, registryVars,
      diskVars, fileVars, mainVars, historyVars
<1>20. ASSUME NEW t \in Tasks, DeleteFile(t)
      PROVE  ErasedInv'
  <2>1. PICK u \in Users : u = user[t]
    BY <1>20 DEF DeleteFile, RefInv
  <2>2. /\ UNCHANGED <<owner, disk, alive>> /\ file' = [file EXCEPT ![u] = {}]
        /\ erased' = IF Sealed(t) THEN erased \cup wipe[t].work ELSE erased
    BY <1>20, <2>1 DEF DeleteFile, Sealed, Resetting, registryVars, diskVars
  <2>3. \A s \in Tasks : Resetting(s)' => /\ Resetting(s)
                                          /\ wipe'[s] = wipe[s] /\ user'[s] = user[s]
    BY <1>20 DEF DeleteFile, Finish, Resetting, TypeOK
  <2>4. \A w \in Users : file'[w] \subseteq file[w]
    BY <2>2 DEF TypeOK
  <2>5. CASE ~Sealed(t)
    BY <2>2, <2>3, <2>4, <2>5, ErasedKept
  <2>6. CASE Sealed(t)
    <3>1. \A s \in Tasks : Resetting(s)' => VmsOf(user[s])' = VmsOf(user[s])
      BY <2>2, <2>3 DEF VmsOf
    <3>2. \A s \in Tasks : Sealed(s)' => Sealed(s)
      BY <2>3, <3>1 DEF Sealed
    <3>3. \A s \in Tasks : Sealed(s)' => alive' \cap VmsOf(user[s])' = {}
      BY <2>2, <3>1, <3>2 DEF ErasedInv, Sealed
    <3>4. \A s \in Tasks : Resetting(s)' =>
              wipe'[s].vms \cup wipe'[s].work \subseteq VmsOf(user[s])'
      BY <2>3, <3>1 DEF ErasedInv
    <3>5. alive \cap VmsOf(u) = {} /\ wipe[t].work \subseteq VmsOf(u)
      BY <2>1, <2>6 DEF ErasedInv, Sealed
    <3>6. \A v \in wipe[t].work : /\ owner[v] = u /\ v \notin alive
                                  /\ \A w \in alive : v \notin disk[w]
      BY <3>5 DEF VmsOf, IsolationInv, TypeOK
    <3>7. QuietResetErases'
      BY <2>2, <2>6, <3>6 DEF ErasedInv, QuietResetErases, TypeOK
    <3> QED
      BY <2>2, <2>6, <3>3, <3>4, <3>6, <3>7 DEF ErasedInv
  <2> QED
    BY <2>5, <2>6
<1>21. ASSUME NEW t \in Tasks, DeleteFails(t)
      PROVE  ErasedInv'
  BY <1>21, ErasedKept DEF DeleteFails, Finish, Unlock, Resetting, TypeOK, registryVars,
      diskVars, fileVars, mainVars, historyVars
<1>22. ASSUME NEW t \in Tasks, Respond(t)
      PROVE  ErasedInv'
  BY <1>22, ErasedKept DEF Respond, Finish, Resetting, TypeOK, registryVars, diskVars,
      fileVars, mainVars, historyVars
<1>23. ASSUME NEW t \in Tasks, Chat(t)
      PROVE  ErasedInv'
  BY <1>23, ErasedKept DEF Chat, Finish, Touch, Resetting, TypeOK, registryVars, diskVars,
      fileVars, mainVars, historyVars
<1>24. ASSUME NEW t \in Tasks, OpenTerminal(t)
      PROVE  ErasedInv'
  BY <1>24, ErasedKept DEF OpenTerminal, Goto, Touch, Resetting, TypeOK, registryVars,
      diskVars, fileVars, mainVars, historyVars
<1>25. ASSUME NEW t \in Tasks, Disconnect(t)
      PROVE  ErasedInv'
  BY <1>25, ErasedKept DEF Disconnect, InRelay, Goto, Touch, Resetting, TypeOK,
      registryVars, diskVars, fileVars, mainVars, historyVars
<1>26. ASSUME NEW t \in Tasks, DisconnectGone(t)
      PROVE  ErasedInv'
  BY <1>26, ErasedKept DEF DisconnectGone, InRelay, Finish, Resetting, TypeOK,
      registryVars, diskVars, fileVars, mainVars, historyVars
<1>27. ASSUME NEW v \in VmIds, Work(v)
      PROVE  ErasedInv'
  <2>1. /\ UNCHANGED <<owner, alive, file, wipe, erased, pc, user>>
        /\ v \in alive /\ disk' = [disk EXCEPT ![v] = disk[v] \cup {v}]
    BY <1>27 DEF Work, registryVars, fileVars, historyVars
  <2>2. QuietResetErases'
    BY <2>1 DEF ErasedInv, QuietResetErases, TypeOK
  <2>3. \A s \in Tasks : /\ Resetting(s)' <=> Resetting(s)
                         /\ Sealed(s)' <=> Sealed(s) /\ VmsOf(user[s])' = VmsOf(user[s])
    BY <2>1 DEF Resetting, Sealed, VmsOf
  <2>4. \A s \in Tasks : Resetting(s)' =>
            wipe'[s].vms \cup wipe'[s].work \subseteq VmsOf(user[s])'
    <3>1. SUFFICES ASSUME NEW s \in Tasks, Resetting(s)'
                   PROVE  wipe'[s].vms \cup wipe'[s].work \subseteq VmsOf(user[s])'
      OBVIOUS
    <3>2. wipe'[s] = wipe[s] /\ VmsOf(user[s])' = VmsOf(user[s]) /\ Resetting(s)
      BY <2>1, <2>3, <3>1 DEF VmsOf
    <3> QED
      BY <3>2 DEF ErasedInv
  <2>5. \A s \in Tasks : Sealed(s)' => alive' \cap VmsOf(user[s])' = {}
    BY <2>1, <2>3 DEF ErasedInv
  <2>6. \A e \in erased' : owner'[e] \in Users /\ e \notin alive'
    BY <2>1 DEF ErasedInv
  <2> QED
    BY <2>2, <2>4, <2>5, <2>6 DEF ErasedInv
<1>28. ASSUME NEW v \in VmIds, GoIdle(v)
      PROVE  ErasedInv'
  BY <1>28, ErasedKept DEF GoIdle, Resetting, TypeOK, registryVars, diskVars, fileVars,
      mainVars, historyVars
<1>29. ASSUME NEW v \in VmIds, SaveNext(v)
      PROVE  ErasedInv'
  <2>1. \A s \in Tasks : Resetting(s)' => /\ Resetting(s)
                                          /\ wipe'[s] = wipe[s] /\ user'[s] = user[s]
    BY <1>29 DEF SaveNext, Resetting, historyVars
  <2>2. owner[v] \in Users /\ v \in alive
    BY <1>29 DEF SaveNext, RefInv, Custody
  <2>3. CASE file' = [file EXCEPT ![owner[v]] = disk[v]]
    BY <1>29, <2>1, <2>2, <2>3, SaveKeepsErased DEF SaveNext, registryVars, diskVars, historyVars
  <2>4. CASE file' = file
    BY <1>29, <2>1, <2>4, ErasedKept DEF SaveNext, registryVars, diskVars, historyVars
  <2> QED
    BY <1>29, <2>3, <2>4 DEF SaveNext, WriteFile, fileVars
<1>30. ASSUME Sweep
      PROVE  ErasedInv'
  BY <1>30, ErasedKept DEF Sweep, Resetting, TypeOK, registryVars, diskVars, fileVars,
      mainVars, historyVars
<1>31. ASSUME Signal
      PROVE  ErasedInv'
  BY <1>31, ErasedKept DEF Signal, Resetting, TypeOK, registryVars, diskVars, fileVars,
      mainVars, historyVars
<1>32. ASSUME Drain
      PROVE  ErasedInv'
  BY <1>32, ErasedKept DEF Drain, Enqueue, Resetting, TypeOK, registryVars, diskVars,
      fileVars, mainVars, historyVars
<1>33. ASSUME LockForDrain
      PROVE  ErasedInv'
  BY <1>33, ErasedKept DEF LockForDrain, HasLock, Resetting, TypeOK, registryVars,
      diskVars, fileVars, mainVars, historyVars
<1>34. ASSUME Exit
      PROVE  ErasedInv'
  BY <1>34, ErasedKept DEF Exit, LoseMemory, InterruptedCopies, Resetting, TypeOK,
      registryVars, diskVars, fileVars, mainVars, historyVars
<1>35. ASSUME Crash
      PROVE  ErasedInv'
  BY <1>35, ErasedKept DEF Crash, LoseMemory, InterruptedCopies, Up, Resetting, TypeOK,
      registryVars, diskVars, fileVars, mainVars, historyVars
<1>36. ASSUME Start
      PROVE  ErasedInv'
  BY <1>36, ErasedKept DEF Start, Resetting, TypeOK, registryVars, diskVars, fileVars,
      mainVars, historyVars
<1>37. CASE UNCHANGED vars
  BY <1>37, ErasedKept DEF Resetting, vars
<1> QED
  BY <1>1, <1>2, <1>3, <1>4, <1>5, <1>6, <1>7, <1>8, <1>9, <1>10, <1>11, <1>12, <1>13,
      <1>14, <1>15, <1>16, <1>17, <1>18, <1>19, <1>20, <1>21, <1>22, <1>23, <1>24,
      <1>25, <1>26, <1>27, <1>28, <1>29, <1>30, <1>31, <1>32, <1>33, <1>34, <1>35,
      <1>36, <1>37 DEF Next, Proceed

\* Work that a reset erased, having met nothing of its user in flight, is in no file
\* and in no running VM again, whatever is provisioned, saved or lost afterwards.
THEOREM QuietResetErasesHolds == Spec => []QuietResetErases
<1>1. Init => ErasedInv
  BY DEF Init, ErasedInv, Resetting, Sealed, QuietResetErases
<1>2. ErasedInv => QuietResetErases
  BY DEF ErasedInv
<1> QED
  BY TypeInvInvariant, SlotInvariant, IsolationInvariant, CustodyInvariant, <1>1, <1>2,
     ErasedStep, PTL DEF Spec
=============================================================================
