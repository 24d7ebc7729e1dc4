----------------------- MODULE VolumeThreads_proofs -----------------------
(***************************************************************************)
(* What holds of VolumeThreads for any number of threads, whatever each of *)
(* them calls and however often: the lock excludes, a handle that is       *)
(* attached stays until a close takes it, a thread that reads has an open  *)
(* handle; and until a close overtakes an open no handle is lost and no    *)
(* handle of a caller freed. Who agrees that others do not close while the *)
(* library opens is never overtaken; one thread that reads startup keys    *)
(* loses none.                                                             *)
(***************************************************************************)
EXTENDS VolumeThreads, TLAPS

(* A thread that is in a call has that call left. *)
InCall == \A t \in Threads : pc[t] # "idle" => left[t] > 0

(* A thread that opens the volume has an open handle of its own in hand,   *)
(* one that is not attached.                                               *)
Opening == {"open lock", "open read"}

InHand ==
    \A t \in Threads :
        /\ mine[t] # None => mine[t].thread = t
        /\ pc[t] \in Opening =>
            /\ mine[t] # None
            /\ mine[t] # fileHandle
            /\ handles[mine[t]] = "open"

(* The structures of open exist exactly while a handle is attached: an open *)
(* that looked too early is refused for the structures that it finds.      *)
StructuresHaveHandle == structures = (fileHandle # None)

AttachedIsOpen == fileHandle # None => handles[fileHandle] = "open"

UnlockedHasStructures == ~isLocked => structures

(* The inductive invariant. *)
IInv ==
    /\ TypeOK
    /\ InCall
    /\ LockExcludes
    /\ InHand
    /\ StructuresHaveHandle
    /\ AttachedIsOpen
    /\ UnlockedHasStructures

-----------------------------------------------------------------------------
(* The handle of a new open call is one of the model's and names its thread. *)
LEMMA NewHandleIsMine ==
    ASSUME TypeOK, NEW t \in Threads, NEW function, Calling(t, function)
    PROVE  /\ NewHandle(t, function) \in Handles
           /\ NewHandle(t, function).thread = t
<1>1. left[t] \in 1 .. MaxCalls
  BY ThreadsAssumption DEF TypeOK, Calling
<1>2. CASE function = "open"
  BY <1>1, <1>2 DEF NewHandle, Handles, LibraryHandles
<1>3. CASE function # "open"
  BY <1>3 DEF NewHandle, Handles, CallerHandles
<1> QED
  BY <1>2, <1>3

(* Every state of VolumeThreads starts out with the inductive invariant.   *)
LEMMA InitIInv == Init => IInv
<1> SUFFICES ASSUME Init PROVE IInv
  OBVIOUS
<1>1. TypeOK
  <2>1. pc \in [Threads -> Labels] /\ readers = {} /\ startupKeys = {}
    BY DEF Init, Labels
  <2>2. left \in [Threads -> 0 .. MaxCalls]
    BY ThreadsAssumption DEF Init
  <2>3. mine \in [Threads -> Handles \union {None}]
    BY DEF Init
  <2>4. openedByMe \in [Threads -> BOOLEAN]
    BY DEF Init
  <2>5. handles \in [Handles -> {"absent", "closed", "open", "freed"}]
    BY DEF Init
  <2>6. /\ writer \in Threads \union {None}
        /\ fileHandle \in Handles \union {None}
        /\ startupKey \in StartupKeys \union {None}
    BY DEF Init
  <2>7. created \in BOOLEAN /\ opened \in BOOLEAN /\ structures \in BOOLEAN
          /\ isLocked \in BOOLEAN /\ overtaken \in BOOLEAN
    BY DEF Init
  <2> QED
    BY <2>1, <2>2, <2>3, <2>4, <2>5, <2>6, <2>7 DEF TypeOK
<1>2. InCall /\ InHand /\ AttachedIsOpen
  BY DEF Init, InCall, InHand, Opening, AttachedIsOpen
<1>3. LockExcludes
  BY ThreadsAssumption DEF Init, LockExcludes, UnderWriteLock
<1>4. StructuresHaveHandle /\ UnlockedHasStructures
  BY DEF Init, StructuresHaveHandle, UnlockedHasStructures
<1> QED
  BY <1>1, <1>2, <1>3, <1>4 DEF IInv

-----------------------------------------------------------------------------
(* Typing of the helpers: a step inside a call, its end, taking the lock.  *)
LEMMA GotoTypes ==
    ASSUME TypeOK, NEW t \in Threads, NEW label \in Labels, Goto(t, label)
    PROVE  pc' \in [Threads -> Labels] /\ left' \in [Threads -> 0 .. MaxCalls]
BY DEF TypeOK, Goto

LEMMA ReturnTypes ==
    ASSUME TypeOK, NEW t \in Threads, left[t] > 0, Return(t)
    PROVE  pc' \in [Threads -> Labels] /\ left' \in [Threads -> 0 .. MaxCalls]
<1>1. pc' \in [Threads -> Labels]
  BY DEF TypeOK, Return, Labels
<1>2. left[t] - 1 \in 0 .. MaxCalls
  BY ThreadsAssumption DEF TypeOK
<1> QED
  BY <1>1, <1>2 DEF TypeOK, Return

LEMMA GrabTypes ==
    ASSUME TypeOK, NEW t \in Threads, NEW label \in Labels,
           GrabForWrite(t, label) \/ GrabForRead(t, label),
           overtaken' \in BOOLEAN
    PROVE  TypeOK'
<1>1. Goto(t, label)
  BY DEF GrabForWrite, GrabForRead
<1>2. pc' \in [Threads -> Labels] /\ left' \in [Threads -> 0 .. MaxCalls]
  BY <1>1, GotoTypes
<1>3. writer' \in Threads \union {None} /\ readers' \subseteq Threads
  BY DEF TypeOK, GrabForWrite, GrabForRead
<1>4. UNCHANGED <<mine, openedByMe, volume, handles, startupKeys>>
  BY DEF GrabForWrite, GrabForRead
<1> QED
  BY <1>2, <1>3, <1>4 DEF TypeOK, volume

(* The types are preserved by every step. *)
LEMMA NextTypeOK ==
    ASSUME TypeOK, InCall, NEW t \in Threads, Call(t) \/ Step(t),
           overtaken' \in BOOLEAN
    PROVE  TypeOK'
<1> USE DEF Labels
<1>1. CASE BeginOpen(t)
  <2>1. PICK function \in {"open", "open_file_io_handle"} : Calling(t, function)
          /\ IF fileHandle # None
             THEN Refused(t)
             ELSE /\ handles[NewHandle(t, function)] # "freed"
                  /\ mine' = [mine EXCEPT ![t] = NewHandle(t, function)]
                  /\ openedByMe' = [openedByMe EXCEPT ![t] =
                                        handles[NewHandle(t, function)] # "open"]
                  /\ handles' = [handles EXCEPT ![NewHandle(t, function)] = "open"]
                  /\ Goto(t, "open lock")
                  /\ UNCHANGED startupKeys
    BY <1>1 DEF BeginOpen
  <2>2. left[t] > 0
    BY <2>1 DEF Calling
  <2>3. UNCHANGED <<lock, volume>>
    BY <1>1 DEF BeginOpen
  <2>4. CASE fileHandle # None
    <3>1. Return(t) /\ UNCHANGED <<mine, openedByMe, handles, startupKeys>>
      BY <2>1, <2>4 DEF Refused
    <3> QED
      BY <2>2, <2>3, <3>1, ReturnTypes DEF TypeOK, lock, volume
  <2>5. CASE fileHandle = None
    <3>1. NewHandle(t, function) \in Handles
      BY <2>1, NewHandleIsMine
    <3>2. pc' \in [Threads -> Labels] /\ left' \in [Threads -> 0 .. MaxCalls]
      BY <2>1, <2>5, GotoTypes
    <3>3. mine' \in [Threads -> Handles \union {None}]
      BY <2>1, <2>5, <3>1 DEF TypeOK
    <3>4. openedByMe' \in [Threads -> BOOLEAN]
      BY <2>1, <2>5 DEF TypeOK
    <3>5. handles' \in [Handles -> {"absent", "closed", "open", "freed"}]
      BY <2>1, <2>5 DEF TypeOK
    <3> QED
      BY <2>1, <2>3, <2>5, <3>2, <3>3, <3>4, <3>5 DEF TypeOK, lock, volume
  <2> QED
    BY <2>4, <2>5
<1>2. CASE OpenLock(t) \/ CreatedLock(t) \/ CloseLock(t) \/ SizeLock(t) \/ KeyLock(t)
             \/ BeginLocked(t)
  BY <1>2, GrabTypes DEF OpenLock, CreatedLock, CloseLock, SizeLock, KeyLock, BeginLocked
<1>3. CASE OpenRead(t)
  <2>1. left[t] > 0
    BY <1>3 DEF OpenRead, InCall
  <2>2. mine' \in [Threads -> Handles \union {None}]
    BY <1>3 DEF OpenRead, TypeOK
  <2>3. openedByMe' \in [Threads -> BOOLEAN]
    BY <1>3 DEF OpenRead, TypeOK
  <2>4. writer' \in Threads \union {None} /\ readers' \subseteq Threads
    BY <1>3 DEF OpenRead, Release, TypeOK
  <2>5. pc' \in [Threads -> Labels] /\ left' \in [Threads -> 0 .. MaxCalls]
    <3>1. Return(t) \/ Goto(t, "created lock")
      BY <1>3 DEF OpenRead
    <3> QED
      BY <2>1, <3>1, ReturnTypes, GotoTypes
  <2>6. fileHandle' \in Handles \union {None}
    BY <1>3 DEF OpenRead, TypeOK
  <2>7. opened' \in BOOLEAN
    BY <1>3 DEF OpenRead, TypeOK
  <2>8. structures' \in BOOLEAN /\ isLocked' \in BOOLEAN
    BY <1>3 DEF OpenRead, TypeOK
  <2>9. handles' \in [Handles -> {"absent", "closed", "open", "freed"}]
    <3>1. mine[t] \in Handles => Dropped(t) \in {"absent", "closed", "open", "freed"}
      BY DEF Dropped, TypeOK
    <3>2. mine[t] \notin Handles => [handles EXCEPT ![mine[t]] = Dropped(t)] = handles
      BY DEF TypeOK
    <3> QED
      BY <1>3, <3>1, <3>2 DEF OpenRead, TypeOK
  <2> QED
    BY <1>3, <2>2, <2>3, <2>4, <2>5, <2>6, <2>7, <2>8, <2>9 DEF OpenRead, TypeOK
<1>4. CASE Created(t) \/ Unlock(t) \/ Read(t)
  <2>1. left[t] > 0 /\ Return(t)
    BY <1>4 DEF Created, Unlock, Read, InCall
  <2>2. pc' \in [Threads -> Labels] /\ left' \in [Threads -> 0 .. MaxCalls]
    BY <2>1, ReturnTypes
  <2>3. mine' \in [Threads -> Handles \union {None}]
    BY <1>4 DEF Created, Unlock, Read, TypeOK
  <2>4. writer' \in Threads \union {None} /\ readers' \subseteq Threads
    BY <1>4 DEF Created, Unlock, Read, Release, TypeOK
  <2>5. created' \in BOOLEAN /\ isLocked' \in BOOLEAN
    BY <1>4 DEF Created, Unlock, Read, volume, TypeOK
  <2>6. UNCHANGED <<openedByMe, fileHandle, opened, structures, startupKey, handles,
                    startupKeys>>
    BY <1>4 DEF Created, Unlock, Read, volume
  <2> QED
    BY <2>2, <2>3, <2>4, <2>5, <2>6 DEF TypeOK
<1>5. CASE BeginClose(t)
  <2>1. left[t] > 0 /\ (Return(t) \/ Goto(t, "close lock"))
    BY <1>5 DEF BeginClose, Calling, Refused
  <2>2. UNCHANGED <<mine, openedByMe, handles, startupKeys, lock, volume>>
    BY <1>5 DEF BeginClose, Refused
  <2>3. pc' \in [Threads -> Labels] /\ left' \in [Threads -> 0 .. MaxCalls]
    BY <2>1, ReturnTypes, GotoTypes
  <2> QED
    BY <2>2, <2>3 DEF TypeOK, lock, volume
<1>6. CASE Close(t)
  <2>1. left[t] > 0 /\ Return(t)
    BY <1>6 DEF Close, InCall
  <2>2. pc' \in [Threads -> Labels] /\ left' \in [Threads -> 0 .. MaxCalls]
    BY <2>1, ReturnTypes
  <2>3. handles' \in [Handles -> {"absent", "closed", "open", "freed"}]
    BY <1>6 DEF Close, ClosedHandle, TypeOK
  <2>4. /\ fileHandle' = None /\ startupKey' = None
        /\ created' = FALSE /\ opened' = FALSE /\ structures' = FALSE
        /\ isLocked' = TRUE
        /\ startupKeys' \subseteq startupKeys
        /\ writer' = None
        /\ UNCHANGED <<readers, mine, openedByMe>>
    BY <1>6 DEF Close, Release, StructuresAfterClose, CreatedAfterClose, LockedAfterClose
  <2> QED
    BY <2>2, <2>3, <2>4 DEF TypeOK
<1>7. CASE BeginGetSize(t) \/ GetSize(t)
  <2>1. left[t] > 0 /\ (Return(t) \/ Goto(t, "size lock"))
    BY <1>7 DEF BeginGetSize, GetSize, Calling, InCall
  <2>2. pc' \in [Threads -> Labels] /\ left' \in [Threads -> 0 .. MaxCalls]
    BY <2>1, ReturnTypes, GotoTypes
  <2>3. readers' \subseteq Threads
    BY <1>7 DEF BeginGetSize, GetSize, lock, TypeOK
  <2>4. UNCHANGED <<mine, openedByMe, writer, volume, handles, startupKeys>>
    BY <1>7 DEF BeginGetSize, GetSize, lock
  <2> QED
    BY <2>2, <2>3, <2>4 DEF TypeOK, volume
<1>8. CASE BeginReadStartupKey(t) \/ KeyFileFails(t) \/ SetStartupKey(t)
  <2> DEFINE key == [thread |-> t, call |-> left[t]]
  <2>1. left[t] > 0
    BY <1>8 DEF BeginReadStartupKey, KeyFileFails, SetStartupKey, Calling, InCall
  <2>8. Return(t) \/ Goto(t, "key file")
    BY <1>8 DEF BeginReadStartupKey, KeyFileFails, SetStartupKey, Refused
  <2>2. pc' \in [Threads -> Labels] /\ left' \in [Threads -> 0 .. MaxCalls]
    BY <2>1, <2>8, ReturnTypes, GotoTypes
  <2>3. key \in StartupKeys
    <3>1. left[t] \in 0 .. MaxCalls
      BY DEF TypeOK
    <3>2. left[t] \in 1 .. MaxCalls
      BY <2>1, <3>1, ThreadsAssumption
    <3> QED
      BY <3>2 DEF StartupKeys
  <2>4. startupKeys' \subseteq StartupKeys
    BY <1>8, <2>3 DEF BeginReadStartupKey, KeyFileFails, SetStartupKey, Refused, TypeOK
  <2>5. startupKey' \in StartupKeys \union {None}
    BY <1>8, <2>3 DEF BeginReadStartupKey, KeyFileFails, SetStartupKey, volume, TypeOK
  <2>6. writer' \in Threads \union {None} /\ readers' \subseteq Threads
    BY <1>8 DEF BeginReadStartupKey, KeyFileFails, SetStartupKey, Release, lock, TypeOK
  <2>7. UNCHANGED <<mine, openedByMe, fileHandle, created, opened, structures,
                    isLocked, handles>>
    BY <1>8 DEF BeginReadStartupKey, KeyFileFails, SetStartupKey, Refused, volume
  <2> QED
    BY <2>2, <2>4, <2>5, <2>6, <2>7 DEF TypeOK
<1> QED
  BY <1>1, <1>2, <1>3, <1>4, <1>5, <1>6, <1>7, <1>8 DEF Call, Step

-----------------------------------------------------------------------------
(* Every step of a thread moves it on inside a call, or ends the call. *)
LEMMA StepMovesOne ==
    ASSUME TypeOK, InCall, NEW t \in Threads, Call(t) \/ Step(t)
    PROVE  /\ left[t] > 0
           /\ Return(t) \/ \E label \in Labels : Goto(t, label)
<1> USE DEF Labels
<1>1. CASE BeginOpen(t) \/ BeginClose(t) \/ BeginReadStartupKey(t)
  BY <1>1 DEF BeginOpen, BeginClose, BeginReadStartupKey, Calling, Refused
<1>2. CASE OpenLock(t) \/ CreatedLock(t) \/ CloseLock(t) \/ KeyLock(t) \/ BeginLocked(t)
  BY <1>2 DEF OpenLock, CreatedLock, CloseLock, KeyLock, BeginLocked, Calling,
              GrabForWrite, InCall
<1>3. CASE BeginGetSize(t) \/ SizeLock(t) \/ GetSize(t)
  BY <1>3 DEF BeginGetSize, SizeLock, GetSize, Calling, GrabForRead, InCall
<1>4. CASE OpenRead(t) \/ Created(t) \/ Close(t) \/ Unlock(t) \/ Read(t)
  BY <1>4 DEF OpenRead, Created, Close, Unlock, Read, InCall
<1>5. CASE KeyFileFails(t) \/ SetStartupKey(t)
  BY <1>5 DEF KeyFileFails, SetStartupKey, InCall
<1> QED
  BY <1>1, <1>2, <1>3, <1>4, <1>5 DEF Call, Step

LEMMA NextInCall ==
    ASSUME TypeOK, InCall, NEW t \in Threads, Call(t) \/ Step(t)
    PROVE  InCall'
<1>1. CASE Return(t)
  BY <1>1 DEF Return, InCall, TypeOK
<1>2. CASE left[t] > 0 /\ \E label \in Labels : Goto(t, label)
  BY <1>2 DEF Goto, InCall, TypeOK
<1> QED
  BY <1>1, <1>2, StepMovesOne

(* What the steps do to the lock: a thread comes to have it only when      *)
(* nobody else does, and keeps it until it leaves the section.             *)
LEMMA NextLockExcludes ==
    ASSUME TypeOK, InCall, LockExcludes, NEW t \in Threads, Call(t) \/ Step(t)
    PROVE  LockExcludes'
<1> DEFINE Free == pc[t] \notin UnderWriteLock /\ pc[t] # "size"
           FreeAfter == pc'[t] \notin UnderWriteLock /\ pc'[t] # "size"
           Stays == Free /\ FreeAfter /\ UNCHANGED lock
           Takes == /\ Free /\ pc'[t] \in UnderWriteLock
                    /\ writer = None /\ readers = {}
                    /\ writer' = t /\ readers' = readers
           Leaves == /\ pc[t] \in UnderWriteLock /\ FreeAfter
                     /\ writer' = None /\ readers' = readers
           TakesForRead == /\ Free /\ pc'[t] = "size"
                           /\ writer = None /\ writer' = None
                           /\ readers' = readers \union {t}
           LeavesForRead == /\ pc[t] = "size" /\ FreeAfter
                            /\ writer' = writer /\ readers' = readers \ {t}
<1>1. Stays \/ Takes \/ Leaves \/ TakesForRead \/ LeavesForRead
  <2> USE DEF UnderWriteLock
  <2>1. CASE BeginOpen(t)
    <3>1. pc[t] = "idle" /\ UNCHANGED lock /\ (Return(t) \/ Goto(t, "open lock"))
      BY <2>1 DEF BeginOpen, Calling, Refused
    <3> QED
      BY <3>1 DEF Return, Goto, TypeOK
  <2>2. CASE BeginClose(t)
    <3>1. pc[t] = "idle" /\ UNCHANGED lock /\ (Return(t) \/ Goto(t, "close lock"))
      BY <2>2 DEF BeginClose, Calling, Refused
    <3> QED
      BY <3>1 DEF Return, Goto, TypeOK
  <2>3. CASE BeginReadStartupKey(t) \/ KeyFileFails(t)
    <3>1. /\ pc[t] \in {"idle", "key file"} /\ UNCHANGED lock
          /\ Return(t) \/ Goto(t, "key file")
      BY <2>3 DEF BeginReadStartupKey, KeyFileFails, Calling, Refused
    <3> QED
      BY <3>1 DEF Return, Goto, TypeOK
  <2>4. CASE BeginGetSize(t)
    <3>1. pc[t] = "idle" /\ UNCHANGED lock /\ (Return(t) \/ Goto(t, "size lock"))
      BY <2>4 DEF BeginGetSize, Calling
    <3> QED
      BY <3>1 DEF Return, Goto, TypeOK
  <2>5. CASE OpenLock(t) \/ CreatedLock(t) \/ CloseLock(t) \/ KeyLock(t) \/ BeginLocked(t)
    <3>1. /\ pc[t] \in {"open lock", "created lock", "close lock", "key file", "idle"}
          /\ \E label \in UnderWriteLock : GrabForWrite(t, label)
      BY <2>5 DEF OpenLock, CreatedLock, CloseLock, KeyLock, BeginLocked, Calling
    <3> QED
      BY <3>1 DEF GrabForWrite, Goto, TypeOK
  <2>6. CASE SizeLock(t)
    BY <2>6 DEF SizeLock, GrabForRead, Goto, TypeOK
  <2>7. CASE GetSize(t)
    BY <2>7 DEF GetSize, Return, TypeOK
  <2>8. CASE OpenRead(t) \/ Created(t) \/ Close(t) \/ Unlock(t) \/ Read(t) \/ SetStartupKey(t)
    <3>1. /\ pc[t] \in UnderWriteLock /\ writer' = None /\ readers' = readers
          /\ Return(t) \/ Goto(t, "created lock")
      BY <2>8 DEF OpenRead, Created, Close, Unlock, Read, SetStartupKey, Release
    <3> QED
      BY <3>1 DEF Return, Goto, TypeOK
  <2> QED
    BY <2>1, <2>2, <2>3, <2>4, <2>5, <2>6, <2>7, <2>8 DEF Call, Step
<1>2. pc' = [pc EXCEPT ![t] = pc'[t]]
  BY StepMovesOne DEF Return, Goto, TypeOK
<1> USE <1>2, ThreadsAssumption DEF LockExcludes, TypeOK, UnderWriteLock
<1>3. CASE Stays
  BY <1>3 DEF lock
<1>4. CASE Takes
  BY <1>4
<1>5. CASE Leaves
  BY <1>5
<1>6. CASE TakesForRead
  BY <1>6
<1>7. CASE LeavesForRead
  BY <1>7
<1> QED
  BY <1>1, <1>3, <1>4, <1>5, <1>6, <1>7

-----------------------------------------------------------------------------
(* The part of the invariant that is about file handles. *)
HandlesInv == InHand /\ StructuresHaveHandle /\ AttachedIsOpen /\ UnlockedHasStructures

(* A step that leaves handles and structures alone, and does not begin an  *)
(* open, preserves it.                                                     *)
LEMMA QuietHandlesInv ==
    ASSUME TypeOK, HandlesInv, NEW t \in Threads,
           UNCHANGED <<mine, fileHandle, structures, handles>>,
           isLocked' = isLocked \/ isLocked' \/ structures,
           Return(t) \/ \E label \in Labels :
                            Goto(t, label) /\ (label \in Opening => pc[t] \in Opening)
    PROVE  HandlesInv'
<1>1. \A u \in Threads : pc'[u] \in Opening => pc[u] \in Opening
  BY DEF Return, Goto, TypeOK, Opening
<1>2. InHand'
  BY <1>1 DEF HandlesInv, InHand
<1>3. UnlockedHasStructures'
  BY DEF HandlesInv, UnlockedHasStructures
<1> QED
  BY <1>2, <1>3 DEF HandlesInv, StructuresHaveHandle, AttachedIsOpen

LEMMA NextHandlesInv ==
    ASSUME TypeOK, HandlesInv, NEW t \in Threads, Call(t) \/ Step(t)
    PROVE  HandlesInv'
<1>1. CASE BeginOpen(t) /\ fileHandle = None
  <2>1. PICK h \in Handles :
            /\ h.thread = t
            /\ mine' = [mine EXCEPT ![t] = h]
            /\ handles' = [handles EXCEPT ![h] = "open"]
    BY <1>1, NewHandleIsMine DEF BeginOpen
  <2>2. /\ UNCHANGED <<fileHandle, structures, isLocked>>
        /\ \A u \in Threads \ {t} : pc'[u] = pc[u] /\ mine'[u] = mine[u]
        /\ mine'[t] = h
        /\ handles'[h] = "open"
    BY <1>1, <2>1 DEF BeginOpen, Refused, Return, Goto, volume, TypeOK
  <2>3. \A g \in Handles : handles[g] = "open" => handles'[g] = "open"
    BY <2>1 DEF TypeOK
  <2>4. InHand'
    BY <1>1, <2>1, <2>2, <2>3, NoneAssumption DEF HandlesInv, InHand, TypeOK
  <2> QED
    BY <1>1, <2>2, <2>4
    DEF HandlesInv, StructuresHaveHandle, AttachedIsOpen, UnlockedHasStructures
<1>2. CASE OpenRead(t)
  <2>1. pc[t] \in Opening /\ pc'[t] \notin Opening
    BY <1>2 DEF OpenRead, Goto, Return, Opening, TypeOK
  <2>2. mine[t] \in Handles /\ mine[t].thread = t /\ mine[t] # fileHandle
          /\ handles[mine[t]] = "open"
    BY <2>1 DEF HandlesInv, InHand, TypeOK
  <2>3. \A u \in Threads \ {t} :
            /\ pc'[u] = pc[u]
            /\ mine'[u] = mine[u]
            /\ mine[u] # None => mine[u] # mine[t]
    BY <1>2, <2>2 DEF OpenRead, Goto, Return, HandlesInv, InHand, TypeOK
  <2>4. mine'[t] # None => mine'[t].thread = t
    BY <1>2, <2>2 DEF OpenRead, TypeOK
  <2>5. CASE /\ ~structures /\ structures' = TRUE
             /\ fileHandle' = mine[t] /\ UNCHANGED handles
    <3>1. InHand'
      BY <2>1, <2>2, <2>3, <2>4, <2>5 DEF HandlesInv, InHand
    <3> QED
      BY <2>2, <2>5, <3>1, NoneAssumption
      DEF HandlesInv, StructuresHaveHandle, AttachedIsOpen, UnlockedHasStructures
  <2>6. CASE /\ handles' = [handles EXCEPT ![mine[t]] = Dropped(t)]
             /\ UNCHANGED <<fileHandle, structures, isLocked>>
    <3>1. \A h \in Handles : h # mine[t] => handles'[h] = handles[h]
      BY <2>6 DEF TypeOK
    <3>2. InHand'
      BY <2>1, <2>2, <2>3, <2>4, <2>6, <3>1 DEF HandlesInv, InHand, TypeOK
    <3>3. AttachedIsOpen'
      BY <2>2, <2>6, <3>1 DEF HandlesInv, AttachedIsOpen, TypeOK
    <3> QED
      BY <2>6, <3>2, <3>3 DEF HandlesInv, StructuresHaveHandle, UnlockedHasStructures
  <2> QED
    BY <1>2, <2>5, <2>6 DEF OpenRead, MayOpenRead
<1>3. CASE Created(t)
  <2>1. pc'[t] = "idle" /\ mine'[t] = None
    BY <1>3 DEF Created, Return, TypeOK
  <2>2. \A u \in Threads \ {t} : pc'[u] = pc[u] /\ mine'[u] = mine[u]
    BY <1>3 DEF Created, Return, TypeOK
  <2>3. UNCHANGED <<fileHandle, structures, isLocked, handles>>
    BY <1>3 DEF Created
  <2>4. InHand'
    BY <2>1, <2>2, <2>3 DEF HandlesInv, InHand, Opening
  <2> QED
    BY <2>3, <2>4 DEF HandlesInv, StructuresHaveHandle, AttachedIsOpen, UnlockedHasStructures
<1>4. CASE Close(t)
  <2>1. /\ fileHandle' = None /\ structures' = FALSE /\ isLocked' = TRUE
        /\ mine' = mine
        /\ \A h \in Handles : h # fileHandle => handles'[h] = handles[h]
    BY <1>4 DEF Close, StructuresAfterClose, LockedAfterClose
  <2>2. \A u \in Threads : pc'[u] \in Opening => pc[u] \in Opening
    BY <1>4 DEF Close, Return, TypeOK, Opening
  <2>3. InHand'
    BY <2>1, <2>2 DEF HandlesInv, InHand, TypeOK
  <2> QED
    BY <2>1, <2>3 DEF HandlesInv, StructuresHaveHandle, AttachedIsOpen, UnlockedHasStructures
<1>5. CASE Unlock(t)
  <2>1. Return(t) /\ UNCHANGED <<mine, fileHandle, structures, handles>>
    BY <1>5 DEF Unlock
  <2>2. isLocked' = isLocked \/ isLocked' \/ structures
    BY <1>5 DEF Unlock
  <2> QED
    BY <2>1, <2>2, QuietHandlesInv
<1>6. CASE BeginOpen(t) /\ fileHandle # None
  <2>1. Return(t) /\ UNCHANGED <<mine, fileHandle, structures, isLocked, handles>>
    BY <1>6 DEF BeginOpen, Refused, volume
  <2> QED
    BY <2>1, QuietHandlesInv
<1>7. CASE OpenLock(t) \/ CreatedLock(t) \/ CloseLock(t) \/ KeyLock(t) \/ BeginLocked(t)
  <2>1. UNCHANGED <<mine, fileHandle, structures, isLocked, handles>>
    BY <1>7 DEF OpenLock, CreatedLock, CloseLock, KeyLock, BeginLocked, GrabForWrite, volume
  <2>2. \E label \in Labels : Goto(t, label) /\ (label \in Opening => pc[t] \in Opening)
    BY <1>7 DEF OpenLock, CreatedLock, CloseLock, KeyLock, BeginLocked, GrabForWrite,
                Labels, Opening
  <2> QED
    BY <2>1, <2>2, QuietHandlesInv
<1>8. CASE BeginClose(t) \/ Read(t)
  <2>1. UNCHANGED <<mine, fileHandle, structures, isLocked, handles>>
    BY <1>8 DEF BeginClose, Read, Refused, volume
  <2>2. Return(t) \/ Goto(t, "close lock")
    BY <1>8 DEF BeginClose, Read, Refused
  <2> QED
    BY <2>1, <2>2, QuietHandlesInv DEF Labels, Opening
<1>9. CASE BeginGetSize(t) \/ SizeLock(t) \/ GetSize(t)
  <2>1. UNCHANGED <<mine, fileHandle, structures, isLocked, handles>>
    BY <1>9 DEF BeginGetSize, SizeLock, GetSize, GrabForRead, volume
  <2>2. Return(t) \/ Goto(t, "size lock") \/ Goto(t, "size")
    BY <1>9 DEF BeginGetSize, SizeLock, GetSize, GrabForRead
  <2> QED
    BY <2>1, <2>2, QuietHandlesInv DEF Labels, Opening
<1>10. CASE BeginReadStartupKey(t) \/ KeyFileFails(t) \/ SetStartupKey(t)
  <2>1. UNCHANGED <<mine, fileHandle, structures, isLocked, handles>>
    BY <1>10 DEF BeginReadStartupKey, KeyFileFails, SetStartupKey, Refused, volume
  <2>2. Return(t) \/ Goto(t, "key file")
    BY <1>10 DEF BeginReadStartupKey, KeyFileFails, SetStartupKey, Refused
  <2> QED
    BY <2>1, <2>2, QuietHandlesInv DEF Labels, Opening
<1> QED
  BY <1>1, <1>2, <1>3, <1>4, <1>5, <1>6, <1>7, <1>8, <1>9, <1>10 DEF Call, Step

-----------------------------------------------------------------------------
(* Every reachable state of VolumeThreads has the inductive invariant.     *)
THEOREM Invariance == Spec => []IInv
<1>1. Init => IInv
  BY InitIInv
<1>2. IInv /\ [Next]_vars => IInv'
  <2> SUFFICES ASSUME IInv, [Next]_vars PROVE IInv'
    OBVIOUS
  <2>1. CASE Next
    <3>1. PICK t \in Threads : Call(t) \/ Step(t)
      BY <2>1 DEF Next
    <3>4. overtaken' \in BOOLEAN
      BY <2>1 DEF Next, History, IInv, TypeOK
    <3>2. TypeOK' /\ InCall' /\ LockExcludes'
      BY <3>1, <3>4, NextTypeOK, NextInCall, NextLockExcludes DEF IInv
    <3>3. HandlesInv'
      BY <3>1, NextHandlesInv DEF IInv, HandlesInv
    <3> QED
      BY <3>2, <3>3 DEF IInv, HandlesInv
  <2>2. CASE UNCHANGED vars
    BY <2>2
    DEF vars, threads, lock, volume, IInv, TypeOK, InCall, LockExcludes, InHand,
        StructuresHaveHandle, AttachedIsOpen, UnlockedHasStructures
  <2> QED
    BY <2>1, <2>2
<1> QED
  BY <1>1, <1>2, PTL DEF Spec

(* However many threads make whatever calls, the variables keep their types. *)
THEOREM TypesKept == Spec => []TypeOK
<1>1. IInv => TypeOK
  BY DEF IInv
<1> QED
  BY <1>1, Invariance, PTL

(* The read/write lock is held as the calls assume: a thread past taking it *)
(* for writing is alone.                                                   *)
THEOREM LockIsExclusive == Spec => []LockExcludes
<1>1. IInv => LockExcludes
  BY DEF IInv
<1> QED
  BY <1>1, Invariance, PTL

(* However opens and closes of any number of threads race, one open of     *)
(* those that saw no handle attaches its own, and no other takes its place. *)
THEOREM OneOpenAtATime == Spec => AttachedStays
<1>1. ASSUME IInv, [Next]_vars
      PROVE  [fileHandle # None => fileHandle' \in {fileHandle, None}]_vars
  <2> SUFFICES ASSUME fileHandle # None, Next, NEW t \in Threads, Call(t) \/ Step(t)
               PROVE  fileHandle' \in {fileHandle, None}
    BY <1>1 DEF Next
  <2>1. structures
    BY <1>1 DEF IInv, StructuresHaveHandle
  <2>2. CASE OpenRead(t)
    BY <2>1, <2>2 DEF OpenRead, MayOpenRead
  <2>3. CASE Close(t)
    BY <2>3 DEF Close
  <2>4. CASE Call(t)
    BY <2>4 DEF Call, BeginOpen, BeginClose, BeginLocked, BeginGetSize, BeginReadStartupKey,
                GrabForWrite, volume
  <2>5. CASE OpenLock(t) \/ CreatedLock(t) \/ CloseLock(t) \/ SizeLock(t) \/ KeyLock(t)
    BY <2>5 DEF OpenLock, CreatedLock, CloseLock, SizeLock, KeyLock, GrabForWrite, GrabForRead,
                volume
  <2>6. CASE Created(t) \/ Unlock(t) \/ Read(t) \/ GetSize(t) \/ KeyFileFails(t) \/ SetStartupKey(t)
    BY <2>6 DEF Created, Unlock, Read, GetSize, KeyFileFails, SetStartupKey, volume
  <2> QED
    BY <2>2, <2>3, <2>4, <2>5, <2>6 DEF Step
<1> QED
  BY <1>1, Invariance, PTL DEF Spec, AttachedStays

(* A thread that reads an unlocked volume has an open handle to read from, *)
(* whatever the other threads open, close or fail to open meanwhile.       *)
THEOREM ReadersHaveHandle == Spec => []HandleUsable
<1>1. IInv => HandleUsable
  BY DEF IInv, UnlockedHasStructures, StructuresHaveHandle, AttachedIsOpen, HandleUsable
<1> QED
  BY <1>1, Invariance, PTL

-----------------------------------------------------------------------------
(* Whose the handles and startup keys are.                                 *)
Noting == {"created lock", "created"}
Closing == {"close lock", "close"}
Keying == {"key file", "key"}

(* A thread is where its program brought it. *)
ProgramInv ==
    /\ program \in Programs
    /\ \A t \in Threads :
        /\ mine[t] \in LibraryHandles => "open" \in program[t]
        /\ pc[t] \in Noting => "open" \in program[t]
        /\ pc[t] \in Closing => "close" \in program[t]
        /\ pc[t] \in Keying => "read_startup_key" \in program[t]

(* What is so of the handles until an open is overtaken, *)
CallersKept ==
    /\ \A h \in CallerHandles : handles[h] # "freed"
    /\ created => fileHandle \in LibraryHandles

NoneLost ==
    \A h \in Handles :
        handles[h] = "open" \/ (h \in LibraryHandles /\ handles[h] = "closed") =>
            h = fileHandle \/ \E t \in Threads : mine[t] = h

(* for what the volume notes of its handle is so, or is about to be noted. *)
Noted ==
    /\ \A t \in Threads :
        /\ mine[t] # None => pc[t] \in Opening \union Noting
        /\ pc[t] \in Opening => openedByMe[t]
        /\ pc[t] \in Noting => mine[t] = fileHandle /\ mine[t] \in LibraryHandles
    /\ fileHandle # None => opened
    /\ fileHandle \in LibraryHandles => created \/ \E t \in Threads : mine[t] = fileHandle
    /\ CallersKept
    /\ NoneLost

NotedInv == ~overtaken => Noted

StartupKeyInv ==
    /\ \A t \in Threads : pc[t] \in Keying => startupKey = None
    /\ NoStartupKeyLost

LEMMA OwnersDiffer ==
    /\ \A h \in CallerHandles : h.owner = "caller" /\ h \notin LibraryHandles
    /\ \A h \in LibraryHandles : h.owner = "library" /\ h \notin CallerHandles
    /\ None \notin LibraryHandles /\ None \notin CallerHandles
    /\ Handles = CallerHandles \union LibraryHandles
  BY NoneAssumption DEF CallerHandles, LibraryHandles, Handles

LEMMA InitOwners == Init => ProgramInv /\ NotedInv /\ StartupKeyInv
<1> SUFFICES ASSUME Init PROVE ProgramInv /\ NotedInv /\ StartupKeyInv
  OBVIOUS
<1>1. ProgramInv
  BY OwnersDiffer DEF Init, ProgramInv, Closing, Keying, Noting
<1>2. \A h \in Handles : handles[h] \in {"closed", "absent"} /\
                         (h \in LibraryHandles => handles[h] = "absent")
  BY OwnersDiffer DEF Init
<1>3. Noted
  BY <1>2, OwnersDiffer DEF Init, Noted, Opening, Noting, CallersKept, NoneLost
<1>4. StartupKeyInv
  BY DEF Init, StartupKeyInv, NoStartupKeyLost, Keying
<1> QED
  BY <1>1, <1>3, <1>4 DEF NotedInv

LEMMA NextProgramInv ==
    ASSUME IInv, ProgramInv, NEW t \in Threads, Call(t) \/ Step(t), UNCHANGED program
    PROVE  ProgramInv'
<1> USE DEF ProgramInv, IInv, TypeOK
<1>1. CASE BeginOpen(t)
  <2>1. PICK function \in {"open", "open_file_io_handle"} :
            /\ function \in program[t]
            /\ mine' = mine \/ mine' = [mine EXCEPT ![t] = NewHandle(t, function)]
            /\ Return(t) \/ Goto(t, "open lock")
    BY <1>1 DEF BeginOpen, Calling, Refused
  <2>2. NewHandle(t, function) \in LibraryHandles => function = "open"
    BY OwnersDiffer DEF NewHandle, CallerHandles
  <2> QED
    BY <2>1, <2>2 DEF Return, Goto, Closing, Keying, Noting
<1>2. CASE BeginClose(t) \/ BeginReadStartupKey(t)
  <2>1. mine' = mine
    BY <1>2 DEF BeginClose, BeginReadStartupKey, Refused
  <2>2. \/ Return(t)
        \/ Goto(t, "close lock") /\ "close" \in program[t]
        \/ Goto(t, "key file") /\ "read_startup_key" \in program[t]
    BY <1>2 DEF BeginClose, BeginReadStartupKey, Refused, Calling
  <2> QED
    BY <2>1, <2>2 DEF Return, Goto, Closing, Keying, Noting
<1>3. CASE BeginLocked(t) \/ BeginGetSize(t) \/ OpenLock(t) \/ CreatedLock(t) \/ SizeLock(t)
             \/ CloseLock(t) \/ KeyLock(t)
  <2>1. mine' = mine
    BY <1>3 DEF BeginLocked, BeginGetSize, OpenLock, CreatedLock, SizeLock, CloseLock, KeyLock,
                GrabForWrite, GrabForRead
  <2>2. \/ Return(t)
        \/ \E label \in {"unlock", "read", "size lock", "open read", "size"} :
                Goto(t, label)
        \/ Goto(t, "created") /\ pc[t] \in Noting
        \/ Goto(t, "close") /\ pc[t] \in Closing
        \/ Goto(t, "key") /\ pc[t] \in Keying
    BY <1>3 DEF BeginLocked, BeginGetSize, OpenLock, CreatedLock, SizeLock, CloseLock, KeyLock,
                GrabForWrite, GrabForRead, Closing, Keying, Noting
  <2> QED
    BY <2>1, <2>2 DEF Return, Goto, Closing, Keying, Noting
<1>4. CASE OpenRead(t) \/ Created(t)
  <2>1. mine' = mine \/ mine' = [mine EXCEPT ![t] = None]
    BY <1>4 DEF OpenRead, Created
  <2>2. \/ Return(t)
        \/ /\ Goto(t, "created lock") /\ pc[t] \in Opening
           /\ mine[t].owner = "library"
    BY <1>4 DEF OpenRead, Created, Opening
  <2>3. pc[t] \in Opening /\ mine[t].owner = "library" => mine[t] \in LibraryHandles
    BY OwnersDiffer DEF InHand
  <2> QED
    BY <2>1, <2>2, <2>3, OwnersDiffer DEF Return, Goto, Closing, Keying, Noting
<1>5. CASE Close(t) \/ Unlock(t) \/ Read(t) \/ GetSize(t) \/ KeyFileFails(t) \/ SetStartupKey(t)
  <2>1. mine' = mine /\ Return(t)
    BY <1>5 DEF Close, Unlock, Read, GetSize, KeyFileFails, SetStartupKey
  <2> QED
    BY <2>1 DEF Return, Closing, Keying, Noting
<1> QED
  BY <1>1, <1>2, <1>3, <1>4, <1>5 DEF Call, Step

(* Steps that leave the handles and what is noted of them alone. *)
LEMMA QuietNoted ==
    ASSUME TypeOK, Noted, NEW t \in Threads,
           UNCHANGED <<mine, openedByMe, fileHandle, created, opened, handles>>,
           Return(t) \/ \E label : Goto(t, label),
           pc'[t] \in Opening <=> pc[t] \in Opening,
           pc'[t] \in Noting <=> pc[t] \in Noting
    PROVE  Noted'
<1>1. \A u \in Threads : /\ pc'[u] \in Opening <=> pc[u] \in Opening
                         /\ pc'[u] \in Noting <=> pc[u] \in Noting
  BY DEF Return, Goto, TypeOK
<1> QED
  BY <1>1 DEF Noted, CallersKept, NoneLost

LEMMA NextNoted ==
    ASSUME IInv, Noted, NEW t \in Threads, Call(t) \/ Step(t),
           Close(t) => \A u \in Threads : pc[u] # "created lock"
    PROVE  Noted'
<1>1. CASE BeginOpen(t) /\ fileHandle = None
  <2>1. PICK function \in {"open", "open_file_io_handle"} :
            /\ Calling(t, function)
            /\ mine' = [mine EXCEPT ![t] = NewHandle(t, function)]
            /\ openedByMe' = [openedByMe EXCEPT ![t] = handles[NewHandle(t, function)] # "open"]
            /\ handles' = [handles EXCEPT ![NewHandle(t, function)] = "open"]
            /\ Goto(t, "open lock")
    BY <1>1 DEF BeginOpen
  <2> DEFINE h == NewHandle(t, function)
  <2>2. h \in Handles /\ h.thread = t
    BY <2>1, NewHandleIsMine DEF IInv
  <2>3. pc[t] = "idle" /\ mine[t] = None
    BY <2>1 DEF Calling, Noted, Opening, Noting
  <2>4. handles[h] # "open"
    <3>1. \A u \in Threads : mine[u] # h
      BY <2>2, <2>3, NoneAssumption DEF IInv, InHand
    <3> QED
      BY <1>1, <2>2, <3>1, NoneAssumption DEF Noted, NoneLost
  <2> HIDE DEF h
  <2>5. /\ UNCHANGED <<fileHandle, created, opened>>
        /\ mine' = [mine EXCEPT ![t] = h]
        /\ openedByMe' = [openedByMe EXCEPT ![t] = TRUE]
        /\ handles' = [handles EXCEPT ![h] = "open"]
        /\ pc' = [pc EXCEPT ![t] = "open lock"]
    BY <1>1, <2>1, <2>4 DEF BeginOpen, volume, Goto, h
  <2>6. \A u \in Threads : /\ mine'[u] # None => pc'[u] \in Opening \union Noting
                           /\ pc'[u] \in Opening => openedByMe'[u]
                           /\ ~(pc'[u] \in Noting)
    BY <1>1, <2>5, NoneAssumption, OwnersDiffer DEF Noted, IInv, TypeOK, Opening, Noting
  <2>7. CallersKept'
    BY <2>2, <2>5 DEF Noted, CallersKept, IInv, TypeOK, Handles
  <2>8. NoneLost'
    <3> SUFFICES ASSUME NEW g \in Handles,
                        handles'[g] = "open" \/ (g \in LibraryHandles /\ handles'[g] = "closed")
                 PROVE  g = fileHandle' \/ \E u \in Threads : mine'[u] = g
      BY DEF NoneLost
    <3>1. CASE g = h
      BY <2>5, <3>1 DEF IInv, TypeOK
    <3>2. CASE g # h
      <4>1. handles'[g] = handles[g]
        BY <2>5, <3>2 DEF IInv, TypeOK
      <4>2. PICK u \in Threads : mine[u] = g
        BY <1>1, <4>1, NoneAssumption DEF Noted, NoneLost
      <4>3. u # t
        BY <2>3, <4>2, NoneAssumption
      <4> QED
        BY <2>5, <4>2, <4>3 DEF IInv, TypeOK
    <3> QED
      BY <3>1, <3>2
  <2> QED
    BY <1>1, <2>5, <2>6, <2>7, <2>8, OwnersDiffer DEF Noted
<1>2. CASE OpenRead(t)
  <2>1. /\ pc[t] = "open read" /\ openedByMe[t]
        /\ mine[t] \in Handles /\ mine[t].thread = t
        /\ handles[mine[t]] = "open"
        /\ \A u \in Threads \ {t} : mine[u] # mine[t]
    <3>1. pc[t] = "open read" /\ pc[t] \in Opening
      BY <1>2 DEF OpenRead, Opening
    <3>2. openedByMe[t]
      BY <3>1 DEF Noted
    <3>3. mine[t] # None /\ mine[t].thread = t /\ handles[mine[t]] = "open"
      BY <3>1 DEF IInv, InHand
    <3>4. mine[t] \in Handles
      BY <3>3 DEF IInv, TypeOK
    <3>5. \A u \in Threads \ {t} : mine[u] # mine[t]
      BY <3>3 DEF IInv, InHand
    <3> QED
      BY <3>1, <3>2, <3>3, <3>4, <3>5
  <2>2. /\ created' = created
        /\ openedByMe' = [openedByMe EXCEPT ![t] = FALSE]
        /\ \A u \in Threads \ {t} : /\ pc'[u] = pc[u] /\ mine'[u] = mine[u]
                                    /\ openedByMe'[u] = openedByMe[u]
        /\ pc'[t] \notin Opening
    BY <1>2 DEF OpenRead, Return, Goto, IInv, TypeOK, Opening
  <2>3. CASE ~structures /\ fileHandle' = mine[t] /\ opened' = openedByMe[t] /\ UNCHANGED handles
             /\ (IF mine[t].owner = "library"
                 THEN Goto(t, "created lock") /\ UNCHANGED mine
                 ELSE Return(t) /\ mine' = [mine EXCEPT ![t] = None])
    <3>1. fileHandle = None
      BY <2>3 DEF IInv, StructuresHaveHandle
    <3>2. \A u \in Threads : pc[u] \notin Noting
      BY <3>1, OwnersDiffer DEF Noted
    <3>3. CASE mine[t].owner = "library"
      <4>1. mine[t] \in LibraryHandles
        BY <2>1, <3>3, OwnersDiffer
      <4>2. pc'[t] = "created lock" /\ mine'[t] = mine[t]
        BY <2>3, <3>3 DEF Goto, IInv, TypeOK
      <4>3. NoneLost'
        <5>1. UNCHANGED <<mine, handles>> /\ fileHandle' = mine[t]
          BY <2>3, <3>3
        <5> SUFFICES ASSUME NEW g \in Handles,
                            handles[g] = "open" \/ (g \in LibraryHandles /\ handles[g] = "closed")
                     PROVE  \E u \in Threads : mine[u] = g
          BY <5>1 DEF NoneLost
        <5> QED
          BY <3>1, NoneAssumption DEF Noted, NoneLost
      <4>5. CallersKept'
        BY <2>2, <2>3, <4>1 DEF Noted, CallersKept
      <4>4. \A u \in Threads : /\ mine'[u] # None => pc'[u] \in Opening \union Noting
                               /\ pc'[u] \in Opening => openedByMe'[u]
                               /\ pc'[u] \in Noting => mine'[u] = fileHandle'
                                                        /\ mine'[u] \in LibraryHandles
        BY <2>2, <2>3, <3>2, <4>1, <4>2 DEF Noted, Noting
      <4> QED
        BY <2>1, <2>3, <4>1, <4>2, <4>3, <4>4, <4>5 DEF Noted
    <3>4. CASE mine[t].owner # "library"
      <4>1. mine[t] \notin LibraryHandles
        BY <3>4, OwnersDiffer
      <4>2. pc'[t] = "idle" /\ mine'[t] = None
        BY <2>3, <3>4 DEF Return, IInv, TypeOK
      <4>3. NoneLost'
        <5> SUFFICES ASSUME NEW g \in Handles,
                            handles[g] = "open" \/ (g \in LibraryHandles /\ handles[g] = "closed"),
                            g # mine[t]
                     PROVE  \E u \in Threads : mine'[u] = g
          BY <2>3 DEF NoneLost
        <5>1. PICK u \in Threads : mine[u] = g
          BY <3>1, NoneAssumption DEF Noted, NoneLost
        <5> QED
          BY <2>2, <5>1
      <4>4. CallersKept'
        BY <2>2, <2>3, <3>1, <3>4, OwnersDiffer DEF Noted, CallersKept
      <4>5. \A u \in Threads : /\ mine'[u] # None => pc'[u] \in Opening \union Noting
                               /\ pc'[u] \in Opening => openedByMe'[u]
                               /\ pc'[u] \notin Noting
        BY <2>2, <3>2, <4>2 DEF Noted, Noting
      <4> QED
        BY <2>1, <2>3, <4>1, <4>3, <4>4, <4>5 DEF Noted
    <3> QED
      BY <3>3, <3>4
  <2>4. CASE /\ handles' = [handles EXCEPT ![mine[t]] = Dropped(t)]
             /\ mine' = [mine EXCEPT ![t] = None]
             /\ Return(t)
             /\ UNCHANGED <<fileHandle, opened>>
    <3>1. pc'[t] = "idle" /\ mine'[t] = None
      BY <2>4 DEF Return, IInv, TypeOK
    <3>2. /\ mine[t] \in LibraryHandles => Dropped(t) = "freed"
          /\ mine[t] \in CallerHandles => Dropped(t) = "closed"
      BY <2>1, OwnersDiffer DEF Dropped
    <3>3. mine[t] # fileHandle
      BY <2>1 DEF IInv, InHand, Opening
    <3>4. /\ handles'[mine[t]] = Dropped(t)
          /\ \A g \in Handles : g # mine[t] => handles'[g] = handles[g]
      BY <2>1, <2>4 DEF IInv, TypeOK
    <3>5. NoneLost'
      <4> SUFFICES ASSUME NEW g \in Handles,
                          handles'[g] = "open" \/ (g \in LibraryHandles /\ handles'[g] = "closed")
                   PROVE  g = fileHandle \/ \E u \in Threads : mine'[u] = g
        BY <2>4 DEF NoneLost
      <4>1. g # mine[t]
        BY <2>1, <3>2, <3>4, OwnersDiffer
      <4>2. g = fileHandle \/ \E u \in Threads : mine[u] = g
        BY <3>4, <4>1 DEF Noted, NoneLost
      <4> QED
        BY <2>2, <4>1, <4>2
    <3>6. CallersKept'
      BY <2>2, <2>4, <3>2, <3>4, OwnersDiffer DEF Noted, CallersKept
    <3>7. \A u \in Threads : /\ mine'[u] # None => pc'[u] \in Opening \union Noting
                             /\ pc'[u] \in Opening => openedByMe'[u]
                             /\ pc'[u] \in Noting => mine'[u] = fileHandle'
                                                      /\ mine'[u] \in LibraryHandles
      BY <2>2, <2>4, <3>1 DEF Noted, Opening, Noting
    <3>8. fileHandle \in LibraryHandles => created \/ \E u \in Threads : mine'[u] = fileHandle
      BY <2>2, <3>3 DEF Noted
    <3> QED
      BY <2>2, <2>4, <3>5, <3>6, <3>7, <3>8 DEF Noted
  <2> QED
    BY <1>2, <2>3, <2>4 DEF OpenRead, MayOpenRead
<1>3. CASE Created(t)
  <2>1. mine[t] = fileHandle /\ fileHandle \in LibraryHandles
    BY <1>3 DEF Created, Noted, Noting
  <2>2. /\ created' = TRUE /\ pc'[t] = "idle" /\ mine'[t] = None
        /\ UNCHANGED <<openedByMe, fileHandle, opened, handles>>
        /\ \A u \in Threads \ {t} : pc'[u] = pc[u] /\ mine'[u] = mine[u]
    BY <1>3 DEF Created, Return, IInv, TypeOK
  <2>3. NoneLost'
    <3> SUFFICES ASSUME NEW g \in Handles, g # fileHandle,
                        handles[g] = "open" \/ (g \in LibraryHandles /\ handles[g] = "closed")
                 PROVE  \E u \in Threads : mine'[u] = g
      BY <2>2 DEF NoneLost
    <3>1. PICK u \in Threads : mine[u] = g
      BY DEF Noted, NoneLost
    <3> QED
      BY <2>1, <2>2, <3>1
  <2>4. CallersKept'
    BY <2>1, <2>2 DEF Noted, CallersKept
  <2>5. \A u \in Threads : /\ mine'[u] # None => pc'[u] \in Opening \union Noting
                           /\ pc'[u] \in Opening => openedByMe'[u]
                           /\ pc'[u] \in Noting => mine'[u] = fileHandle
                                                    /\ mine'[u] \in LibraryHandles
    BY <2>2 DEF Noted, Opening, Noting
  <2> QED
    BY <2>2, <2>3, <2>4, <2>5 DEF Noted
<1>4. CASE Close(t)
  <2>1. pc[t] = "close" /\ mine[t] = None
    BY <1>4 DEF Close, Noted, Opening, Noting
  <2>3. \A u \in Threads : pc[u] \notin Noting
    BY <1>4, <2>1 DEF Noting, IInv, LockExcludes, UnderWriteLock
  <2>2. fileHandle # None => \A u \in Threads : mine[u] # fileHandle
    BY <2>3 DEF Noted, IInv, InHand
  <2>4. /\ fileHandle' = None /\ created' = FALSE /\ opened' = FALSE
        /\ UNCHANGED <<mine, openedByMe>>
        /\ pc'[t] = "idle"
        /\ \A u \in Threads \ {t} : pc'[u] = pc[u]
        /\ \A g \in Handles : handles'[g] = IF g = fileHandle THEN ClosedHandle(g) ELSE handles[g]
    BY <1>4 DEF Close, CreatedAfterClose, Return, IInv, TypeOK
  <2>5. fileHandle # None => /\ fileHandle \in LibraryHandles => ClosedHandle(fileHandle) = "freed"
                             /\ fileHandle \in CallerHandles => ClosedHandle(fileHandle) = "closed"
    BY <2>2, OwnersDiffer DEF ClosedHandle, Noted, CallersKept
  <2>6. NoneLost'
    <3> SUFFICES ASSUME NEW g \in Handles,
                        handles'[g] = "open" \/ (g \in LibraryHandles /\ handles'[g] = "closed")
                 PROVE  \E u \in Threads : mine[u] = g
      BY <2>4 DEF NoneLost
    <3>1. g # fileHandle
      BY <2>4, <2>5, OwnersDiffer, NoneAssumption
    <3> QED
      BY <2>4, <3>1 DEF Noted, NoneLost
  <2>7. CallersKept'
    <3>1. \A g \in CallerHandles : handles'[g] # "freed"
      <4> SUFFICES ASSUME NEW g \in CallerHandles PROVE handles'[g] # "freed"
        OBVIOUS
      <4>1. g \in Handles /\ g # None
        BY OwnersDiffer
      <4> QED
        BY <2>4, <2>5, <4>1 DEF Noted, CallersKept
    <3> QED
      BY <2>4, <3>1 DEF CallersKept
  <2>8. \A u \in Threads : /\ mine'[u] # None => pc'[u] \in Opening \union Noting
                           /\ pc'[u] \in Opening => openedByMe'[u]
                           /\ pc'[u] \notin Noting
    BY <2>1, <2>3, <2>4 DEF Noted, Opening, Noting
  <2> QED
    BY <2>4, <2>6, <2>7, <2>8, OwnersDiffer DEF Noted
<1> USE DEF Opening, Noting
<1>5. CASE BeginOpen(t) /\ fileHandle # None
  <2>1. /\ Return(t) /\ pc[t] = "idle"
        /\ UNCHANGED <<mine, openedByMe, fileHandle, created, opened, handles>>
    BY <1>5 DEF BeginOpen, Refused, Calling, volume
  <2> QED
    BY <2>1, QuietNoted DEF Return, IInv, TypeOK
<1>6. CASE OpenLock(t) \/ CreatedLock(t) \/ CloseLock(t) \/ KeyLock(t) \/ BeginLocked(t)
             \/ SizeLock(t)
  <2>1. /\ UNCHANGED <<mine, openedByMe, fileHandle, created, opened, handles>>
        /\ \/ Goto(t, "open read") /\ pc[t] = "open lock"
           \/ Goto(t, "created") /\ pc[t] = "created lock"
           \/ /\ \E label \in {"close", "key", "unlock", "read", "size"} : Goto(t, label)
              /\ pc[t] \in {"close lock", "key file", "idle", "size lock"}
    BY <1>6 DEF OpenLock, CreatedLock, CloseLock, KeyLock, BeginLocked, SizeLock, GrabForWrite,
                GrabForRead, Calling, volume
  <2> QED
    BY <2>1, QuietNoted DEF Goto, IInv, TypeOK
<1>7. CASE BeginClose(t) \/ BeginGetSize(t) \/ BeginReadStartupKey(t) \/ Unlock(t) \/ Read(t)
             \/ GetSize(t) \/ KeyFileFails(t) \/ SetStartupKey(t)
  <2>1. UNCHANGED <<mine, openedByMe, fileHandle, created, opened, handles>>
    BY <1>7 DEF BeginClose, BeginGetSize, BeginReadStartupKey, Unlock, Read, GetSize,
                KeyFileFails, SetStartupKey, Refused, volume
  <2>2. /\ pc[t] \in {"idle", "unlock", "read", "size", "key file", "key"}
        /\ \/ Return(t)
           \/ \E label \in {"close lock", "size lock", "key file"} : Goto(t, label)
    BY <1>7 DEF BeginClose, BeginGetSize, BeginReadStartupKey, Unlock, Read, GetSize,
                KeyFileFails, SetStartupKey, Refused, Calling
  <2> QED
    BY <2>1, <2>2, QuietNoted DEF Goto, Return, IInv, TypeOK
<1> QED
  BY <1>1, <1>2, <1>3, <1>4, <1>5, <1>6, <1>7 DEF Call, Step

-----------------------------------------------------------------------------
(* Steps that leave the startup keys alone, of a thread that reads none. *)
LEMMA QuietStartupKeyInv ==
    ASSUME TypeOK, StartupKeyInv, NEW t \in Threads,
           UNCHANGED <<startupKey, startupKeys>>,
           pc[t] \notin Keying, pc'[t] \notin Keying,
           Return(t) \/ \E label : Goto(t, label)
    PROVE  StartupKeyInv'
<1>1. \A u \in Threads \ {t} : pc'[u] = pc[u] /\ left'[u] = left[u]
  BY DEF Return, Goto, TypeOK
<1>2. \A u \in Threads : pc'[u] \in Keying => startupKey' = None
  BY <1>1 DEF StartupKeyInv
<1>3. NoStartupKeyLost'
  BY <1>1 DEF StartupKeyInv, NoStartupKeyLost, TypeOK, StartupKeys, Keying
<1> QED
  BY <1>2, <1>3 DEF StartupKeyInv

LEMMA NextStartupKeyInv ==
    ASSUME OneKeyReader, IInv, ProgramInv, StartupKeyInv, NEW t \in Threads, Call(t) \/ Step(t)
    PROVE  StartupKeyInv'
<1> DEFINE key == [thread |-> t, call |-> left[t]]
<1>1. \A k \in startupKeys : /\ k \in StartupKeys /\ k # None /\ k.thread \in Threads
                             /\ k.thread = t /\ k.call = left[t] => k = key
  BY NoneAssumption DEF IInv, TypeOK, StartupKeys
<1>2. pc[t] \in Keying => \A u \in Threads \ {t} : pc[u] \notin Keying
  BY DEF ProgramInv, OneKeyReader
<1>3. CASE KeyFileFails(t)
  <2>1. /\ pc[t] \in Keying /\ pc'[t] = "idle"
        /\ startupKey' = startupKey /\ startupKeys' = startupKeys \ {key}
        /\ \A u \in Threads \ {t} : pc'[u] = pc[u] /\ left'[u] = left[u]
    BY <1>3 DEF KeyFileFails, Return, volume, IInv, TypeOK, Keying
  <2>2. NoStartupKeyLost'
    BY <1>1, <1>2, <2>1 DEF StartupKeyInv, NoStartupKeyLost, Keying
  <2> QED
    BY <1>2, <2>1, <2>2 DEF StartupKeyInv, Keying
<1>4. CASE SetStartupKey(t)
  <2>1. /\ pc[t] \in Keying /\ pc'[t] = "idle"
        /\ startupKey = None
        /\ startupKey' = key /\ startupKeys' = startupKeys
        /\ \A u \in Threads \ {t} : pc'[u] = pc[u] /\ left'[u] = left[u]
    BY <1>4 DEF SetStartupKey, Return, IInv, TypeOK, Keying, StartupKeyInv
  <2>2. NoStartupKeyLost'
    BY <1>1, <1>2, <2>1 DEF StartupKeyInv, NoStartupKeyLost, Keying
  <2> QED
    BY <1>2, <2>1, <2>2 DEF StartupKeyInv, Keying
<1>5. CASE Close(t)
  <2>1. /\ pc[t] \notin Keying /\ pc'[t] = "idle"
        /\ startupKey' = None /\ startupKeys' = startupKeys \ {startupKey}
        /\ \A u \in Threads \ {t} : pc'[u] = pc[u] /\ left'[u] = left[u]
    BY <1>5 DEF Close, Return, IInv, TypeOK, Keying
  <2>2. NoStartupKeyLost'
    BY <1>1, <2>1 DEF StartupKeyInv, NoStartupKeyLost, Keying
  <2> QED
    BY <2>1, <2>2 DEF StartupKeyInv
<1>6. CASE BeginReadStartupKey(t) /\ ~Refused(t)
  <2>1. /\ pc[t] = "idle" /\ pc'[t] = "key file" /\ left' = left
        /\ startupKey = None /\ startupKey' = None
        /\ startupKeys' = startupKeys \union {key}
        /\ \A u \in Threads \ {t} : pc'[u] = pc[u]
    BY <1>6 DEF BeginReadStartupKey, Calling, Goto, volume, IInv, TypeOK
  <2>2. NoStartupKeyLost'
    <3> SUFFICES ASSUME NEW k \in startupKeys'
                 PROVE  pc'[k.thread] \in Keying /\ left[k.thread] = k.call
      BY <2>1 DEF NoStartupKeyLost, Keying
    <3>1. CASE k = key
      BY <2>1, <3>1 DEF Keying
    <3>2. CASE k \in startupKeys
      <4>1. pc[k.thread] \in Keying /\ left[k.thread] = k.call /\ k.thread \in Threads
        BY <1>1, <2>1, <3>2 DEF StartupKeyInv, NoStartupKeyLost, Keying
      <4> QED
        BY <2>1, <4>1 DEF Keying
    <3> QED
      BY <2>1, <3>1, <3>2
  <2> QED
    BY <2>1, <2>2 DEF StartupKeyInv
<1>7. CASE KeyLock(t)
  <2>1. /\ pc[t] = "key file" /\ pc'[t] = "key" /\ left' = left
        /\ UNCHANGED <<startupKey, startupKeys>>
        /\ \A u \in Threads \ {t} : pc'[u] = pc[u]
    BY <1>7 DEF KeyLock, GrabForWrite, Goto, volume, IInv, TypeOK
  <2>2. NoStartupKeyLost'
    <3> SUFFICES ASSUME NEW k \in startupKeys
                 PROVE  \/ k = startupKey
                        \/ pc'[k.thread] \in Keying /\ left[k.thread] = k.call
      BY <2>1 DEF NoStartupKeyLost, Keying
    <3>1. \/ k = startupKey
          \/ pc[k.thread] \in Keying /\ left[k.thread] = k.call
      BY DEF StartupKeyInv, NoStartupKeyLost, Keying
    <3>2. k.thread # t => pc'[k.thread] = pc[k.thread]
      BY <1>1, <2>1
    <3> QED
      BY <2>1, <3>1, <3>2 DEF Keying
  <2> QED
    BY <2>1, <2>2 DEF StartupKeyInv, Keying
<1>8. CASE BeginReadStartupKey(t) /\ Refused(t)
  <2>1. /\ pc[t] = "idle" /\ Return(t) /\ UNCHANGED <<startupKey, startupKeys>>
    BY <1>8 DEF BeginReadStartupKey, Calling, Refused, volume
  <2> QED
    BY <2>1, QuietStartupKeyInv DEF Return, IInv, TypeOK, Keying
<1>9. CASE BeginOpen(t) \/ BeginClose(t) \/ BeginLocked(t) \/ BeginGetSize(t) \/ OpenLock(t)
             \/ CreatedLock(t) \/ CloseLock(t) \/ SizeLock(t)
  <2>1. UNCHANGED <<startupKey, startupKeys>>
    BY <1>9 DEF BeginOpen, BeginClose, BeginLocked, BeginGetSize, OpenLock, CreatedLock, CloseLock,
                SizeLock, GrabForWrite, GrabForRead, Refused, volume
  <2>2. /\ pc[t] \in {"idle", "open lock", "created lock", "close lock", "size lock"}
        /\ \/ Return(t)
           \/ \E label \in Labels \ Keying : Goto(t, label)
    BY <1>9 DEF BeginOpen, BeginClose, BeginLocked, BeginGetSize, OpenLock, CreatedLock, CloseLock,
                SizeLock, GrabForWrite, GrabForRead, Refused, Calling, Labels, Keying
  <2> QED
    BY <2>1, <2>2, QuietStartupKeyInv DEF Return, Goto, IInv, TypeOK, Keying
<1>10. CASE OpenRead(t) \/ Created(t) \/ Unlock(t) \/ Read(t) \/ GetSize(t)
  <2>1. UNCHANGED <<startupKey, startupKeys>>
    BY <1>10 DEF OpenRead, Created, Unlock, Read, GetSize, volume
  <2>2. /\ pc[t] \in {"open read", "created", "unlock", "read", "size"}
        /\ Return(t) \/ Goto(t, "created lock")
    BY <1>10 DEF OpenRead, Created, Unlock, Read, GetSize
  <2> QED
    BY <2>1, <2>2, QuietStartupKeyInv DEF Return, Goto, IInv, TypeOK, Keying
<1> QED
  BY <1>3, <1>4, <1>5, <1>6, <1>7, <1>8, <1>9, <1>10 DEF Call, Step

-----------------------------------------------------------------------------
(* Every thread is where its program brought it. *)
THEOREM ProgramsFollowed == Spec => []ProgramInv
<1>1. IInv /\ ProgramInv /\ [Next]_vars => ProgramInv'
  <2> SUFFICES ASSUME IInv, ProgramInv, [Next]_vars PROVE ProgramInv'
    OBVIOUS
  <2>1. CASE Next
    BY <2>1, NextProgramInv DEF Next, History
  <2>2. CASE UNCHANGED vars
    BY <2>2 DEF vars, threads, ProgramInv
  <2> QED
    BY <2>1, <2>2
<1> QED
  BY <1>1, InitOwners, Invariance, PTL DEF Spec

(* Until an open is overtaken the volume notes whose its handle is. *)
THEOREM HandlesNoted == Spec => []NotedInv
<1>1. IInv /\ NotedInv /\ [Next]_vars => NotedInv'
  <2> SUFFICES ASSUME IInv, NotedInv, [Next]_vars, ~overtaken' PROVE Noted'
    BY DEF NotedInv
  <2>1. CASE Next
    <3>1. PICK t \in Threads : Call(t) \/ Step(t)
      BY <2>1 DEF Next
    <3>2. ~overtaken /\ (Close(t) => \A u \in Threads : pc[u] # "created lock")
      BY <2>1 DEF Next, History, Close, Return, IInv, TypeOK
    <3> QED
      BY <3>1, <3>2, NextNoted DEF NotedInv
  <2>2. CASE UNCHANGED vars
    BY <2>2 DEF vars, threads, volume, NotedInv, Noted, CallersKept, NoneLost
  <2> QED
    BY <2>1, <2>2
<1> QED
  BY <1>1, InitOwners, Invariance, PTL DEF Spec

(* However many threads open and close as they like, until a close         *)
(* overtakes an open close frees no handle of a caller: the flag that makes *)
(* it do so is set only for a handle that the library created.             *)
THEOREM CallersKeepHandles == Spec => []CallersHandlesKept
<1>1. NotedInv => CallersHandlesKept
  BY DEF NotedInv, Noted, CallersKept, CallersHandlesKept
<1> QED
  BY <1>1, HandlesNoted, PTL

(* However many threads open and close as they like, until a close         *)
(* overtakes an open every handle that an open opened or created is        *)
(* attached, in the hands of that open, or closed or freed again.          *)
THEOREM NoHandleIsLost == Spec => []NoHandleLost
<1>1. NotedInv => NoHandleLost
  BY DEF NotedInv, Noted, NoneLost, NoHandleLost
<1> QED
  BY <1>1, HandlesNoted, PTL

(* When no thread closes while another lets the library open, no open is   *)
(* ever overtaken.                                                         *)
THEOREM NeverOvertaken ==
    ASSUME OneOpener
    PROVE  Spec => []~overtaken
<1>1. Init => ~overtaken
  BY DEF Init
<1>2. IInv /\ ProgramInv /\ ~overtaken /\ [Next]_vars => ~overtaken'
  <2> SUFFICES ASSUME IInv, ProgramInv, ~overtaken, Next, overtaken' PROVE FALSE
    BY DEF vars
  <2>1. PICK t \in Threads, u \in Threads : pc[t] = "close" /\ pc[u] = "created lock"
    BY DEF Next, History
  <2>2. "close" \in program[t] /\ "open" \in program[u] /\ program \in Programs
    BY <2>1 DEF ProgramInv, Closing, Noting
  <2> QED
    BY <2>1, <2>2 DEF OneOpener
<1> QED
  BY <1>1, <1>2, Invariance, ProgramsFollowed, PTL DEF Spec

(* When one thread reads startup keys, their metadata is kept by the       *)
(* volume, in the hands of that call, or freed.                            *)
THEOREM NoStartupKeyIsLost ==
    ASSUME OneKeyReader
    PROVE  Spec => []NoStartupKeyLost
<1>1. IInv /\ ProgramInv /\ StartupKeyInv /\ [Next]_vars => StartupKeyInv'
  <2> SUFFICES ASSUME IInv, ProgramInv, StartupKeyInv, [Next]_vars PROVE StartupKeyInv'
    OBVIOUS
  <2>1. CASE Next
    BY <2>1, NextStartupKeyInv DEF Next
  <2>2. CASE UNCHANGED vars
    BY <2>2 DEF vars, threads, volume, StartupKeyInv, NoStartupKeyLost
  <2> QED
    BY <2>1, <2>2
<1>2. StartupKeyInv => NoStartupKeyLost
  BY DEF StartupKeyInv
<1> QED
  BY <1>1, <1>2, InitOwners, Invariance, ProgramsFollowed, PTL DEF Spec

=============================================================================
