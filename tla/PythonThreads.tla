---------------------------- MODULE PythonThreads ----------------------------
(***************************************************************************)
(* The calls of pybde behind Py_BEGIN_ALLOW_THREADS: the volume's lock,    *)
(* the calls back into Python for the file object, the library's answer,   *)
(* and what pybde makes of it once it has the GIL again.                   *)
(***************************************************************************)
EXTENDS PythonVolume

InCall(t) == pc[t] \notin {"idle", "running"}

Lockless == {"signal_abort", "check_signature", "ask_protector", "free_protector"}

FaultyTakesLock(kind) == kind \notin Lockless \union {"read"}

(* signal_abort, the check and a key protector do without the volume's lock. *)
TakesLock(kind) == kind \notin Lockless

Move(t, step) == pc' = [pc EXCEPT ![t] = step]

Lock(t) ==
    /\ pc[t] = "entering"
    /\ IF TakesLock(call[t]) THEN lock = Nobody /\ lock' = t ELSE UNCHANGED lock
    /\ Move(t, "library")
    /\ UNCHANGED <<gil, request, volume, attached, files, python, history>>

-----------------------------------------------------------------------------
(* Calling back *)

HandleOf(t) ==
    CASE call[t] = "open_file_object" -> fileIoHandle
      [] call[t] = "check_signature" -> handle[t]
      [] OTHER -> attached

(* An open, an unlock, a read of an unlocked volume and the check read     *)
(* through a file object; the size before a read is known.                 *)
Reads(t) ==
    CASE call[t] = "open_file_object" -> attached = Nothing
      [] call[t] = "unlock" -> attached \in Handles
      [] call[t] = "read" -> volume = "unlocked" /\ attached \in Handles /\ rounds[t] = 1
      [] call[t] = "check_signature" -> TRUE
      [] OTHER -> FALSE

(* PyGILState_Ensure waits for the GIL unless the thread has it. *)
GilFree(t) == gil \in {Nobody, t}

Lives(t) == HandleOf(t) \in Handles /\ wraps[HandleOf(t)] \in Files

Answered(t, said) ==
    /\ result' = [result EXCEPT ![t] = said]
    /\ UNCHANGED <<call, rounds, offset, handle>>

(* The file object's method is called through the handle: what it returns, *)
(* or an error when it fails. A handle that was freed is misused.          *)
CallBack(t, outcomes, next) ==
    /\ GilFree(t)
    /\ IF Lives(t)
       THEN \E told \in outcomes :
                /\ objects' = [objects EXCEPT ![wraps[HandleOf(t)]] = told.object]
                /\ IF told.status = Failure
                   THEN Answered(t, "error") /\ Move(t, "answering")
                   ELSE UNCHANGED request /\ Move(t, next)
                /\ UNCHANGED misused
       ELSE /\ misused' = misused \union (IF HandleOf(t) = Nothing THEN {} ELSE {"handle"})
            /\ Answered(t, "error") /\ Move(t, "answering")
            /\ UNCHANGED objects
    /\ UNCHANGED <<gil, library, wraps, references, python>>

ObjectOf(t) == objects[wraps[HandleOf(t)]]

Seek(t) ==
    /\ pc[t] = "library"
    /\ Reads(t)
    /\ CallBack(t, {HandleSeekOffset(ObjectOf(t), offset[t], "set", broken) :
                        broken \in {{}, {"seek"}, {"tell"}}},
                IF call[t] \in {"open_file_object", "unlock"} THEN "sizing" ELSE "sought")
    /\ UNCHANGED misread

(* Opening and unlocking ask for the size as well.                         *)
AskSize(t) ==
    /\ pc[t] = "sizing"
    /\ CallBack(t, {HandleGetSize(ObjectOf(t), broken) :
                        broken \in {{}} \union {{m} : m \in Methods}}, "reseek")
    /\ UNCHANGED misread

SeekAgain(t) ==
    /\ pc[t] = "reseek"
    /\ CallBack(t, {HandleSeekOffset(ObjectOf(t), offset[t], "set", broken) :
                        broken \in {{}, {"seek"}, {"tell"}}}, "sought")
    /\ UNCHANGED misread

Read(t) ==
    /\ pc[t] = "sought"
    /\ CallBack(t, {ReadBuffer(ObjectOf(t), 1, broken) : broken \in {{}, {"read"}}}, "answering")
    /\ misread' = (misread \/ (Lives(t) /\ ObjectOf(t).position # offset[t]))

(* libbde_key_protector_get_identifier and _get_type read the key. *)
UseKey(t) ==
    /\ pc[t] = "library"
    /\ call[t] = "ask_protector"
    /\ misused' = misused \union ({protector} \intersect {"closed", "freed"})
    /\ Move(t, "answering")
    /\ UNCHANGED <<gil, request, library, files, python, misread>>

-----------------------------------------------------------------------------
(* Answering *)

(* The library call leaves the volume as it is. *)
Same == UNCHANGED <<volume, attached, protector>>

Fails(t) == Answered(t, "error") /\ Same
Works(t) == Answered(t, "ok") /\ Same

LibraryOpens(t, through) ==
    \/ Fails(t)
    \/ /\ attached = Nothing
       /\ result[t] = "ok"
       /\ LifeCycle!Open
       /\ attached' = through
       /\ Answered(t, "ok")
       /\ UNCHANGED protector

(* Key protectors share the volume master keys that close and free free,   *)
(* those too that have not come back to Python yet.                        *)
Lost(reason) == IF protector = "usable" THEN reason ELSE protector

GotProtector(t) ==
    pc[t] = "returning" /\ call[t] \in {"get_protector", "next_protector"}
        /\ result[t] = "ok"

LostOnTheWay ==
    [t \in Threads |-> IF GotProtector(t) THEN "stale" ELSE result[t]]

LibraryCloses(t) ==
    IF attached = Nothing
    THEN Fails(t)
    ELSE /\ LifeCycle!Close
         /\ attached' = Nothing
         /\ protector' = Lost("closed")
         /\ result' = [LostOnTheWay EXCEPT ![t] = "ok"]
         /\ UNCHANGED <<call, rounds, offset, handle>>

LibraryFrees(t) ==
    /\ LifeCycle!Free
    /\ attached' = Nothing
    /\ protector' = Lost("freed")
    /\ Answered(t, "ok")

LibraryUnlocks(t) ==
    \/ Fails(t)
    \/ Works(t)
    \/ result[t] = "ok" /\ LifeCycle!Unlock /\ Answered(t, "ok")
       /\ UNCHANGED <<attached, protector>>

LibraryAnswers(t) ==
    CASE call[t] = "open" -> LibraryOpens(t, "path")
      [] call[t] = "open_file_object" -> LibraryOpens(t, fileIoHandle)
      [] call[t] = "close" -> LibraryCloses(t)
      [] call[t] = "close_and_free" /\ rounds[t] = 2 -> LibraryCloses(t)
      [] call[t] = "close_and_free" /\ rounds[t] = 1 -> LibraryFrees(t)
      [] call[t] = "free" -> LibraryFrees(t)
      [] call[t] = "unlock" -> LibraryUnlocks(t)
      [] call[t] = "read" ->
            IF volume = "unlocked" /\ result[t] = "ok" THEN Works(t) ELSE Fails(t)
      [] call[t] \in {"get_protector", "next_protector"} ->
            IF LifeCycle!IsOpen THEN Works(t) \/ Fails(t) ELSE Fails(t)
      [] OTHER -> Works(t) \/ Fails(t)

(* A handle that was freed is gone for good when the library forgets it.   *)
Forget ==
    wraps' = [h \in Handles |->
                IF wraps[h] = "freed" /\ attached' # h THEN "free" ELSE wraps[h]]

Answer(t) ==
    /\ \/ pc[t] = "answering"
       \/ pc[t] = "library" /\ ~Reads(t) /\ call[t] # "ask_protector"
    /\ LibraryAnswers(t)
    /\ Forget
    /\ lock' = IF TakesLock(call[t]) THEN Nobody ELSE lock
    /\ Move(t, "returning")
    /\ UNCHANGED <<gil, objects, references, fileIoHandle, parents, iterator, history>>

-----------------------------------------------------------------------------
(* Returning to Python *)

(* Py_END_ALLOW_THREADS stands behind each call of the volume. *)
Holder(t) == t

Return(t) ==
    /\ gil' = Holder(t)
    /\ Move(t, "running")
    /\ call' = [call EXCEPT ![t] = "none"]
    /\ rounds' = [rounds EXCEPT ![t] = 0]
    /\ offset' = [offset EXCEPT ![t] = 0]
    /\ handle' = [handle EXCEPT ![t] = Nothing]
    /\ result' = [result EXCEPT ![t] = "ok"]

(* The next call of the library, with the GIL let go of again.             *)
Continue(t) ==
    /\ gil' = Nobody
    /\ Move(t, "entering")
    /\ rounds' = [rounds EXCEPT ![t] = @ - 1]
    /\ UNCHANGED <<call, offset, handle, result>>

OpenReturns(t) ==
    /\ call[t] = "open_file_object"
    /\ IF result[t] = "error"
       THEN FreeFileIoHandle(attached)
       ELSE UNCHANGED <<files, python>>
    /\ Return(t)

CloseReturns(t) ==
    /\ call[t] = "close"
    /\ IF result[t] = "ok"
       THEN FreeFileIoHandle(attached)
       ELSE UNCHANGED <<files, python>>
    /\ Return(t)

CloseOfFreeReturns(t) ==
    /\ call[t] = "close_and_free" /\ rounds[t] = 2
    /\ IF result[t] = "ok"
       THEN FreeFileIoHandle(attached) /\ Continue(t)
       ELSE Return(t) /\ UNCHANGED <<files, python>>

CheckReturns(t) ==
    /\ call[t] = "check_signature"
    /\ FreeHandle(handle[t], Nothing)
    /\ Return(t)
    /\ UNCHANGED <<objects, python>>

(* The Python object of a key protector may not come about; then the       *)
(* library's is freed.                                                     *)
ProtectorReturns(t) ==
    /\ call[t] \in {"get_protector", "next_protector"}
    /\ \/ /\ result[t] # "error"
          /\ protector = "none"
          /\ protector' = IF result[t] = "ok" THEN "usable" ELSE "closed"
          /\ parents' = parents + Parent
          /\ iterator' = IF call[t] = "next_protector" /\ iterator # Nothing
                         THEN iterator + 1
                         ELSE iterator
       \/ UNCHANGED <<protector, parents, iterator>>
    /\ UNCHANGED <<files, fileIoHandle>>
    /\ Return(t)

ProtectorsReturn(t) ==
    /\ call[t] = "get_protectors"
    /\ \/ /\ result[t] = "ok"
          /\ iterator = Nothing
          /\ iterator' = 0
          /\ parents' = parents + Parent
       \/ UNCHANGED <<iterator, parents>>
    /\ UNCHANGED <<files, fileIoHandle, protector>>
    /\ Return(t)

ProtectorFreed(t) ==
    /\ call[t] = "free_protector"
    /\ protector' = "none"
    /\ parents' = parents - Parent
    /\ UNCHANGED <<files, fileIoHandle, iterator>>
    /\ Return(t)

(* A getter or a read that asks twice goes on unless the first failed.     *)
OtherReturns(t) ==
    /\ \/ call[t] \in {"query", "read", "unlock", "signal_abort", "open", "free",
                        "ask_protector"}
       \/ call[t] = "close_and_free" /\ rounds[t] = 1
    /\ IF rounds[t] > 1 /\ result[t] = "ok" THEN Continue(t) ELSE Return(t)
    /\ UNCHANGED <<files, python>>

ReturnToPython(t) ==
    /\ pc[t] = "returning"
    /\ GilFree(t)
    /\ \/ OpenReturns(t) \/ CloseReturns(t) \/ CloseOfFreeReturns(t) \/ CheckReturns(t)
       \/ ProtectorReturns(t) \/ ProtectorsReturn(t) \/ ProtectorFreed(t) \/ OtherReturns(t)
    /\ UNCHANGED <<library, history>>

-----------------------------------------------------------------------------
Calls(t) ==
    \/ IsLocked(t) \/ GetOffsetOfVolume(t) \/ SeekOffsetOfVolume(t) \/ GetSizeOfVolume(t)
    \/ GetEncryptionMethod(t) \/ GetVolumeIdentifier(t) \/ GetCreationTime(t)
    \/ GetCreationTimeAsInteger(t) \/ GetNumberOfKeyProtectors(t) \/ GetDescription(t)
    \/ SetKeys(t) \/ SetPassword(t) \/ SetRecoveryPassword(t) \/ ReadStartupKey(t)
    \/ SignalAbort(t) \/ Unlock(t) \/ ReadBufferOfVolume(t) \/ ReadBufferAtOffset(t)
    \/ Initialize(t) \/ Open(t) \/ OpenFileObject(t) \/ Close(t) \/ Free(t)
    \/ CheckVolumeSignature(t)
    \/ GetKeyProtector(t) \/ GetKeyProtectors(t) \/ GetItem(t) \/ IterNext(t)
    \/ FreeKeyProtectors(t) \/ AskKeyProtector(t) \/ FreeKeyProtector(t)

Proceed(t) ==
    \/ Lock(t) \/ Seek(t) \/ AskSize(t) \/ SeekAgain(t) \/ Read(t) \/ UseKey(t) \/ Answer(t)
    \/ ReturnToPython(t)

Next == \E t \in Threads : TakeGil(t) \/ YieldGil(t) \/ Calls(t) \/ Proceed(t)

Spec == Init /\ [][Next]_vars

-----------------------------------------------------------------------------
Kinds == {"none", "query", "signal_abort", "unlock", "read", "open", "open_file_object",
          "close", "free", "close_and_free", "check_signature", "get_protector",
          "get_protectors", "next_protector", "ask_protector", "free_protector"}

Steps == {"idle", "running", "entering", "library", "sizing", "reseek", "sought",
          "answering", "returning"}

(* Every variable has its type. *)
TypeOK ==
    /\ gil \in Threads \union {Nobody}
    /\ lock \in Threads \union {Nobody}
    /\ pc \in [Threads -> Steps]
    /\ call \in [Threads -> Kinds]
    /\ rounds \in [Threads -> Int]
    /\ offset \in [Threads -> 0 .. Size - 1]
    /\ handle \in [Threads -> Handles \union {Nothing}]
    /\ result \in [Threads -> {"ok", "error", "stale"}]
    /\ volume \in LifeCycle!States
    /\ attached \in Handles \union {Nothing, "path"}
    /\ fileIoHandle \in Handles \union {Nothing}
    /\ wraps \in [Handles -> Files \union {"free", "freed"}]
    /\ objects \in [Files -> [position : 0 .. Size, size : {Size}, hasGetSize : BOOLEAN]]
    /\ protector \in {"none", "usable", "closed", "freed"}
    /\ parents \in Int
    /\ iterator \in Nat \union {Nothing}

(* Nothing that was freed is used: not the handle through which the        *)
(* library reads, nor the volume master key of a key protector whose       *)
(* volume was freed. Only who asks a key protector after a close, or while *)
(* another thread closes, uses a key that the close has freed: nothing     *)
(* guards it, and a careful program does without ("ask_when_closed").      *)
FreedNotUsed == misused \subseteq {"closed"}

(* The handles that someone will free. *)
Owned ==
    {handle[t] : t \in Threads} \union
        (IF volume = "absent" THEN {} ELSE {fileIoHandle})

(* A file object is held by as many references as there are handles that   *)
(* are going to be freed, whichever call failed.                           *)
ReferencesKept ==
    \A f \in Files : references[f] = Cardinality({h \in Handles \intersect Owned : wraps[h] = f})

(* Each read of the library through a file object takes place where the    *)
(* library sought just before: no other thread came between.               *)
SoughtIsRead == ~misread

(* Nobody who has the lock of the volume, and may have to call back into   *)
(* Python, waits for one who has the GIL and waits for that lock.          *)
NoCircularWait ==
    \A t \in Threads : gil = t => ~(pc[t] = "entering" /\ lock # Nobody)
=============================================================================
