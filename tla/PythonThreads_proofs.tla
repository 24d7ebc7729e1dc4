------------------------ MODULE PythonThreads_proofs ------------------------
(***************************************************************************)
(* What holds of PythonThreads for any number of threads, file objects,    *)
(* handles and key protectors: no thread that has the GIL waits for the    *)
(* volume's lock, each read takes place where the library sought just      *)
(* before, a file object has the references of the handles that are going  *)
(* to be freed; a program that does not open an open volume again uses no  *)
(* handle and no volume that was freed, and one that asks no key protector *)
(* of a closed volume uses no key that was freed either.                   *)
(***************************************************************************)
EXTENDS PythonThreads, FiniteSetTheorems, TLAPS

InLibrary == {"library", "sizing", "reseek", "sought", "answering"}

CallingBack == {"sizing", "reseek", "sought"}

Readers == {"open_file_object", "unlock", "read", "check_signature"}

OwnerCalls == {"open", "open_file_object", "close", "free", "close_and_free"}

Drops == {"free", "close_and_free"}

OfProtector == {"ask_protector", "free_protector"}

ProtectorMakers == {"get_protector", "next_protector"}

Results == {"ok", "error", "stale"}

NeverReopens == "reopen" \notin Liberties

NeverAsksClosed == "ask_when_closed" \notin Liberties

(* The GIL is with the thread that runs Python code. *)
GilInv == \A t \in Threads : gil = t <=> pc[t] = "running"

(* In the library a thread has the volume's lock if its call takes it. *)
LockInv ==
    \A t \in Threads : pc[t] \in InLibrary /\ TakesLock(call[t]) => lock = t

CallInv ==
    \A t \in Threads :
        /\ pc[t] \in {"idle", "running"} <=> call[t] = "none"
        /\ pc[t] \in CallingBack => call[t] \in Readers
        /\ call[t] \in OwnerCalls => t = Owner
        /\ call[t] = "check_signature" <=> handle[t] # Nothing

(* Each handle in use has a file object that no other has. *)
HandleInv ==
    /\ fileIoHandle # Nothing => wraps[fileIoHandle] \in Files
    /\ \A t \in Threads :
        handle[t] # Nothing =>
            /\ wraps[handle[t]] \in Files
            /\ fileIoHandle # Nothing => wraps[handle[t]] # wraps[fileIoHandle]
            /\ \A u \in Threads \ {t} :
                    handle[u] # Nothing => wraps[handle[t]] # wraps[handle[u]]

(* What the library reads through is the handle of the Python object, or   *)
(* it was freed.                                                           *)
AttachedInv ==
    attached \in Handles =>
        /\ volume # "absent"
        /\ attached = fileIoHandle \/ wraps[attached] = "freed"

(* Where a thread sought it finds the object. *)
SoughtInv ==
    \A t \in Threads :
        pc[t] = "sought" /\ Lives(t) => ObjectOf(t).position = offset[t]

(* A program that does not open an open volume again frees no handle that  *)
(* is attached.                                                            *)
OpenInv ==
    /\ "handle" \notin misused
    /\ attached \in Handles => attached = fileIoHandle
    /\ \A t \in Threads :
        /\ call[t] = "open_file_object" /\ (pc[t] # "returning" \/ result[t] = "error") =>
                attached \notin Handles
        /\ call[t] = "close" /\ pc[t] = "returning" /\ result[t] = "ok" =>
                attached \notin Handles
        /\ call[t] = "close_and_free" /\ rounds[t] = 2 /\ pc[t] = "returning"
             /\ result[t] = "ok" => attached \notin Handles
        /\ pc[t] \in CallingBack /\ call[t] \in {"unlock", "read"} => attached \in Handles

(* No key protector is left when the volume goes, and none goes that is    *)
(* being asked.                                                            *)
ProtectorInv ==
    /\ misused \subseteq {"handle", "closed"}
    /\ protector # "freed"
    /\ parents = (IF protector = "none" THEN 0 ELSE 1) + (IF iterator = Nothing THEN 0 ELSE 1)
    /\ \A t \in Threads :
        /\ call[t] \in Drops =>
            /\ protector = "none"
            /\ \A u \in Threads \ {t} : call[u] \in {"none", "check_signature"}
        /\ call[t] \in OfProtector => protector # "none"
        /\ call[t] = "free_protector" =>
            \A u \in Threads \ {t} : call[u] \notin OfProtector

(* A program that is careful closes no volume whose key protector it asks. *)
AskInv ==
    /\ "closed" \notin misused
    /\ \A t \in Threads :
        call[t] = "ask_protector" =>
            protector = "usable" /\ \A u \in Threads : call[u] # "close"

Careful ==
    /\ ProtectorInv
    /\ NeverReopens => OpenInv
    /\ NeverAsksClosed => AskInv

(* The inductive invariant. *)
IInv ==
    /\ TypeOK
    /\ GilInv
    /\ LockInv
    /\ CallInv
    /\ HandleInv
    /\ AttachedInv
    /\ SoughtInv
    /\ ~misread
    /\ Careful

-----------------------------------------------------------------------------
(* Every program starts out with the inductive invariant. *)
LEMMA InitIInv == Init => IInv
<1> SUFFICES ASSUME Init PROVE IInv
  OBVIOUS
<1>1. TypeOK
  <2>1. 0 \in 0 .. Size - 1 /\ 0 \in 0 .. Size
    BY SizeAssumption
  <2>2. objects \in [Files -> [position : 0 .. Size, size : {Size}, hasGetSize : BOOLEAN]]
    BY <2>1 DEF Init
  <2>3. /\ pc \in [Threads -> Steps] /\ call \in [Threads -> Kinds]
        /\ rounds \in [Threads -> Int] /\ offset \in [Threads -> 0 .. Size - 1]
        /\ handle \in [Threads -> Handles \union {Nothing}]
        /\ result \in [Threads -> Results]
    BY <2>1 DEF Init, Steps, Kinds, Results
  <2>4. volume \in LifeCycle!States
    BY DEF Init, LifeCycle!States
  <2> QED
    BY <2>2, <2>3, <2>4 DEF Init, TypeOK, Results
<1>2. GilInv /\ LockInv
  BY ThreadsAssumption DEF Init, GilInv, LockInv, InLibrary
<1>3. CallInv
  BY DEF Init, CallInv, CallingBack, OwnerCalls
<1>4. HandleInv /\ AttachedInv /\ SoughtInv /\ ~misread
  BY HandlesAssumption DEF Init, HandleInv, AttachedInv, SoughtInv
<1>5. Careful
  BY HandlesAssumption DEF Init, Careful, OpenInv, ProtectorInv, AskInv, CallingBack,
     Drops, OfProtector
<1> QED
  BY <1>1, <1>2, <1>3, <1>4, <1>5 DEF IInv

-----------------------------------------------------------------------------
(* Steps of Python code, outside the library                               *)

(* A thread in the library is left alone by a step that changes neither    *)
(* its request nor a handle.                                               *)
LEMMA SoughtFrame ==
    ASSUME SoughtInv, UNCHANGED <<attached, fileIoHandle, wraps, objects>>,
           \A u \in Threads : pc'[u] = "sought" =>
                /\ pc[u] = "sought" /\ call'[u] = call[u]
                /\ offset'[u] = offset[u] /\ handle'[u] = handle[u]
    PROVE  SoughtInv'
<1> SUFFICES ASSUME NEW u \in Threads, (pc[u] = "sought" /\ Lives(u))'
             PROVE  (ObjectOf(u).position = offset[u])'
  BY DEF SoughtInv
<1>1. HandleOf(u)' = HandleOf(u)
  BY DEF HandleOf
<1>2. Lives(u) /\ ObjectOf(u)' = ObjectOf(u)
  BY <1>1 DEF Lives, ObjectOf
<1> QED
  BY <1>2 DEF SoughtInv

(* Calls that go on or end change nothing of key protectors ...             *)
LEMMA CallsEnd ==
    ASSUME ProtectorInv, UNCHANGED <<protector, parents, iterator>>,
           misused' \in {misused, misused \union {"handle"}},
           \A u \in Threads : call'[u] \in {call[u], "none"}
    PROVE  ProtectorInv' /\ (AskInv => AskInv')
<1>1. ProtectorInv'
  BY DEF ProtectorInv, Drops, OfProtector
<1>2. AskInv => AskInv'
  BY DEF AskInv
<1> QED
  BY <1>1, <1>2

(* ... and one that begins fits in with those under way.                   *)
LEMMA CallBegins ==
    ASSUME IInv, NEW t \in Threads, NEW kind \in Kinds \ {"none"},
           call' = [call EXCEPT ![t] = kind],
           UNCHANGED <<protector, parents, iterator, misused>>,
           \/ kind = "check_signature"
           \/ kind \in OfProtector /\ protector # "none" /\ ~Under("free_protector")
           \/ kind \notin OfProtector /\ \A u \in Threads : call[u] \notin Drops,
           kind \in Drops => parents = 0 /\ \A u \in Threads \ {t} : call[u] \in Elsewhere,
           kind = "free_protector" => ~Under("ask_protector"),
           NeverAsksClosed /\ kind = "ask_protector" => protector = "usable" /\ ~Under("close"),
           NeverAsksClosed /\ kind = "close" => ~Under("ask_protector")
    PROVE  ProtectorInv' /\ (NeverAsksClosed => AskInv')
<1>1. call'[t] = kind /\ \A u \in Threads \ {t} : call'[u] = call[u]
  BY DEF IInv, TypeOK
<1>2. ProtectorInv
  BY DEF IInv, Careful
<1>3. ASSUME kind \in Drops
      PROVE  /\ protector = "none"
             /\ \A u \in Threads \ {t} : call[u] \in {"none", "check_signature"}
  <2>1. protector = "none"
    BY <1>2, <1>3 DEF ProtectorInv
  <2> QED
    BY <1>2, <1>3, <2>1 DEF ProtectorInv, Elsewhere, OfProtector
<1>4. ASSUME NEW u \in Threads, call'[u] \in Drops
      PROVE  /\ protector = "none"
             /\ \A v \in Threads \ {u} : call'[v] \in {"none", "check_signature"}
  <2>1. CASE u = t
    BY <1>1, <1>3, <1>4, <2>1
  <2>2. CASE u # t
    <3>1. call[u] \in Drops /\ protector = "none"
      BY <1>1, <1>2, <1>4, <2>2 DEF ProtectorInv
    <3>2. kind = "check_signature"
      BY <3>1
    <3> QED
      BY <1>1, <1>2, <3>1, <3>2 DEF ProtectorInv
  <2> QED
    BY <2>1, <2>2
<1>5. ASSUME NEW u \in Threads, call'[u] \in OfProtector
      PROVE  protector # "none"
  BY <1>1, <1>2, <1>5 DEF ProtectorInv, OfProtector
<1>6. ASSUME NEW u \in Threads, call'[u] = "free_protector", NEW v \in Threads \ {u}
      PROVE  call'[v] \notin OfProtector
  <2>1. CASE u = t
    <3>1. ~Under("free_protector") /\ ~Under("ask_protector")
      BY <1>1, <1>6, <2>1 DEF OfProtector
    <3> QED
      BY <1>1, <2>1, <3>1 DEF Under, OfProtector
  <2>2. CASE u # t
    <3>1. call[u] = "free_protector" /\ Under("free_protector")
      BY <1>1, <1>6, <2>2 DEF Under
    <3>2. kind \notin OfProtector
      BY <3>1 DEF OfProtector
    <3> QED
      BY <1>1, <1>2, <3>1, <3>2 DEF ProtectorInv
  <2> QED
    BY <2>1, <2>2
<1>7. ProtectorInv'
  BY <1>2, <1>4, <1>5, <1>6 DEF ProtectorInv
<1>8. ASSUME NeverAsksClosed
      PROVE  AskInv'
  <2>1. AskInv
    BY <1>8 DEF IInv, Careful
  <2>2. ASSUME NEW u \in Threads, call'[u] = "ask_protector", NEW v \in Threads
        PROVE  protector = "usable" /\ call'[v] # "close"
    <3>1. CASE u = t
      BY <1>1, <1>8, <2>2, <3>1 DEF Under
    <3>2. CASE u # t
      <4>1. call[u] = "ask_protector" /\ Under("ask_protector")
        BY <1>1, <2>2, <3>2 DEF Under
      <4> QED
        BY <1>1, <1>8, <2>1, <4>1 DEF AskInv
    <3> QED
      BY <3>1, <3>2
  <2> QED
    BY <2>1, <2>2 DEF AskInv
<1> QED
  BY <1>7, <1>8

LEMMA TakeGilIInv ==
    ASSUME IInv, NEW t \in Threads, TakeGil(t)
    PROVE  IInv'
<1> USE DEF IInv, TakeGil, request, library, files, python, history
<1>1. TypeOK'
  BY DEF TypeOK, Steps, LifeCycle!States
<1>2. GilInv'
  BY ThreadsAssumption DEF GilInv, TypeOK
<1>3. LockInv' /\ CallInv'
  BY DEF LockInv, CallInv, TypeOK, InLibrary, CallingBack
<1>4. HandleInv' /\ AttachedInv'
  BY DEF HandleInv, AttachedInv
<1>5. SoughtInv'
  BY SoughtFrame DEF TypeOK
<1>6. NeverReopens => OpenInv'
  BY DEF Careful, OpenInv, TypeOK, CallInv, CallingBack
<1>7. ProtectorInv' /\ (NeverAsksClosed => AskInv')
  BY CallsEnd DEF Careful
<1> QED
  BY <1>1, <1>2, <1>3, <1>4, <1>5, <1>6, <1>7 DEF Careful

LEMMA YieldGilIInv ==
    ASSUME IInv, NEW t \in Threads, YieldGil(t)
    PROVE  IInv'
<1> USE DEF IInv, YieldGil, Running, request, library, files, python, history
<1>1. TypeOK'
  BY DEF TypeOK, Steps, LifeCycle!States
<1>2. GilInv'
  BY ThreadsAssumption DEF GilInv, TypeOK
<1>3. LockInv' /\ CallInv'
  BY DEF LockInv, CallInv, TypeOK, InLibrary, CallingBack
<1>4. HandleInv' /\ AttachedInv'
  BY DEF HandleInv, AttachedInv
<1>5. SoughtInv'
  BY SoughtFrame DEF TypeOK
<1>6. NeverReopens => OpenInv'
  BY DEF Careful, OpenInv, TypeOK, CallInv, CallingBack
<1>7. ProtectorInv' /\ (NeverAsksClosed => AskInv')
  BY CallsEnd DEF Careful
<1> QED
  BY <1>1, <1>2, <1>3, <1>4, <1>5, <1>6, <1>7 DEF Careful

(* Entering the library: what becomes of the GIL, the steps and the        *)
(* request, whatever becomes of the file objects.                          *)
LEMMA EnterLibraryCore ==
    ASSUME IInv, NEW t \in Threads, Running(t),
           NEW kind \in Kinds \ {"none"}, NEW times \in Int, NEW from \in 0 .. Size - 1,
           NEW own \in Handles \union {Nothing},
           EnterLibrary(t, kind, times, from, own), lock' = lock,
           kind \in OwnerCalls => t = Owner,
           kind = "check_signature" <=> own # Nothing
    PROVE  /\ pc' \in [Threads -> Steps] /\ call' \in [Threads -> Kinds]
           /\ rounds' \in [Threads -> Int] /\ offset' \in [Threads -> 0 .. Size - 1]
           /\ handle' \in [Threads -> Handles \union {Nothing}]
           /\ result' \in [Threads -> Results]
           /\ gil' = Nobody
           /\ GilInv' /\ LockInv' /\ CallInv'
<1> USE DEF IInv, EnterLibrary, Running, Results
<1>1. /\ pc' \in [Threads -> Steps] /\ call' \in [Threads -> Kinds]
      /\ rounds' \in [Threads -> Int] /\ offset' \in [Threads -> 0 .. Size - 1]
      /\ handle' \in [Threads -> Handles \union {Nothing}]
      /\ result' \in [Threads -> Results]
  BY DEF TypeOK, Steps
<1>2. gil' = Nobody
  BY DEF ReleasesGil
<1>3. GilInv'
  BY <1>2, ThreadsAssumption DEF GilInv, TypeOK
<1>4. LockInv'
  BY DEF LockInv, TypeOK, InLibrary
<1>5. CallInv'
  BY DEF CallInv, TypeOK, CallingBack
<1> QED
  BY <1>1, <1>2, <1>3, <1>4, <1>5

(* A call that takes no file object keeps the inductive invariant. *)
LEMMA EnterCallIInv ==
    ASSUME IInv, NEW t \in Threads, Running(t),
           NEW kind \in Kinds \ {"none", "check_signature", "open_file_object"},
           NEW times \in Int, NEW from \in 0 .. Size - 1,
           EnterLibrary(t, kind, times, from, Nothing),
           UNCHANGED <<library, files, python, history>>,
           kind \in OwnerCalls => t = Owner,
           ProtectorInv' /\ (NeverAsksClosed => AskInv')
    PROVE  IInv'
<1> USE DEF IInv, library, files, python, history
<1>0. Nothing \in Handles \union {Nothing}
  OBVIOUS
<1>1. /\ pc' \in [Threads -> Steps] /\ call' \in [Threads -> Kinds]
      /\ rounds' \in [Threads -> Int] /\ offset' \in [Threads -> 0 .. Size - 1]
      /\ handle' \in [Threads -> Handles \union {Nothing}]
      /\ result' \in [Threads -> Results]
      /\ gil' = Nobody
      /\ GilInv' /\ LockInv' /\ CallInv'
  BY <1>0, EnterLibraryCore
<1>2. TypeOK'
  BY <1>1 DEF TypeOK, LifeCycle!States, Results
<1>3. handle' = handle
  <2>1. handle[t] = Nothing
    BY DEF CallInv, Running
  <2> QED
    BY <2>1 DEF EnterLibrary, TypeOK
<1>4. HandleInv' /\ AttachedInv'
  BY <1>3 DEF HandleInv, AttachedInv
<1>5. SoughtInv'
  BY SoughtFrame DEF TypeOK, EnterLibrary
<1>6. NeverReopens => OpenInv'
  BY DEF Careful, OpenInv, TypeOK, EnterLibrary, CallingBack
<1> QED
  BY <1>1, <1>2, <1>4, <1>5, <1>6 DEF Careful

LEMMA EnterIInv ==
    ASSUME IInv, NEW t \in Threads,
           NEW kind \in Kinds \ {"none", "check_signature", "open_file_object"},
           NEW times \in Int, NEW from \in 0 .. Size - 1,
           Enter(t, kind, times, from),
           kind \notin OfProtector,
           kind \in OwnerCalls => t = Owner,
           kind \in Drops => parents = 0 /\ \A u \in Threads \ {t} : call[u] \in Elsewhere,
           NeverAsksClosed /\ kind = "close" => ~Under("ask_protector")
    PROVE  IInv'
<1>1. /\ Running(t) /\ EnterLibrary(t, kind, times, from, Nothing)
      /\ UNCHANGED <<library, files, python, history>>
      /\ \A u \in Threads : call[u] \notin Drops
  BY DEF Enter, HasVolume, Drops
<1>2. call' = [call EXCEPT ![t] = kind] /\ UNCHANGED <<protector, parents, iterator, misused>>
  BY <1>1 DEF EnterLibrary, python, history
<1>3. ProtectorInv' /\ (NeverAsksClosed => AskInv')
  BY <1>1, <1>2, CallBegins DEF OfProtector
<1> QED
  BY <1>1, <1>3, EnterCallIInv

-----------------------------------------------------------------------------
(* Steps that make and free handles                                        *)

(* A thread that sought keeps its object when its handle stays, unless the *)
(* handle is no more.                                                      *)
LEMMA SoughtUnlessFreed ==
    ASSUME SoughtInv, UNCHANGED objects,
           \A u \in Threads : pc'[u] = "sought" =>
                /\ pc[u] = "sought" /\ offset'[u] = offset[u]
                /\ Lives(u)' =>
                    HandleOf(u)' = HandleOf(u) /\ wraps'[HandleOf(u)] = wraps[HandleOf(u)]
    PROVE  SoughtInv'
<1> SUFFICES ASSUME NEW u \in Threads, (pc[u] = "sought" /\ Lives(u))'
             PROVE  (ObjectOf(u).position = offset[u])'
  BY DEF SoughtInv
<1>1. HandleOf(u)' = HandleOf(u) /\ wraps'[HandleOf(u)] = wraps[HandleOf(u)]
  OBVIOUS
<1>2. Lives(u) /\ ObjectOf(u)' = ObjectOf(u)
  BY <1>1 DEF Lives, ObjectOf
<1> QED
  BY <1>2 DEF SoughtInv

(* An unused handle is nobody's. *)
LEMMA UnusedIsNobodys ==
    ASSUME TypeOK, HandleInv, AttachedInv, NEW h \in Handles, Unused(h)
    PROVE  /\ h # fileIoHandle
           /\ \A u \in Threads : handle[u] # h
           /\ attached \in Handles => attached # h
BY HandlesAssumption DEF TypeOK, HandleInv, AttachedInv, Unused

(* Freeing the handle of the Python object leaves those of the threads,    *)
(* and marks the one that the library reads through.                       *)
LEMMA FreeingHandles ==
    ASSUME TypeOK, HandleInv, AttachedInv, FreeFileIoHandle(attached)
    PROVE  /\ wraps' \in [Handles -> Files \union {"free", "freed"}]
           /\ \A u \in Threads : handle[u] # Nothing => wraps'[handle[u]] = wraps[handle[u]]
           /\ attached \in Handles => wraps'[attached] = "freed"
           /\ fileIoHandle' = Nothing
<1> USE DEF FreeFileIoHandle
<1>1. CASE fileIoHandle = Nothing
  BY <1>1, HandlesAssumption DEF TypeOK, AttachedInv
<1>2. CASE fileIoHandle # Nothing
  <2>1. fileIoHandle \in Handles
    BY <1>2 DEF TypeOK
  <2>2. wraps' = [wraps EXCEPT ![fileIoHandle] =
                        IF attached = fileIoHandle THEN "freed" ELSE "free"]
    BY <1>2 DEF FreeHandle
  <2>3. wraps' \in [Handles -> Files \union {"free", "freed"}]
    BY <2>2 DEF TypeOK
  <2>4. ASSUME NEW u \in Threads, handle[u] # Nothing
        PROVE  wraps'[handle[u]] = wraps[handle[u]]
    <3>1. handle[u] \in Handles /\ handle[u] # fileIoHandle
      BY <2>4, <1>2 DEF TypeOK, HandleInv
    <3> QED
      BY <3>1, <2>2 DEF TypeOK
  <2>5. attached \in Handles => wraps'[attached] = "freed"
    BY <2>1, <2>2 DEF TypeOK, AttachedInv
  <2> QED
    BY <2>3, <2>4, <2>5
<1> QED
  BY <1>1, <1>2

(* ... and so does no harm to who reads through another. *)
LEMMA FreeingIsSafe ==
    ASSUME TypeOK, CallInv, HandleInv, AttachedInv, SoughtInv,
           FreeFileIoHandle(attached), UNCHANGED <<attached, volume>>, handle' = handle,
           \A u \in Threads : pc'[u] = "sought" =>
                /\ pc[u] = "sought" /\ offset'[u] = offset[u] /\ call'[u] = call[u]
                /\ call[u] # "open_file_object"
    PROVE  HandleInv' /\ AttachedInv' /\ SoughtInv'
<1>1. /\ wraps' \in [Handles -> Files \union {"free", "freed"}]
      /\ \A u \in Threads : handle[u] # Nothing => wraps'[handle[u]] = wraps[handle[u]]
      /\ attached \in Handles => wraps'[attached] = "freed"
      /\ fileIoHandle' = Nothing
  BY FreeingHandles
<1>2. HandleInv'
  BY <1>1 DEF HandleInv
<1>3. AttachedInv'
  BY <1>1 DEF AttachedInv
<1>4. UNCHANGED objects
  BY DEF FreeFileIoHandle
<1>5. ASSUME NEW u \in Threads, pc'[u] = "sought", Lives(u)'
      PROVE  HandleOf(u)' = HandleOf(u) /\ wraps'[HandleOf(u)] = wraps[HandleOf(u)]
  <2>1. call'[u] = call[u] /\ call[u] # "open_file_object"
    BY <1>5
  <2>2. CASE call[u] = "check_signature"
    BY <2>1, <2>2, <1>1 DEF HandleOf, CallInv
  <2>3. CASE call[u] # "check_signature"
    <3>1. HandleOf(u)' = attached
      BY <2>1, <2>3 DEF HandleOf
    <3>2. attached \in Handles /\ wraps'[attached] \in Files
      BY <3>1, <1>5 DEF Lives
    <3> QED
      BY <3>2, <1>1, HandlesAssumption
  <2> QED
    BY <2>2, <2>3
<1>6. SoughtInv'
  BY <1>4, <1>5, SoughtUnlessFreed
<1> QED
  BY <1>2, <1>3, <1>6

LEMMA InitializeIInv ==
    ASSUME IInv, NEW t \in Threads, Initialize(t)
    PROVE  IInv'
<1> USE DEF IInv, Initialize, request, files, history
<1>1. TypeOK'
  BY DEF TypeOK, LifeCycle!States, LifeCycle!Initialize
<1>2. GilInv' /\ LockInv' /\ CallInv'
  BY DEF GilInv, LockInv, CallInv
<1>3. attached \notin Handles
  BY DEF AttachedInv, LifeCycle!Initialize
<1>4. HandleInv' /\ AttachedInv'
  BY <1>3 DEF HandleInv, AttachedInv
<1>5. SoughtInv'
  <2>1. ASSUME NEW u \in Threads, pc'[u] = "sought", Lives(u)'
        PROVE  HandleOf(u)' = HandleOf(u)
    <3>1. CASE call[u] = "open_file_object"
      <4>1. HandleOf(u)' = Nothing
        BY <3>1 DEF HandleOf
      <4> QED
        BY <4>1, <2>1, HandlesAssumption DEF Lives
    <3>2. CASE call[u] # "open_file_object"
      BY <3>2 DEF HandleOf
    <3> QED
      BY <3>1, <3>2
  <2> QED
    BY <2>1, SoughtUnlessFreed
<1>6. NeverReopens => OpenInv'
  BY <1>3 DEF Careful, OpenInv
<1>7. ProtectorInv' /\ (NeverAsksClosed => AskInv')
  BY CallsEnd DEF Careful
<1> QED
  BY <1>1, <1>2, <1>4, <1>5, <1>6, <1>7 DEF Careful

(* A new handle for a file object that no other has.                       *)
LEMMA NewHandle ==
    ASSUME TypeOK, HandleInv, AttachedInv, NEW h \in Handles, NEW f \in Files,
           InitializeHandle(h, f)
    PROVE  /\ wraps' \in [Handles -> Files \union {"free", "freed"}]
           /\ wraps'[h] = f
           /\ \A g \in Handles \ {h} : wraps'[g] = wraps[g]
           /\ h # fileIoHandle
           /\ \A u \in Threads : handle[u] # h
           /\ attached \in Handles => attached # h
<1>1. Unused(h)
  BY DEF InitializeHandle
<1> QED
  BY <1>1, UnusedIsNobodys DEF TypeOK, InitializeHandle

LEMMA OpenFileObjectIInv ==
    ASSUME IInv, NEW t \in Threads, OpenFileObject(t)
    PROVE  IInv'
<1> USE DEF IInv, library, history
<1>0. t = Owner /\ Running(t) /\ UNCHANGED <<lock, volume, attached, misused, misread>>
  BY DEF OpenFileObject
<1>1. ASSUME NEW h \in Handles, NEW f \in Files, f \notin Checked, InitializeHandle(h, f),
             fileIoHandle = Nothing, fileIoHandle' = h,
             EnterLibrary(t, "open_file_object", 1, 0, Nothing),
             UNCHANGED <<objects, protector, parents, iterator>>, HasVolume
      PROVE  IInv'
  <2>1. /\ wraps' \in [Handles -> Files \union {"free", "freed"}]
        /\ wraps'[h] = f
        /\ \A g \in Handles \ {h} : wraps'[g] = wraps[g]
        /\ \A u \in Threads : handle[u] # h
        /\ attached \in Handles => attached # h
    BY <1>1, NewHandle
  <2>2. 0 \in 0 .. Size - 1 /\ "open_file_object" \in Kinds \ {"none"} /\ 1 \in Int
    BY SizeAssumption DEF Kinds
  <2>3. /\ pc' \in [Threads -> Steps] /\ call' \in [Threads -> Kinds]
        /\ rounds' \in [Threads -> Int] /\ offset' \in [Threads -> 0 .. Size - 1]
        /\ handle' \in [Threads -> Handles \union {Nothing}]
        /\ result' \in [Threads -> Results]
        /\ gil' = Nobody
        /\ GilInv' /\ LockInv' /\ CallInv'
    BY <1>0, <1>1, <2>2, EnterLibraryCore
  <2>4. TypeOK'
    BY <1>0, <1>1, <2>1, <2>3 DEF TypeOK, Results
  <2>5. handle' = handle
    <3>1. handle[t] = Nothing
      BY <1>0 DEF CallInv, Running
    <3> QED
      BY <3>1, <1>1 DEF EnterLibrary, TypeOK
  <2>6. HandleInv'
    <3>1. ASSUME NEW u \in Threads, handle[u] # Nothing
          PROVE  wraps'[handle[u]] = wraps[handle[u]] /\ wraps[handle[u]] # f
      BY <3>1, <2>1, <1>1 DEF TypeOK, Checked
    <3> QED
      BY <3>1, <2>1, <2>5, <1>1 DEF HandleInv
  <2>7. AttachedInv'
    BY <2>1, <1>0, <1>1, HandlesAssumption DEF AttachedInv, TypeOK
  <2>8. SoughtInv'
    <3>1. ASSUME NEW u \in Threads, pc'[u] = "sought"
          PROVE  /\ u # t /\ pc[u] = "sought" /\ offset'[u] = offset[u] /\ call'[u] = call[u]
                 /\ call[u] # "open_file_object"
      <4>1. u # t
        BY <3>1, <1>1 DEF EnterLibrary, TypeOK
      <4>2. pc[u] = "sought" /\ offset'[u] = offset[u] /\ call'[u] = call[u]
        BY <3>1, <4>1, <1>1 DEF EnterLibrary, TypeOK
      <4> QED
        BY <4>1, <4>2, <1>0 DEF CallInv, OwnerCalls
    <3>2. ASSUME NEW u \in Threads, pc'[u] = "sought", Lives(u)'
          PROVE  HandleOf(u)' = HandleOf(u) /\ wraps'[HandleOf(u)] = wraps[HandleOf(u)]
      <4>1. HandleOf(u)' = HandleOf(u)
        BY <3>1, <3>2, <2>5, <1>0 DEF HandleOf
      <4>2. HandleOf(u) \in Handles
        BY <4>1, <3>2 DEF Lives
      <4>3. HandleOf(u) # h
        BY <4>2, <3>1, <3>2, <2>1 DEF HandleOf
      <4> QED
        BY <4>1, <4>2, <4>3, <2>1
    <3> QED
      BY <3>1, <3>2, <1>1, SoughtUnlessFreed
  <2>9. NeverReopens => OpenInv'
    <3>1. NeverReopens => attached \notin Handles
      BY <1>1, HandlesAssumption DEF Careful, OpenInv
    <3>2. ASSUME NEW u \in Threads, u # t
          PROVE  /\ call'[u] = call[u] /\ pc'[u] = pc[u] /\ result'[u] = result[u]
                 /\ rounds'[u] = rounds[u]
      BY <3>2, <1>1 DEF EnterLibrary, TypeOK
    <3>3. call'[t] = "open_file_object" /\ pc'[t] = "entering"
      BY <1>1 DEF EnterLibrary, TypeOK
    <3> QED
      BY <3>1, <3>2, <3>3, <1>0 DEF Careful, OpenInv, CallingBack
  <2>10. ProtectorInv' /\ (NeverAsksClosed => AskInv')
    <3>1. /\ "open_file_object" \in Kinds \ {"none"}
          /\ "open_file_object" \notin OfProtector /\ "open_file_object" \notin Drops
          /\ \A u \in Threads : call[u] \notin Drops
      BY <1>1 DEF Kinds, OfProtector, Drops, HasVolume
    <3>2. call' = [call EXCEPT ![t] = "open_file_object"]
      BY <1>1 DEF EnterLibrary
    <3> QED
      BY <1>0, <1>1, <3>1, <3>2, CallBegins
  <2> QED
    BY <2>3, <2>4, <2>6, <2>7, <2>8, <2>9, <2>10, <1>0 DEF Careful
<1>2. CASE Raise(t) /\ UNCHANGED <<wraps, objects, python>>
  <2>1. UNCHANGED <<gil, pc, call, rounds, offset, handle, result, wraps, objects,
                    fileIoHandle, protector, parents, iterator>>
    BY <1>2 DEF Raise, request, python
  <2>2. TypeOK' /\ GilInv' /\ LockInv' /\ CallInv' /\ HandleInv' /\ AttachedInv'
    BY <1>0, <2>1 DEF TypeOK, GilInv, LockInv, CallInv, HandleInv, AttachedInv
  <2>3. SoughtInv'
    BY <1>0, <2>1, SoughtFrame
  <2>4. NeverReopens => OpenInv'
    BY <1>0, <2>1 DEF Careful, OpenInv
  <2>5. ProtectorInv' /\ (NeverAsksClosed => AskInv')
    BY <1>0, <2>1, CallsEnd DEF Careful
  <2> QED
    BY <2>2, <2>3, <2>4, <2>5, <1>0 DEF Careful
<1>3. CASE ~NeverReopens /\ FreeFileIoHandle(attached) /\ Raise(t)
  <2>1. UNCHANGED <<gil, pc, call, rounds, offset, handle, result>>
    BY <1>3 DEF Raise, request
  <2>2. /\ wraps' \in [Handles -> Files \union {"free", "freed"}]
        /\ fileIoHandle' = Nothing /\ UNCHANGED <<objects, protector, parents, iterator>>
    BY <1>3, FreeingHandles DEF FreeFileIoHandle
  <2>3. TypeOK' /\ GilInv' /\ LockInv' /\ CallInv'
    BY <1>0, <2>1, <2>2 DEF TypeOK, GilInv, LockInv, CallInv
  <2>4. \A u \in Threads : pc'[u] = "sought" => call[u] # "open_file_object"
    BY <1>0, <2>1 DEF CallInv, OwnerCalls, Running
  <2>5. HandleInv' /\ AttachedInv' /\ SoughtInv'
    BY <1>0, <1>3, <2>1, <2>4, FreeingIsSafe
  <2>6. ProtectorInv' /\ (NeverAsksClosed => AskInv')
    BY <1>0, <2>1, <2>2, CallsEnd DEF Careful
  <2> QED
    BY <2>3, <2>5, <2>6, <1>0, <1>3 DEF Careful
<1> QED
  BY <1>1, <1>2, <1>3 DEF OpenFileObject, NeverReopens

LEMMA CheckVolumeSignatureIInv ==
    ASSUME IInv, NEW t \in Threads, CheckVolumeSignature(t)
    PROVE  IInv'
<1> USE DEF IInv, library, python, history
<1>0. Running(t) /\ UNCHANGED <<lock, volume, attached, objects, fileIoHandle, protector,
                                parents, iterator, misused, misread>>
  BY DEF CheckVolumeSignature
<1> PICK h \in Handles, f \in Files :
        /\ f \notin Checked \union Attached
        /\ InitializeHandle(h, f)
        /\ EnterLibrary(t, "check_signature", 1, 0, h)
  BY DEF CheckVolumeSignature
<1>1. /\ wraps' \in [Handles -> Files \union {"free", "freed"}]
      /\ wraps'[h] = f
      /\ \A g \in Handles \ {h} : wraps'[g] = wraps[g]
      /\ h # fileIoHandle
      /\ \A u \in Threads : handle[u] # h
      /\ attached \in Handles => attached # h
  BY NewHandle
<1>2. 0 \in 0 .. Size - 1 /\ "check_signature" \in Kinds \ {"none"} /\ 1 \in Int
      /\ h # Nothing /\ h \in Handles \union {Nothing}
  BY SizeAssumption, HandlesAssumption DEF Kinds
<1>3. /\ pc' \in [Threads -> Steps] /\ call' \in [Threads -> Kinds]
      /\ rounds' \in [Threads -> Int] /\ offset' \in [Threads -> 0 .. Size - 1]
      /\ handle' \in [Threads -> Handles \union {Nothing}]
      /\ result' \in [Threads -> Results]
      /\ gil' = Nobody
      /\ GilInv' /\ LockInv' /\ CallInv'
  BY <1>0, <1>2, EnterLibraryCore DEF OwnerCalls
<1>4. TypeOK'
  BY <1>0, <1>1, <1>3 DEF TypeOK, Results
<1>5. handle'[t] = h /\ \A u \in Threads \ {t} : handle'[u] = handle[u]
  BY DEF EnterLibrary, TypeOK
<1>6. HandleInv'
  <2>1. ASSUME NEW u \in Threads, u # t, handle[u] # Nothing
        PROVE  wraps'[handle[u]] = wraps[handle[u]] /\ wraps[handle[u]] # f
    BY <2>1, <1>1 DEF TypeOK, Checked
  <2>2. fileIoHandle # Nothing =>
            wraps'[fileIoHandle] = wraps[fileIoHandle] /\ wraps[fileIoHandle] # f
    BY <1>1 DEF TypeOK, Attached
  <2> QED
    BY <2>1, <2>2, <1>0, <1>1, <1>5 DEF HandleInv
<1>7. AttachedInv'
  BY <1>0, <1>1 DEF AttachedInv
<1>8. SoughtInv'
  <2>1. ASSUME NEW u \in Threads, pc'[u] = "sought"
        PROVE  /\ u # t /\ pc[u] = "sought" /\ offset'[u] = offset[u] /\ call'[u] = call[u]
    <3>1. u # t
      BY <2>1 DEF EnterLibrary, TypeOK
    <3> QED
      BY <3>1, <2>1 DEF EnterLibrary, TypeOK
  <2>2. ASSUME NEW u \in Threads, pc'[u] = "sought", Lives(u)'
        PROVE  HandleOf(u)' = HandleOf(u) /\ wraps'[HandleOf(u)] = wraps[HandleOf(u)]
    <3>1. HandleOf(u)' = HandleOf(u)
      BY <2>1, <2>2, <1>5, <1>0 DEF HandleOf
    <3>2. HandleOf(u) \in Handles
      BY <3>1, <2>2 DEF Lives
    <3>3. HandleOf(u) # h
      BY <3>2, <2>1, <2>2, <1>1 DEF HandleOf
    <3> QED
      BY <3>1, <3>2, <3>3, <1>1
  <2> QED
    BY <2>1, <2>2, <1>0, SoughtUnlessFreed
<1>9. NeverReopens => OpenInv'
  <2>1. ASSUME NEW u \in Threads, u # t
        PROVE  /\ call'[u] = call[u] /\ pc'[u] = pc[u] /\ result'[u] = result[u]
               /\ rounds'[u] = rounds[u]
    BY <2>1 DEF EnterLibrary, TypeOK
  <2>2. call'[t] = "check_signature" /\ pc'[t] = "entering"
    BY DEF EnterLibrary, TypeOK
  <2> QED
    BY <2>1, <2>2, <1>0 DEF Careful, OpenInv
<1>10. ProtectorInv' /\ (NeverAsksClosed => AskInv')
  <2>1. call' = [call EXCEPT ![t] = "check_signature"]
    BY DEF EnterLibrary
  <2>2. "check_signature" \notin Drops
    BY DEF Drops
  <2> QED
    BY <2>1, <2>2, <1>0, <1>2, CallBegins
<1> QED
  BY <1>0, <1>3, <1>4, <1>6, <1>7, <1>8, <1>9, <1>10 DEF Careful

-----------------------------------------------------------------------------
(* Key protectors                                                          *)

(* What only concerns the key protectors keeps all but what is said of     *)
(* them.                                                                   *)
LEMMA ProtectorFrame ==
    ASSUME IInv, UNCHANGED <<gil, pc, request, library, files, fileIoHandle, misread>>,
           protector' \in {"none", "usable", "closed", "freed"}, parents' \in Int,
           iterator' \in Nat \union {Nothing}
    PROVE  /\ TypeOK' /\ GilInv' /\ LockInv' /\ CallInv' /\ HandleInv' /\ AttachedInv'
           /\ SoughtInv' /\ ~misread' /\ (NeverReopens /\ "handle" \notin misused' => OpenInv')
<1> USE DEF IInv, request, library, files
<1>1. TypeOK'
  BY DEF TypeOK
<1>2. GilInv' /\ LockInv' /\ CallInv' /\ HandleInv' /\ AttachedInv'
  BY DEF GilInv, LockInv, CallInv, HandleInv, AttachedInv
<1>3. SoughtInv'
  BY SoughtFrame
<1>4. NeverReopens /\ "handle" \notin misused' => OpenInv'
  BY DEF Careful, OpenInv
<1> QED
  BY <1>1, <1>2, <1>3, <1>4

LEMMA FreeKeyProtectorsIInv ==
    ASSUME IInv, NEW t \in Threads, FreeKeyProtectors(t)
    PROVE  IInv'
<1>1. /\ parents' \in Int /\ iterator' = Nothing
      /\ UNCHANGED <<protector, call, misused, misread>>
  BY DEF IInv, TypeOK, FreeKeyProtectors, Parent, request, history
<1>2. /\ TypeOK' /\ GilInv' /\ LockInv' /\ CallInv' /\ HandleInv' /\ AttachedInv'
      /\ SoughtInv' /\ ~misread' /\ (NeverReopens => OpenInv')
  BY <1>1, ProtectorFrame DEF IInv, TypeOK, FreeKeyProtectors, Careful, OpenInv
<1>3. ProtectorInv'
  BY <1>1 DEF IInv, Careful, ProtectorInv, TypeOK, FreeKeyProtectors, Parent
<1>4. NeverAsksClosed => AskInv'
  BY <1>1 DEF IInv, Careful, AskInv
<1> QED
  BY <1>2, <1>3, <1>4 DEF IInv, Careful

LEMMA EnterProtectorIInv ==
    ASSUME IInv, NEW t \in Threads, AskKeyProtector(t) \/ FreeKeyProtector(t)
    PROVE  IInv'
<1> PICK kind \in OfProtector :
        /\ EnterProtector(t, kind)
        /\ kind = "free_protector" => ~Under("ask_protector")
        /\ NeverAsksClosed /\ kind = "ask_protector" =>
                protector = "usable" /\ ~Under("close")
  BY DEF AskKeyProtector, FreeKeyProtector, OfProtector, NeverAsksClosed
<1>1. /\ Running(t) /\ EnterLibrary(t, kind, 1, 0, Nothing)
      /\ UNCHANGED <<library, files, python, history>>
      /\ protector # "none" /\ ~Under("free_protector")
  BY DEF EnterProtector
<1>2. /\ kind \in Kinds \ {"none", "check_signature", "open_file_object"}
      /\ kind \notin OwnerCalls /\ kind \notin Drops /\ kind # "close"
      /\ 1 \in Int /\ 0 \in 0 .. Size - 1
  BY SizeAssumption DEF OfProtector, Kinds, OwnerCalls, Drops
<1>3. call' = [call EXCEPT ![t] = kind] /\ UNCHANGED <<protector, parents, iterator, misused>>
  BY <1>1 DEF EnterLibrary, python, history
<1>4. ProtectorInv' /\ (NeverAsksClosed => AskInv')
  BY <1>1, <1>2, <1>3, CallBegins
<1> QED
  BY <1>1, <1>2, <1>4, EnterCallIInv

-----------------------------------------------------------------------------
(* The library                                                             *)

LEMMA LockIInv ==
    ASSUME IInv, NEW t \in Threads, Lock(t)
    PROVE  IInv'
<1> USE DEF IInv, Lock, Move, request, files, python, history
<1>1. TypeOK'
  BY DEF TypeOK, Steps
<1>2. GilInv'
  BY DEF GilInv, TypeOK
<1>3. LockInv'
  BY ThreadsAssumption DEF LockInv, TypeOK, InLibrary
<1>4. CallInv'
  BY DEF CallInv, TypeOK, CallingBack
<1>5. HandleInv' /\ AttachedInv'
  BY DEF HandleInv, AttachedInv
<1>6. SoughtInv'
  BY SoughtFrame DEF TypeOK
<1>7. NeverReopens => OpenInv'
  BY DEF Careful, OpenInv, TypeOK, CallingBack
<1>8. ProtectorInv' /\ (NeverAsksClosed => AskInv')
  BY CallsEnd DEF Careful
<1> QED
  BY <1>1, <1>2, <1>3, <1>4, <1>5, <1>6, <1>7, <1>8 DEF Careful

(* Using a key uses none that was freed with its volume, and in a careful  *)
(* program none that was freed by a close.                                 *)
LEMMA UseKeyIInv ==
    ASSUME IInv, NEW t \in Threads, UseKey(t)
    PROVE  IInv'
<1> USE DEF IInv, UseKey, Move, request, library, files, python
<1>1. TypeOK'
  BY DEF TypeOK, Steps
<1>2. GilInv'
  BY DEF GilInv, TypeOK
<1>3. LockInv'
  BY DEF LockInv, TypeOK, InLibrary
<1>4. CallInv'
  BY DEF CallInv, TypeOK, CallingBack
<1>5. HandleInv' /\ AttachedInv'
  BY DEF HandleInv, AttachedInv
<1>6. SoughtInv'
  BY SoughtFrame DEF TypeOK
<1>7. protector # "freed" /\ misused' = misused \union ({protector} \intersect {"closed"})
  BY DEF Careful, ProtectorInv
<1>8. NeverReopens => OpenInv'
  BY <1>7 DEF Careful, OpenInv, TypeOK, CallingBack
<1>9. ProtectorInv'
  BY <1>7 DEF Careful, ProtectorInv
<1>10. NeverAsksClosed => AskInv'
  BY <1>7 DEF Careful, AskInv
<1> QED
  BY <1>1, <1>2, <1>3, <1>4, <1>5, <1>6, <1>8, <1>9, <1>10 DEF Careful

-----------------------------------------------------------------------------
(* Calling back                                                            *)

FileObject == [position : 0 .. Size, size : {Size}, hasGetSize : BOOLEAN]

(* A seek that succeeds has the object where it was sought. *)
LEMMA SeekKeeps ==
    ASSUME NEW object \in FileObject, NEW from \in 0 .. Size - 1, NEW broken
    PROVE  /\ HandleSeekOffset(object, from, "set", broken).object \in FileObject
           /\ HandleSeekOffset(object, from, "set", broken).status # Failure =>
                HandleSeekOffset(object, from, "set", broken).object.position = from
<1> DEFINE sought == SeekOffset(object, from, "set", broken)
<1>1. Target(object, from, "set") = from
  BY DEF Target
<1>2. CASE "seek" \in broken
  <2>1. sought = Told(object, Failure, Unwritten)
    BY <1>2 DEF SeekOffset
  <2>2. HandleSeekOffset(object, from, "set", broken) = sought
    BY <2>1 DEF HandleSeekOffset, Told
  <2> QED
    BY <2>1, <2>2 DEF Told
<1>3. CASE "seek" \notin broken
  <2> DEFINE moved == [object EXCEPT !.position = from]
  <2>1. sought = Told(moved, 1, from)
    BY <1>1, <1>3, SizeAssumption DEF SeekOffset
  <2>2. moved \in FileObject /\ moved.position = from
    BY SizeAssumption DEF FileObject
  <2>3. HandleSeekOffset(object, from, "set", broken) = GetOffset(moved, broken)
    BY <2>1 DEF HandleSeekOffset, Told, Failure
  <2>4. GetOffset(moved, broken).object = moved
    BY DEF GetOffset, Told
  <2> QED
    BY <2>2, <2>3, <2>4
<1> QED
  BY <1>2, <1>3

(* Asking for the size leaves the object inside the file.                  *)
LEMMA SizeKeeps ==
    ASSUME NEW object \in FileObject, NEW broken
    PROVE  HandleGetSize(object, broken).object \in FileObject
<1>1. CASE object.hasGetSize
  BY <1>1 DEF HandleGetSize, GetSizeByMethod, SizeFailed, Told
<1>2. CASE ~object.hasGetSize
  <2> DEFINE here == GetOffset(object, broken)
             atEnd == SeekOffset(object, 0, "end", broken)
             backBroken == {"seek" : b \in broken \intersect {"seek_back"}}
             back == SeekOffset(atEnd.object, here.value, "set", backBroken)
  <2>1. here = Told(object, Failure, Unwritten) \/ here = Told(object, 1, object.position)
    BY DEF GetOffset
  <2>2. atEnd = Told(object, Failure, Unwritten)
        \/ atEnd = Told([object EXCEPT !.position = Size], 1, 0)
    <3>1. Target(object, 0, "end") = Size
      BY SizeAssumption DEF Target, FileObject
    <3> QED
      BY <3>1 DEF SeekOffset
  <2>3. atEnd.object \in FileObject
    BY <2>2, SizeAssumption DEF FileObject, Told
  <2>4. here.status # Failure => here.value \in 0 .. Size
    BY <2>1 DEF FileObject, Told, Failure
  <2>5. ASSUME here.status # Failure
        PROVE  back.object \in FileObject
    <3>1. Target(atEnd.object, here.value, "set") = here.value
      BY DEF Target
    <3>2. back = Told(atEnd.object, Failure, Unwritten)
          \/ back = Told([atEnd.object EXCEPT !.position = here.value], 1, here.value)
      BY <3>1 DEF SeekOffset
    <3>3. [atEnd.object EXCEPT !.position = here.value] \in FileObject
      BY <2>3, <2>4, <2>5 DEF FileObject
    <3> HIDE DEF here, atEnd, back
    <3> QED
      BY <2>3, <3>2, <3>3 DEF Told
  <2>6. GetSizeBySeeking(object, broken).object \in {object, back.object}
        /\ (here.status = Failure => GetSizeBySeeking(object, broken).object = object)
    BY DEF GetSizeBySeeking, SizeFailed, Told
  <2>7. HandleGetSize(object, broken) = GetSizeBySeeking(object, broken)
    BY <1>2 DEF HandleGetSize
  <2> HIDE DEF here, back
  <2> QED
    BY <2>5, <2>6, <2>7
<1> QED
  BY <1>1, <1>2 DEF FileObject

(* Reading ends at the end of the file. *)
LEMMA ReadKeeps ==
    ASSUME NEW object \in FileObject, NEW broken
    PROVE  ReadBuffer(object, 1, broken).object \in FileObject
<1> DEFINE count == Max2(0, Min2(1, object.size - object.position))
<1>1. count \in 0 .. 1 /\ object.position + count \in 0 .. Size
  BY SizeAssumption DEF FileObject, Max2, Min2
<1>2. [object EXCEPT !.position = @ + count] \in FileObject
  BY <1>1 DEF FileObject
<1>3. \/ ReadBuffer(object, 1, broken) = Told(object, Failure, Unwritten)
      \/ ReadBuffer(object, 1, broken) =
            Told([object EXCEPT !.position = @ + count], count, object.position)
  BY DEF ReadBuffer
<1> HIDE DEF count
<1> QED
  BY <1>2, <1>3 DEF Told

(* Two threads in the library never have the same file object at hand.     *)
LEMMA OthersObject ==
    ASSUME IInv, NEW t \in Threads, NEW u \in Threads \ {t},
           pc[t] \in InLibrary, pc[u] \in InLibrary,
           call[t] \in Readers, call[u] \in Readers, Lives(t), Lives(u)
    PROVE  wraps[HandleOf(t)] # wraps[HandleOf(u)]
<1> USE DEF IInv
<1>1. call[t] = "check_signature" \/ call[u] = "check_signature"
  BY DEF LockInv, TakesLock, Lockless, Readers
<1>2. ASSUME NEW v \in Threads, Lives(v), call[v] # "check_signature"
      PROVE  HandleOf(v) = fileIoHandle /\ fileIoHandle # Nothing
  <2>1. HandleOf(v) \in {fileIoHandle, attached}
    BY <1>2 DEF HandleOf
  <2>2. HandleOf(v) \in Handles /\ wraps[HandleOf(v)] \in Files
    BY <1>2 DEF Lives
  <2> QED
    BY <2>1, <2>2, HandlesAssumption DEF AttachedInv
<1>3. ASSUME NEW v \in Threads, call[v] = "check_signature"
      PROVE  HandleOf(v) = handle[v] /\ handle[v] # Nothing
  BY <1>3 DEF HandleOf, CallInv
<1>4. CASE call[t] = "check_signature" /\ call[u] = "check_signature"
  BY <1>3, <1>4 DEF HandleInv
<1>5. CASE call[t] = "check_signature" /\ call[u] # "check_signature"
  BY <1>2, <1>3, <1>5 DEF HandleInv
<1>6. CASE call[t] # "check_signature" /\ call[u] = "check_signature"
  BY <1>2, <1>3, <1>6 DEF HandleInv
<1> QED
  BY <1>1, <1>4, <1>5, <1>6

(* A call back moves one object and one thread. When it goes on to read,   *)
(* the object is where the thread reads.                                   *)
LEMMA CallBackIInv ==
    ASSUME IInv, NEW t \in Threads, NEW outcomes,
           NEW next \in {"sizing", "reseek", "sought", "answering"},
           pc[t] \in CallingBack \/ (pc[t] = "library" /\ Reads(t)),
           CallBack(t, outcomes, next),
           ~misread',
           Lives(t) => \A told \in outcomes :
                /\ told.object \in FileObject
                /\ told.status # Failure /\ next = "sought" => told.object.position = offset[t]
    PROVE  IInv'
<1> USE DEF IInv, library, python
<1>1. /\ UNCHANGED <<gil, lock, volume, attached, wraps, fileIoHandle, protector, parents,
                     iterator, call, rounds, offset, handle>>
      /\ result' \in [Threads -> Results]
      /\ \A u \in Threads \ {t} : result'[u] = result[u]
  BY DEF CallBack, Answered, TypeOK, Results, request
<1>2. \E step \in {"sizing", "reseek", "sought", "answering"} : pc' = [pc EXCEPT ![t] = step]
  BY DEF CallBack, Move
<1>3. call[t] \in Readers /\ pc[t] \in InLibrary
  BY DEF CallInv, InLibrary, CallingBack, Reads, Readers
<1>4. /\ pc' \in [Threads -> Steps]
      /\ pc'[t] \in {"sizing", "reseek", "sought", "answering"}
      /\ \A u \in Threads \ {t} : pc'[u] = pc[u]
  BY <1>2 DEF TypeOK, Steps
<1>5. objects' \in [Files -> FileObject]
  BY DEF CallBack, TypeOK, FileObject, Lives
<1>6. TypeOK'
  BY <1>1, <1>4, <1>5 DEF TypeOK, FileObject, Results
<1>7. GilInv' /\ LockInv'
  BY <1>1, <1>3, <1>4 DEF GilInv, LockInv, InLibrary
<1>8. CallInv'
  BY <1>1, <1>3, <1>4 DEF CallInv, InLibrary, Readers
<1>9. HandleInv' /\ AttachedInv'
  BY <1>1 DEF HandleInv, AttachedInv
<1>10. \A u \in Threads : HandleOf(u)' = HandleOf(u) /\ Lives(u)' = Lives(u)
  BY <1>1 DEF HandleOf, Lives
<1>11. SoughtInv'
  <2> SUFFICES ASSUME NEW u \in Threads, (pc[u] = "sought" /\ Lives(u))'
               PROVE  (ObjectOf(u).position = offset[u])'
    BY DEF SoughtInv
  <2>1. CASE u = t
    <3>1. Lives(t)
      BY <2>1, <1>10
    <3>2. PICK told \in outcomes :
            /\ objects' = [objects EXCEPT ![wraps[HandleOf(t)]] = told.object]
            /\ IF told.status = Failure
               THEN Answered(t, "error") /\ Move(t, "answering")
               ELSE UNCHANGED request /\ Move(t, next)
      BY <3>1 DEF CallBack
    <3>3. told.status # Failure /\ next = "sought"
      BY <2>1, <3>2 DEF Move, TypeOK
    <3>4. told.object.position = offset[t]
      BY <3>1, <3>3
    <3>5. objects'[wraps[HandleOf(t)]] = told.object
      BY <3>1, <3>2 DEF TypeOK, Lives
    <3>6. ObjectOf(t)' = told.object
      BY <3>5, <1>1, <1>10 DEF ObjectOf
    <3> QED
      BY <2>1, <3>4, <3>6, <1>1
  <2>2. CASE u # t
    <3>1. pc[u] = "sought" /\ Lives(u) /\ call[u] \in Readers
      BY <2>2, <1>4, <1>10 DEF CallInv, CallingBack
    <3>2. objects'[wraps[HandleOf(u)]] = objects[wraps[HandleOf(u)]]
      <4>1. CASE Lives(t)
        <5>1. wraps[HandleOf(t)] # wraps[HandleOf(u)]
          BY <4>1, <3>1, <2>2, <1>3, OthersObject DEF InLibrary
        <5> QED
          BY <4>1, <5>1, <3>1 DEF CallBack, TypeOK, Lives
      <4>2. CASE ~Lives(t)
        BY <4>2 DEF CallBack
      <4> QED
        BY <4>1, <4>2
    <3>3. ObjectOf(u)' = ObjectOf(u)
      BY <3>2, <1>1, <1>10 DEF ObjectOf
    <3> QED
      BY <3>1, <3>3, <1>1 DEF SoughtInv
  <2> QED
    BY <2>1, <2>2
<1>12. ASSUME NeverReopens
       PROVE  OpenInv'
  <2>1. OpenInv
    BY <1>12 DEF Careful
  <2>2. call[t] \in {"unlock", "read"} => attached \in Handles
    BY <2>1 DEF OpenInv, Reads, CallingBack
  <2>3. HandleOf(t) = Nothing \/ Lives(t)
    <3>1. CASE call[t] = "open_file_object"
      BY <3>1 DEF HandleOf, Lives, HandleInv, TypeOK
    <3>2. CASE call[t] = "check_signature"
      BY <3>2 DEF HandleOf, Lives, HandleInv, TypeOK
    <3>3. CASE call[t] \in {"unlock", "read"}
      <4>1. HandleOf(t) = fileIoHandle /\ fileIoHandle \in Handles
        BY <3>3, <2>1, <2>2 DEF HandleOf, OpenInv
      <4> QED
        BY <4>1, HandlesAssumption DEF Lives, HandleInv
    <3> QED
      BY <3>1, <3>2, <3>3, <1>3 DEF Readers
  <2>4. misused' = misused
    BY <2>3 DEF CallBack
  <2>5. \A u \in Threads \ {t} : pc'[u] = pc[u] /\ result'[u] = result[u]
    BY <1>1, <1>4
  <2>6. call[t] \notin {"close", "close_and_free"} /\ pc[t] # "returning" /\ pc'[t] # "returning"
    BY <1>3, <1>4 DEF Readers, InLibrary
  <2> QED
    BY <2>1, <2>2, <2>4, <2>5, <2>6, <1>1 DEF OpenInv
<1>13. ProtectorInv' /\ (NeverAsksClosed => AskInv')
  <2>1. misused' \in {misused, misused \union {"handle"}}
    BY DEF CallBack
  <2> QED
    BY <1>1, <2>1, CallsEnd DEF Careful
<1> QED
  BY <1>6, <1>7, <1>8, <1>9, <1>11, <1>12, <1>13 DEF Careful

LEMMA SeekIInv ==
    ASSUME IInv, NEW t \in Threads, Seek(t) \/ SeekAgain(t)
    PROVE  IInv'
<1> DEFINE outcomes == {HandleSeekOffset(ObjectOf(t), offset[t], "set", broken) :
                            broken \in {{}, {"seek"}, {"tell"}}}
<1>1. Lives(t) => \A told \in outcomes :
            /\ told.object \in FileObject
            /\ told.status # Failure => told.object.position = offset[t]
  <2>1. Lives(t) => ObjectOf(t) \in FileObject
    BY DEF IInv, TypeOK, ObjectOf, Lives, FileObject
  <2>2. offset[t] \in 0 .. Size - 1
    BY DEF IInv, TypeOK
  <2> QED
    BY <2>1, <2>2, SeekKeeps
<1>2. ~misread'
  BY DEF IInv, Seek, SeekAgain
<1>3. CASE Seek(t)
  <2>1. PICK next \in {"sizing", "sought"} : CallBack(t, outcomes, next)
    BY <1>3 DEF Seek
  <2>2. pc[t] = "library" /\ Reads(t)
    BY <1>3 DEF Seek
  <2> HIDE DEF outcomes
  <2> QED
    BY <1>1, <1>2, <2>1, <2>2, CallBackIInv
<1>4. CASE SeekAgain(t)
  <2>1. CallBack(t, outcomes, "sought") /\ pc[t] \in CallingBack
    BY <1>4 DEF SeekAgain, CallingBack
  <2> HIDE DEF outcomes
  <2> QED
    BY <1>1, <1>2, <2>1, CallBackIInv
<1> QED
  BY <1>3, <1>4

LEMMA AskSizeIInv ==
    ASSUME IInv, NEW t \in Threads, AskSize(t)
    PROVE  IInv'
<1> DEFINE outcomes == {HandleGetSize(ObjectOf(t), broken) :
                            broken \in {{}} \union {{m} : m \in Methods}}
<1>1. Lives(t) => \A told \in outcomes : told.object \in FileObject
  <2>1. Lives(t) => ObjectOf(t) \in FileObject
    BY DEF IInv, TypeOK, ObjectOf, Lives, FileObject
  <2> QED
    BY <2>1, SizeKeeps
<1>2. ~misread' /\ CallBack(t, outcomes, "reseek") /\ pc[t] \in CallingBack
  BY DEF IInv, AskSize, CallingBack
<1> HIDE DEF outcomes
<1> QED
  BY <1>1, <1>2, CallBackIInv

LEMMA ReadIInv ==
    ASSUME IInv, NEW t \in Threads, Read(t)
    PROVE  IInv'
<1> DEFINE outcomes == {ReadBuffer(ObjectOf(t), 1, broken) : broken \in {{}, {"read"}}}
<1>1. Lives(t) => \A told \in outcomes : told.object \in FileObject
  <2>1. Lives(t) => ObjectOf(t) \in FileObject
    BY DEF IInv, TypeOK, ObjectOf, Lives, FileObject
  <2> QED
    BY <2>1, ReadKeeps
<1>2. ~misread'
  BY DEF IInv, SoughtInv, Read
<1>3. CallBack(t, outcomes, "answering") /\ pc[t] \in CallingBack
  BY DEF Read, CallingBack
<1> HIDE DEF outcomes
<1> QED
  BY <1>1, <1>2, <1>3, CallBackIInv

-----------------------------------------------------------------------------
(* Answering                                                               *)

(* What an answer makes of the volume, the handle it reads through and the *)
(* key protector.                                                          *)
LEMMA AnswerEffects ==
    ASSUME TypeOK, NEW t \in Threads, LibraryAnswers(t),
           attached \in Handles => volume # "absent"
    PROVE  /\ UNCHANGED <<call, rounds, offset, handle>>
           /\ result' \in [Threads -> Results] /\ result'[t] \in {"ok", "error"}
           /\ \A u \in Threads \ {t} :
                result'[u] = result[u] \/ call[u] \in ProtectorMakers
           /\ volume' \in LifeCycle!States
           /\ attached' \in Handles => volume' # "absent"
           /\ attached' \in Handles /\ attached' # attached =>
                /\ call[t] = "open_file_object" /\ attached' = fileIoHandle
                /\ result'[t] = "ok"
           /\ attached' \in {attached, Nothing, "path", fileIoHandle}
           /\ attached' # attached => call[t] \in OwnerCalls
           /\ call[t] = "close" \/ (call[t] = "close_and_free" /\ rounds[t] = 2) =>
                attached' = Nothing \/ result'[t] = "error"
           /\ protector' # protector => call[t] = "close" \/ call[t] \in Drops
           /\ protector' \in {protector, "closed", "freed"}
           /\ protector = "none" => protector' = "none"
           /\ protector' = "freed" => protector = "freed" \/ call[t] \in Drops
           /\ protector' = "none" => protector = "none"
<1> USE DEF Answered, Results, LifeCycle!States, LifeCycle!IsOpen
<1>1. ASSUME NEW through \in {"path", fileIoHandle}, LibraryOpens(t, through),
             \/ call[t] = "open" /\ through = "path"
             \/ call[t] = "open_file_object" /\ through = fileIoHandle
      PROVE  \/ Fails(t)
             \/ /\ UNCHANGED <<call, rounds, offset, handle, protector>>
                /\ result' = [result EXCEPT ![t] = "ok"]
                /\ volume' \in {"locked", "unlocked"}
                /\ attached' = through
  BY <1>1 DEF LibraryOpens, LifeCycle!Open
<1>2. ASSUME LibraryCloses(t)
      PROVE  \/ Fails(t)
             \/ /\ UNCHANGED <<call, rounds, offset, handle>>
                /\ result' \in [Threads -> Results] /\ result'[t] = "ok"
                /\ \A u \in Threads \ {t} :
                     result'[u] = result[u] \/ call[u] \in ProtectorMakers
                /\ volume' = "closed"
                /\ attached' = Nothing
                /\ protector' = IF protector = "usable" THEN "closed" ELSE protector
  <2>1. CASE attached = Nothing
    BY <1>2, <2>1 DEF LibraryCloses
  <2>2. CASE attached # Nothing
    <3>1. result' = [LostOnTheWay EXCEPT ![t] = "ok"]
      BY <1>2, <2>2 DEF LibraryCloses
    <3>2. result' \in [Threads -> Results] /\ result'[t] = "ok"
      BY <3>1 DEF LostOnTheWay, TypeOK
    <3>3. \A u \in Threads \ {t} : result'[u] = result[u] \/ call[u] \in ProtectorMakers
      BY <3>1 DEF LostOnTheWay, GotProtector, ProtectorMakers
    <3> QED
      BY <1>2, <2>2, <3>2, <3>3 DEF LibraryCloses, LifeCycle!Close, Lost
  <2> QED
    BY <2>1, <2>2
<1>3. ASSUME LibraryFrees(t)
      PROVE  /\ UNCHANGED <<call, rounds, offset, handle>>
             /\ result' = [result EXCEPT ![t] = "ok"]
             /\ volume' = "absent"
             /\ attached' = Nothing
             /\ protector' = IF protector = "usable" THEN "freed" ELSE protector
  BY <1>3 DEF LibraryFrees, LifeCycle!Free, Lost
<1>4. ASSUME LibraryUnlocks(t)
      PROVE  \/ Fails(t)
             \/ Works(t)
             \/ /\ UNCHANGED <<call, rounds, offset, handle, attached, protector>>
                /\ result' = [result EXCEPT ![t] = "ok"]
                /\ volume' = "unlocked"
  BY <1>4 DEF LibraryUnlocks, LifeCycle!Unlock
<1>5. CASE call[t] = "open"
  <2>1. LibraryOpens(t, "path")
    BY <1>5 DEF LibraryAnswers
  <2> QED
    BY <1>5, <2>1, <1>1, HandlesAssumption DEF TypeOK, Fails, Same, OwnerCalls
<1>6. CASE call[t] = "open_file_object"
  <2>1. LibraryOpens(t, fileIoHandle)
    BY <1>6 DEF LibraryAnswers
  <2> QED
    BY <1>6, <2>1, <1>1, HandlesAssumption DEF TypeOK, Fails, Same, OwnerCalls
<1>7. CASE call[t] = "close" \/ (call[t] = "close_and_free" /\ rounds[t] = 2)
  <2>1. LibraryCloses(t)
    BY <1>7 DEF LibraryAnswers
  <2> QED
    BY <1>7, <2>1, <1>2, HandlesAssumption DEF TypeOK, Fails, Same, OwnerCalls, Drops
<1>8. CASE call[t] = "free" \/ (call[t] = "close_and_free" /\ rounds[t] = 1)
  <2>1. LibraryFrees(t)
    BY <1>8 DEF LibraryAnswers
  <2> QED
    BY <1>8, <2>1, <1>3, HandlesAssumption DEF TypeOK, OwnerCalls, Drops
<1>9. CASE call[t] = "unlock"
  <2>1. LibraryUnlocks(t)
    BY <1>9 DEF LibraryAnswers
  <2> QED
    BY <1>9, <2>1, <1>4, HandlesAssumption DEF TypeOK, Fails, Works, Same
<1>10. CASE /\ call[t] \notin {"open", "open_file_object", "close", "free", "unlock"}
            /\ ~(call[t] = "close_and_free" /\ rounds[t] \in {1, 2})
  <2>1. Works(t) \/ Fails(t)
    BY <1>10 DEF LibraryAnswers
  <2> QED
    BY <1>10, <2>1 DEF TypeOK, Fails, Works, Same
<1> QED
  BY <1>5, <1>6, <1>7, <1>8, <1>9, <1>10

LEMMA AnswerIInv ==
    ASSUME IInv, NEW t \in Threads, Answer(t)
    PROVE  IInv'
<1> USE DEF IInv, history
<1>1. /\ UNCHANGED <<call, rounds, offset, handle>>
      /\ result' \in [Threads -> Results] /\ result'[t] \in {"ok", "error"}
      /\ \A u \in Threads \ {t} :
           result'[u] = result[u] \/ call[u] \in ProtectorMakers
      /\ volume' \in LifeCycle!States
      /\ attached' \in Handles => volume' # "absent"
      /\ attached' \in Handles /\ attached' # attached =>
           /\ call[t] = "open_file_object" /\ attached' = fileIoHandle
           /\ result'[t] = "ok"
      /\ attached' \in {attached, Nothing, "path", fileIoHandle}
      /\ attached' # attached => call[t] \in OwnerCalls
      /\ call[t] = "close" \/ (call[t] = "close_and_free" /\ rounds[t] = 2) =>
           attached' = Nothing \/ result'[t] = "error"
      /\ protector' # protector => call[t] = "close" \/ call[t] \in Drops
      /\ protector' \in {protector, "closed", "freed"}
      /\ protector = "none" => protector' = "none"
      /\ protector' = "freed" => protector = "freed" \/ call[t] \in Drops
      /\ protector' = "none" => protector = "none"
  <2>1. LibraryAnswers(t) /\ (attached \in Handles => volume # "absent")
    BY DEF Answer, AttachedInv
  <2> QED
    BY <2>1, AnswerEffects
<1>2. /\ UNCHANGED <<gil, objects, fileIoHandle, parents, iterator, misused, misread>>
      /\ lock' = IF TakesLock(call[t]) THEN Nobody ELSE lock
      /\ pc[t] \in InLibrary
      /\ pc' = [pc EXCEPT ![t] = "returning"]
  BY DEF Answer, Move, InLibrary
<1>3. /\ pc' \in [Threads -> Steps] /\ pc'[t] = "returning"
      /\ \A u \in Threads \ {t} : pc'[u] = pc[u]
  BY <1>2 DEF TypeOK, Steps
<1>4. ASSUME NEW u \in Threads \ {t}, call[u] \in OwnerCalls
      PROVE  result'[u] = result[u]
  BY <1>1, <1>4 DEF OwnerCalls, ProtectorMakers
<1>5. /\ wraps' \in [Handles -> Files \union {"free", "freed"}]
      /\ \A h \in Handles : wraps[h] \in Files => wraps'[h] = wraps[h]
      /\ \A h \in Handles : wraps'[h] \in Files => wraps'[h] = wraps[h]
      /\ \A h \in Handles : wraps[h] = "freed" /\ attached' = h => wraps'[h] = "freed"
  BY HandlesAssumption DEF Answer, Forget, TypeOK
<1>6. TypeOK'
  BY <1>1, <1>2, <1>3, <1>5 DEF TypeOK, Results
<1>7. GilInv'
  BY <1>2, <1>3 DEF GilInv, InLibrary
<1>8. LockInv'
  BY <1>1, <1>2, <1>3 DEF LockInv, InLibrary
<1>9. CallInv'
  BY <1>1, <1>2, <1>3 DEF CallInv, CallingBack, InLibrary
<1>10. HandleInv'
  BY <1>1, <1>2, <1>5 DEF HandleInv, TypeOK
<1>11. AttachedInv'
  BY <1>1, <1>2, <1>5 DEF AttachedInv
<1>12. ASSUME NEW u \in Threads \ {t}, pc[u] \in CallingBack, call[u] \in {"unlock", "read"}
       PROVE  attached' = attached
  <2>1. lock = u
    BY <1>12 DEF LockInv, InLibrary, CallingBack, TakesLock, Lockless
  <2>2. ~TakesLock(call[t])
    BY <2>1, <1>2 DEF LockInv
  <2> QED
    BY <2>2, <1>1 DEF TakesLock, Lockless, OwnerCalls
<1>13. SoughtInv'
  <2>1. ASSUME NEW u \in Threads, pc'[u] = "sought"
        PROVE  u # t /\ pc[u] = "sought" /\ offset'[u] = offset[u] /\ call[u] \in Readers
    BY <2>1, <1>1, <1>3 DEF CallInv, CallingBack
  <2>2. ASSUME NEW u \in Threads, pc'[u] = "sought", Lives(u)'
        PROVE  HandleOf(u)' = HandleOf(u) /\ wraps'[HandleOf(u)] = wraps[HandleOf(u)]
    <3>1. HandleOf(u)' = HandleOf(u)
      <4>1. CASE call[u] \in {"open_file_object", "check_signature"}
        BY <4>1, <1>1, <1>2 DEF HandleOf
      <4>2. CASE call[u] \in {"unlock", "read"}
        <5>1. attached' = attached
          BY <4>2, <2>1, <2>2, <1>12 DEF CallingBack
        <5> QED
          BY <4>2, <5>1, <1>1 DEF HandleOf
      <4> QED
        BY <4>1, <4>2, <2>1, <2>2 DEF Readers
    <3> QED
      BY <3>1, <2>2, <1>5 DEF Lives
  <2> QED
    BY <2>1, <2>2, <1>2, SoughtUnlessFreed
<1>14. ASSUME NeverReopens
       PROVE  OpenInv'
  <2>1. OpenInv
    BY <1>14 DEF Careful
  <2>2. attached' \in Handles => attached' = fileIoHandle'
    BY <2>1, <1>1, <1>2 DEF OpenInv
  <2>3. ASSUME NEW u \in Threads \ {t}, call[u] \in OwnerCalls
        PROVE  attached' \in Handles => attached' = attached
    BY <2>3, <1>1 DEF CallInv, OwnerCalls
  <2>4. ASSUME NEW u \in Threads
        PROVE  call'[u] = "open_file_object" /\ (pc'[u] # "returning" \/ result'[u] = "error") =>
                    attached' \notin Handles
    <3>1. CASE u = t
      BY <3>1, <2>1, <1>1, <1>2, <1>3 DEF OpenInv, InLibrary, TypeOK
    <3>2. CASE u # t
      BY <3>2, <2>1, <2>3, <1>1, <1>3, <1>4 DEF OpenInv, OwnerCalls
    <3> QED
      BY <3>1, <3>2
  <2>5. ASSUME NEW u \in Threads, pc'[u] = "returning", result'[u] = "ok",
               call'[u] = "close" \/ (call'[u] = "close_and_free" /\ rounds'[u] = 2)
        PROVE  attached' \notin Handles
    <3>1. CASE u = t
      BY <3>1, <2>5, <1>1, HandlesAssumption DEF TypeOK
    <3>2. CASE u # t
      BY <3>2, <2>1, <2>3, <2>5, <1>1, <1>3, <1>4 DEF OpenInv, OwnerCalls
    <3> QED
      BY <3>1, <3>2
  <2>6. ASSUME NEW u \in Threads, pc'[u] \in CallingBack, call'[u] \in {"unlock", "read"}
        PROVE  attached' \in Handles
    <3>1. u # t /\ pc[u] \in CallingBack /\ call[u] \in {"unlock", "read"}
      BY <2>6, <1>1, <1>3 DEF CallingBack
    <3> QED
      BY <3>1, <2>1, <1>12 DEF OpenInv
  <2> QED
    BY <2>1, <2>2, <2>4, <2>5, <2>6, <1>2 DEF OpenInv
<1>15. ProtectorInv'
  BY <1>1, <1>2 DEF Careful, ProtectorInv
<1>16. ASSUME NeverAsksClosed
       PROVE  AskInv'
  <2>1. AskInv /\ ProtectorInv
    BY <1>16 DEF Careful
  <2>2. ASSUME NEW u \in Threads, call[u] = "ask_protector"
        PROVE  protector' = protector
    <3>1. protector = "usable" /\ call[t] # "close"
      BY <2>1, <2>2 DEF AskInv
    <3>2. call[t] \notin Drops
      BY <2>1, <3>1 DEF ProtectorInv
    <3> QED
      BY <1>1, <3>1, <3>2
  <2> QED
    BY <2>1, <2>2, <1>1, <1>2 DEF AskInv
<1> QED
  BY <1>2, <1>6, <1>7, <1>8, <1>9, <1>10, <1>11, <1>13, <1>14, <1>15, <1>16 DEF Careful

-----------------------------------------------------------------------------
(* Returning to Python                                                     *)

(* Who returns has the GIL; who goes on to the next call has let go of it. *)
LEMMA ReturnCore ==
    ASSUME IInv, NEW t \in Threads, pc[t] = "returning", GilFree(t),
           Return(t) \/ Continue(t), lock' = lock
    PROVE  /\ pc' \in [Threads -> Steps] /\ call' \in [Threads -> Kinds]
           /\ rounds' \in [Threads -> Int] /\ offset' \in [Threads -> 0 .. Size - 1]
           /\ handle' \in [Threads -> Handles \union {Nothing}]
           /\ result' \in [Threads -> Results]
           /\ gil' \in Threads \union {Nobody}
           /\ GilInv' /\ LockInv' /\ CallInv'
           /\ pc'[t] \in {"running", "entering"}
           /\ call'[t] = call[t] \/ call'[t] = "none"
           /\ Continue(t) => call'[t] = call[t]
           /\ Return(t) => call'[t] = "none" /\ handle'[t] = Nothing
           /\ \A u \in Threads \ {t} :
                /\ pc'[u] = pc[u] /\ call'[u] = call[u] /\ rounds'[u] = rounds[u]
                /\ offset'[u] = offset[u] /\ handle'[u] = handle[u] /\ result'[u] = result[u]
           /\ call[t] # "check_signature" => handle' = handle
<1> USE DEF IInv, Results
<1>1. gil = Nobody
  BY DEF GilFree, GilInv
<1>2. 0 \in 0 .. Size - 1
  BY SizeAssumption
<1>3. call[t] # "none"
  BY DEF CallInv
<1>4. CASE Return(t)
  <2>1. /\ pc' \in [Threads -> Steps] /\ call' \in [Threads -> Kinds]
        /\ rounds' \in [Threads -> Int] /\ offset' \in [Threads -> 0 .. Size - 1]
        /\ handle' \in [Threads -> Handles \union {Nothing}]
        /\ result' \in [Threads -> Results]
        /\ gil' = t /\ pc'[t] = "running" /\ call'[t] = "none" /\ handle'[t] = Nothing
    BY <1>4, <1>2 DEF Return, Holder, Move, TypeOK, Steps, Kinds
  <2>2. \A u \in Threads \ {t} :
            /\ pc'[u] = pc[u] /\ call'[u] = call[u] /\ rounds'[u] = rounds[u]
            /\ offset'[u] = offset[u] /\ handle'[u] = handle[u] /\ result'[u] = result[u]
    BY <1>4 DEF Return, Move, TypeOK
  <2>3. GilInv' /\ LockInv' /\ CallInv'
    BY <1>1, <2>1, <2>2, ThreadsAssumption
       DEF GilInv, LockInv, CallInv, InLibrary, CallingBack, OwnerCalls
  <2>4. ~Continue(t)
    BY <2>1, ThreadsAssumption DEF Continue
  <2>5. call[t] # "check_signature" => handle' = handle
    BY <1>4 DEF CallInv, Return, TypeOK
  <2> QED
    BY <2>1, <2>2, <2>3, <2>4, <2>5
<1>5. CASE Continue(t)
  <2>1. /\ pc' \in [Threads -> Steps] /\ rounds' \in [Threads -> Int]
        /\ UNCHANGED <<call, offset, handle, result>>
        /\ gil' = Nobody /\ pc'[t] = "entering"
    BY <1>5 DEF Continue, Move, TypeOK, Steps
  <2>2. \A u \in Threads \ {t} : pc'[u] = pc[u] /\ rounds'[u] = rounds[u]
    BY <1>5 DEF Continue, Move, TypeOK
  <2>3. GilInv' /\ LockInv' /\ CallInv'
    BY <1>1, <1>3, <2>1, <2>2, ThreadsAssumption
       DEF GilInv, LockInv, CallInv, InLibrary, CallingBack
  <2>4. ~Return(t)
    BY <2>1, ThreadsAssumption DEF Return, Holder
  <2> QED
    BY <2>1, <2>2, <2>3, <2>4 DEF TypeOK
<1> QED
  BY <1>4, <1>5

(* What is said of a careful program of the threads and the attached       *)
(* handle stays when one of them returns.                                  *)
LEMMA ReturnOpenInv ==
    ASSUME OpenInv, NEW t \in Threads, UNCHANGED <<attached, misused>>,
           attached' \in Handles => attached' = fileIoHandle',
           pc'[t] \in {"running", "entering"}, call'[t] # "open_file_object",
           \A u \in Threads \ {t} :
                /\ pc'[u] = pc[u] /\ call'[u] = call[u] /\ rounds'[u] = rounds[u]
                /\ result'[u] = result[u]
    PROVE  OpenInv'
BY DEF OpenInv, CallingBack

(* A return that frees nothing, whatever it makes of key protectors.       *)
LEMMA ReturnKeeping ==
    ASSUME IInv, NEW t \in Threads, pc[t] = "returning", GilFree(t),
           Return(t) \/ Continue(t), call[t] # "check_signature",
           Continue(t) => call[t] # "open_file_object",
           UNCHANGED <<library, files, fileIoHandle, history>>,
           protector' \in {"none", "usable", "closed", "freed"}, parents' \in Int,
           iterator' \in Nat \union {Nothing},
           ProtectorInv' /\ (NeverAsksClosed => AskInv')
    PROVE  IInv'
<1> USE DEF library, files, history
<1>1. /\ pc' \in [Threads -> Steps] /\ call' \in [Threads -> Kinds]
      /\ rounds' \in [Threads -> Int] /\ offset' \in [Threads -> 0 .. Size - 1]
      /\ handle' \in [Threads -> Handles \union {Nothing}]
      /\ result' \in [Threads -> Results]
      /\ gil' \in Threads \union {Nobody}
      /\ GilInv' /\ LockInv' /\ CallInv'
      /\ pc'[t] \in {"running", "entering"}
      /\ call'[t] # "open_file_object"
      /\ \A u \in Threads \ {t} :
           /\ pc'[u] = pc[u] /\ call'[u] = call[u] /\ rounds'[u] = rounds[u]
           /\ offset'[u] = offset[u] /\ handle'[u] = handle[u] /\ result'[u] = result[u]
      /\ handle' = handle
  BY ReturnCore
<1>2. TypeOK'
  BY <1>1 DEF IInv, TypeOK, Results
<1>3. HandleInv' /\ AttachedInv'
  BY <1>1 DEF IInv, HandleInv, AttachedInv
<1>4. SoughtInv'
  BY <1>1, SoughtFrame DEF IInv
<1>5. NeverReopens => OpenInv'
  BY <1>1, ReturnOpenInv DEF IInv, Careful, OpenInv
<1> QED
  BY <1>1, <1>2, <1>3, <1>4, <1>5 DEF IInv, Careful

(* A return that frees the handle of the Python object.                    *)
LEMMA ReturnFreeing ==
    ASSUME IInv, NEW t \in Threads, pc[t] = "returning", GilFree(t),
           Return(t) \/ Continue(t), call[t] \in OwnerCalls,
           Continue(t) => call[t] # "open_file_object",
           FreeFileIoHandle(attached), UNCHANGED <<library, history>>,
           NeverReopens => attached \notin Handles
    PROVE  IInv'
<1> USE DEF library, history
<1>1. /\ pc' \in [Threads -> Steps] /\ call' \in [Threads -> Kinds]
      /\ rounds' \in [Threads -> Int] /\ offset' \in [Threads -> 0 .. Size - 1]
      /\ handle' \in [Threads -> Handles \union {Nothing}]
      /\ result' \in [Threads -> Results]
      /\ gil' \in Threads \union {Nobody}
      /\ GilInv' /\ LockInv' /\ CallInv'
      /\ pc'[t] \in {"running", "entering"}
      /\ call'[t] # "open_file_object"
      /\ call'[t] = call[t] \/ call'[t] = "none"
      /\ \A u \in Threads \ {t} :
           /\ pc'[u] = pc[u] /\ call'[u] = call[u] /\ rounds'[u] = rounds[u]
           /\ offset'[u] = offset[u] /\ handle'[u] = handle[u] /\ result'[u] = result[u]
      /\ handle' = handle
  BY ReturnCore DEF OwnerCalls
<1>2. /\ wraps' \in [Handles -> Files \union {"free", "freed"}]
      /\ fileIoHandle' = Nothing /\ UNCHANGED <<objects, protector, parents, iterator>>
  BY FreeingHandles DEF IInv, FreeFileIoHandle
<1>3. TypeOK'
  BY <1>1, <1>2 DEF IInv, TypeOK, Results
<1>4. \A u \in Threads : pc'[u] = "sought" =>
        /\ pc[u] = "sought" /\ offset'[u] = offset[u] /\ call'[u] = call[u]
        /\ call[u] # "open_file_object"
  BY <1>1 DEF IInv, CallInv, OwnerCalls
<1>5. HandleInv' /\ AttachedInv' /\ SoughtInv'
  BY <1>1, <1>4, FreeingIsSafe DEF IInv
<1>6. NeverReopens => OpenInv'
  BY <1>1, ReturnOpenInv DEF IInv, Careful
<1>7. ProtectorInv' /\ (NeverAsksClosed => AskInv')
  BY <1>1, <1>2, CallsEnd DEF IInv, Careful
<1> QED
  BY <1>1, <1>3, <1>5, <1>6, <1>7 DEF IInv, Careful

LEMMA CheckReturnsIInv ==
    ASSUME IInv, NEW t \in Threads, pc[t] = "returning", GilFree(t),
           CheckReturns(t), UNCHANGED <<library, history>>
    PROVE  IInv'
<1> USE DEF library, history, python, CheckReturns
<1>1. /\ pc' \in [Threads -> Steps] /\ call' \in [Threads -> Kinds]
      /\ rounds' \in [Threads -> Int] /\ offset' \in [Threads -> 0 .. Size - 1]
      /\ handle' \in [Threads -> Handles \union {Nothing}]
      /\ result' \in [Threads -> Results]
      /\ gil' \in Threads \union {Nobody}
      /\ GilInv' /\ LockInv' /\ CallInv'
      /\ pc'[t] \in {"running", "entering"}
      /\ call'[t] = "none" /\ handle'[t] = Nothing
      /\ \A u \in Threads \ {t} :
           /\ pc'[u] = pc[u] /\ call'[u] = call[u] /\ rounds'[u] = rounds[u]
           /\ offset'[u] = offset[u] /\ handle'[u] = handle[u] /\ result'[u] = result[u]
  BY ReturnCore
<1>2. handle[t] \in Handles /\ wraps[handle[t]] \in Files /\ handle[t] # Nothing
  BY DEF IInv, CallInv, TypeOK, HandleInv
<1>3. wraps' = [wraps EXCEPT ![handle[t]] = "free"]
  BY <1>2 DEF FreeHandle
<1>4. /\ wraps' \in [Handles -> Files \union {"free", "freed"}]
      /\ \A h \in Handles \ {handle[t]} : wraps'[h] = wraps[h]
      /\ wraps'[handle[t]] = "free"
  BY <1>2, <1>3 DEF IInv, TypeOK
<1>5. TypeOK'
  BY <1>1, <1>4 DEF IInv, TypeOK, Results
<1>6. HandleInv'
  <2>1. fileIoHandle # handle[t]
    BY <1>2 DEF IInv, HandleInv
  <2>2. \A u \in Threads \ {t} : handle[u] # handle[t]
    BY <1>2 DEF IInv, HandleInv
  <2> QED
    BY <1>1, <1>4, <2>1, <2>2 DEF IInv, HandleInv, TypeOK
<1>7. AttachedInv'
  <2>1. attached \in Handles => attached # handle[t]
    BY <1>2, HandlesAssumption DEF IInv, AttachedInv, HandleInv
  <2> QED
    BY <1>4, <2>1 DEF IInv, AttachedInv
<1>8. SoughtInv'
  <2>1. ASSUME NEW u \in Threads, pc'[u] = "sought"
        PROVE  u # t /\ pc[u] = "sought" /\ offset'[u] = offset[u]
    BY <2>1, <1>1
  <2>2. ASSUME NEW u \in Threads, pc'[u] = "sought", Lives(u)'
        PROVE  HandleOf(u)' = HandleOf(u) /\ wraps'[HandleOf(u)] = wraps[HandleOf(u)]
    <3>1. HandleOf(u)' = HandleOf(u)
      BY <2>1, <2>2, <1>1 DEF HandleOf
    <3>2. HandleOf(u) \in Handles /\ wraps'[HandleOf(u)] \in Files
      BY <3>1, <2>2 DEF Lives
    <3> QED
      BY <3>1, <3>2, <1>4, HandlesAssumption
  <2> QED
    BY <2>1, <2>2, SoughtUnlessFreed DEF IInv
<1>9. NeverReopens => OpenInv'
  BY <1>1, ReturnOpenInv DEF IInv, Careful, OpenInv
<1>10. ProtectorInv' /\ (NeverAsksClosed => AskInv')
  BY <1>1, CallsEnd DEF IInv, Careful
<1> QED
  BY <1>1, <1>5, <1>6, <1>7, <1>8, <1>9, <1>10 DEF IInv, Careful

(* A return that makes or frees a key protector or a sequence of them.     *)
LEMMA ProtectorsReturnIInv ==
    ASSUME IInv, NEW t \in Threads, pc[t] = "returning", GilFree(t),
           ProtectorReturns(t) \/ ProtectorsReturn(t) \/ ProtectorFreed(t),
           UNCHANGED <<library, history>>
    PROVE  IInv'
<1>1. /\ call[t] \in ProtectorMakers \union {"get_protectors", "free_protector"}
      /\ Return(t) /\ UNCHANGED files /\ fileIoHandle' = fileIoHandle
      /\ misused' = misused
  BY DEF ProtectorReturns, ProtectorsReturn, ProtectorFreed, ProtectorMakers, history
<1>2. /\ call'[t] = "none"
      /\ \A u \in Threads \ {t} : call'[u] = call[u]
  BY <1>1 DEF IInv, TypeOK, Return
<1>3. ProtectorInv
  BY DEF IInv, Careful
<1>4. /\ \/ protector' = protector
         \/ protector = "none" /\ protector' \in {"usable", "closed"}
         \/ call[t] = "free_protector" /\ protector # "none" /\ protector' = "none"
      /\ iterator' \in Nat \union {Nothing} /\ parents' \in Int
      /\ parents' =
            (IF protector' = "none" THEN 0 ELSE 1) + (IF iterator' = Nothing THEN 0 ELSE 1)
  <2>1. /\ iterator \in Nat \union {Nothing} /\ parents \in Int
        /\ parents = (IF protector = "none" THEN 0 ELSE 1)
                        + (IF iterator = Nothing THEN 0 ELSE 1)
    BY <1>3 DEF IInv, TypeOK, ProtectorInv
  <2>2. CASE ProtectorReturns(t)
    BY <2>1, <2>2, HandlesAssumption DEF ProtectorReturns, Parent
  <2>3. CASE ProtectorsReturn(t)
    BY <2>1, <2>3, HandlesAssumption DEF ProtectorsReturn, Parent
  <2>4. CASE ProtectorFreed(t)
    <3>1. protector # "none"
      BY <1>3, <2>4 DEF ProtectorFreed, ProtectorInv, OfProtector
    <3> QED
      BY <2>1, <2>4, <3>1, HandlesAssumption DEF ProtectorFreed, Parent
  <2> QED
    BY <2>2, <2>3, <2>4
<1>5. protector' \in {"none", "usable", "closed", "freed"}
  BY <1>4 DEF IInv, TypeOK
<1>6. \A u \in Threads : call'[u] \notin Drops
  BY <1>1, <1>2, <1>3 DEF ProtectorInv, Drops, ProtectorMakers
<1>7. ASSUME NEW u \in Threads, call'[u] \in OfProtector
      PROVE  protector' # "none" /\ (protector = "usable" => protector' = "usable")
  <2>1. u # t /\ call[u] \in OfProtector
    BY <1>2, <1>7 DEF OfProtector
  <2>2. protector # "none" /\ call[t] # "free_protector"
    BY <1>3, <2>1 DEF ProtectorInv
  <2> QED
    BY <1>4, <2>2
<1>8. ProtectorInv'
  <2>1. protector' # "freed"
    BY <1>3, <1>4 DEF ProtectorInv
  <2>2. \A u \in Threads :
            call'[u] = "free_protector" =>
                \A v \in Threads \ {u} : call'[v] \notin OfProtector
    BY <1>2, <1>3 DEF ProtectorInv, OfProtector
  <2> QED
    BY <1>1, <1>3, <1>4, <1>6, <1>7, <2>1, <2>2 DEF ProtectorInv
<1>9. NeverAsksClosed => AskInv'
  BY <1>1, <1>2, <1>7 DEF IInv, Careful, AskInv, OfProtector
<1>10. ~Continue(t)
  BY <1>1, ThreadsAssumption DEF Continue, Return, Holder
<1> QED
  BY <1>1, <1>4, <1>5, <1>8, <1>9, <1>10, ReturnKeeping DEF ProtectorMakers

LEMMA ReturnToPythonIInv ==
    ASSUME IInv, NEW t \in Threads, ReturnToPython(t)
    PROVE  IInv'
<1>1. pc[t] = "returning" /\ GilFree(t) /\ UNCHANGED <<library, history>>
  BY DEF ReturnToPython
<1>2. ASSUME Return(t) \/ Continue(t), UNCHANGED <<files, python>>,
             call[t] # "check_signature", Continue(t) => call[t] # "open_file_object"
      PROVE  IInv'
  <2>1. /\ protector' \in {"none", "usable", "closed", "freed"} /\ parents' \in Int
        /\ iterator' \in Nat \union {Nothing}
    BY <1>2 DEF IInv, TypeOK, python
  <2>2. \A u \in Threads : call'[u] = call[u] \/ call'[u] = "none"
    BY <1>1, <1>2, ReturnCore DEF library
  <2>3. ProtectorInv' /\ (NeverAsksClosed => AskInv')
    BY <1>1, <1>2, <2>2, CallsEnd DEF IInv, Careful, python, history
  <2> QED
    BY <1>1, <1>2, <2>1, <2>3, ReturnKeeping DEF python
<1>3. ~(Return(t) /\ Continue(t))
  BY ThreadsAssumption DEF Continue, Return, Holder
<1>4. CASE OpenReturns(t)
  <2>1. call[t] = "open_file_object" /\ Return(t)
    BY <1>4 DEF OpenReturns
  <2>2. CASE result[t] = "error"
    <3>1. NeverReopens => attached \notin Handles
      BY <2>1, <2>2 DEF IInv, Careful, OpenInv
    <3> QED
      BY <1>1, <1>3, <1>4, <2>1, <2>2, <3>1, ReturnFreeing DEF OpenReturns, OwnerCalls
  <2>3. CASE result[t] # "error"
    BY <1>2, <1>3, <1>4, <2>1, <2>3 DEF OpenReturns
  <2> QED
    BY <2>2, <2>3
<1>5. CASE CloseReturns(t)
  <2>1. call[t] = "close" /\ Return(t)
    BY <1>5 DEF CloseReturns
  <2>2. CASE result[t] = "ok"
    <3>1. NeverReopens => attached \notin Handles
      BY <1>1, <2>1, <2>2 DEF IInv, Careful, OpenInv
    <3> QED
      BY <1>1, <1>5, <2>1, <2>2, <3>1, ReturnFreeing DEF CloseReturns, OwnerCalls
  <2>3. CASE result[t] # "ok"
    BY <1>2, <1>5, <2>1, <2>3 DEF CloseReturns
  <2> QED
    BY <2>2, <2>3
<1>6. CASE CloseOfFreeReturns(t)
  <2>1. call[t] = "close_and_free" /\ rounds[t] = 2
    BY <1>6 DEF CloseOfFreeReturns
  <2>2. CASE result[t] = "ok"
    <3>1. NeverReopens => attached \notin Handles
      BY <1>1, <2>1, <2>2 DEF IInv, Careful, OpenInv
    <3> QED
      BY <1>1, <1>6, <2>1, <2>2, <3>1, ReturnFreeing DEF CloseOfFreeReturns, OwnerCalls
  <2>3. CASE result[t] # "ok"
    BY <1>2, <1>6, <2>1, <2>3 DEF CloseOfFreeReturns
  <2> QED
    BY <2>2, <2>3
<1>7. CASE CheckReturns(t)
  BY <1>1, <1>7, CheckReturnsIInv
<1>8. CASE ProtectorReturns(t) \/ ProtectorsReturn(t) \/ ProtectorFreed(t)
  BY <1>1, <1>8, ProtectorsReturnIInv
<1>9. CASE OtherReturns(t)
  BY <1>2, <1>9 DEF OtherReturns
<1> QED
  BY <1>4, <1>5, <1>6, <1>7, <1>8, <1>9 DEF ReturnToPython

-----------------------------------------------------------------------------
(* Every call of a program keeps the inductive invariant.                  *)
LEMMA CallsIInv ==
    ASSUME IInv, NEW t \in Threads, Calls(t)
    PROVE  IInv'
<1>0. 0 \in 0 .. Size - 1 /\ 1 \in Int /\ 2 \in Int
  BY SizeAssumption
<1>1. ASSUME NEW kind \in {"query", "signal_abort", "unlock", "read", "get_protector",
                           "get_protectors", "next_protector"},
             NEW times \in Int, NEW from \in 0 .. Size - 1, Enter(t, kind, times, from)
      PROVE  IInv'
  <2>1. kind \in Kinds \ {"none", "check_signature", "open_file_object"}
        /\ kind \notin OwnerCalls /\ kind \notin Drops /\ kind \notin OfProtector
        /\ kind # "close"
    BY DEF Kinds, OwnerCalls, Drops, OfProtector
  <2> QED
    BY <1>1, <2>1, EnterIInv
<1>2. ASSUME NEW times \in {1, 2}, Query(t, times)
      PROVE  IInv'
  BY <1>0, <1>1, <1>2 DEF Query
<1>3. CASE \/ IsLocked(t) \/ GetOffsetOfVolume(t) \/ SeekOffsetOfVolume(t)
           \/ GetSizeOfVolume(t) \/ GetEncryptionMethod(t) \/ GetVolumeIdentifier(t)
           \/ GetCreationTime(t) \/ GetCreationTimeAsInteger(t)
           \/ GetNumberOfKeyProtectors(t) \/ GetDescription(t)
           \/ SetKeys(t) \/ SetPassword(t) \/ SetRecoveryPassword(t) \/ ReadStartupKey(t)
  BY <1>2, <1>3 DEF IsLocked, GetOffsetOfVolume, SeekOffsetOfVolume, GetSizeOfVolume,
       GetEncryptionMethod, GetVolumeIdentifier, GetCreationTime,
       GetCreationTimeAsInteger, GetNumberOfKeyProtectors, GetDescription, SetKeys,
       SetPassword, SetRecoveryPassword, ReadStartupKey
<1>4. CASE SignalAbort(t) \/ Unlock(t)
  BY <1>0, <1>1, <1>4 DEF SignalAbort, Unlock
<1>5. CASE ReadBufferOfVolume(t) \/ ReadBufferAtOffset(t)
  <2>1. PICK times \in 1 .. 2, from \in 0 .. Size - 1 : Enter(t, "read", times, from)
    BY <1>5 DEF ReadBufferOfVolume, ReadBufferAtOffset
  <2>2. times \in Int
    OBVIOUS
  <2> QED
    BY <1>1, <2>1, <2>2
<1>6. CASE Initialize(t)
  BY <1>6, InitializeIInv
<1>7. CASE Open(t) \/ Close(t)
  <2>1. PICK kind \in {"open", "close"} :
            /\ Enter(t, kind, 1, 0) /\ t = Owner
            /\ NeverAsksClosed /\ kind = "close" => ~Under("ask_protector")
    BY <1>7 DEF Open, Close, NeverAsksClosed
  <2>2. /\ kind \in Kinds \ {"none", "check_signature", "open_file_object"}
        /\ kind \notin Drops /\ kind \notin OfProtector
    BY DEF Kinds, Drops, OfProtector
  <2> QED
    BY <1>0, <2>1, <2>2, EnterIInv
<1>8. CASE OpenFileObject(t)
  BY <1>8, OpenFileObjectIInv
<1>9. CASE Free(t)
  <2>1. PICK kind \in Drops, times \in {1, 2} : Enter(t, kind, times, 0)
    BY <1>9 DEF Free, Drops
  <2>2. /\ t = Owner /\ parents = 0
        /\ \A u \in Threads \ {t} : call[u] \in Elsewhere
    BY <1>9 DEF Free
  <2>3. /\ kind \in Kinds \ {"none", "check_signature", "open_file_object"} /\ times \in Int
        /\ kind # "close" /\ kind \notin OfProtector
    BY DEF Kinds, Drops, OfProtector
  <2> QED
    BY <1>0, <2>1, <2>2, <2>3, EnterIInv
<1>10. CASE CheckVolumeSignature(t)
  BY <1>10, CheckVolumeSignatureIInv
<1>11. CASE GetKeyProtector(t) \/ GetKeyProtectors(t) \/ GetItem(t) \/ IterNext(t)
  BY <1>0, <1>1, <1>11 DEF GetKeyProtector, GetKeyProtectors, GetItem, IterNext
<1>12. CASE FreeKeyProtectors(t)
  BY <1>12, FreeKeyProtectorsIInv
<1>13. CASE AskKeyProtector(t) \/ FreeKeyProtector(t)
  BY <1>13, EnterProtectorIInv
<1> QED
  BY <1>3, <1>4, <1>5, <1>6, <1>7, <1>8, <1>9, <1>10, <1>11, <1>12, <1>13 DEF Calls

LEMMA StutterIInv ==
    ASSUME IInv, UNCHANGED vars
    PROVE  IInv'
<1> USE DEF vars, request
<1>1. TypeOK' /\ GilInv' /\ LockInv' /\ CallInv' /\ HandleInv' /\ AttachedInv' /\ ~misread'
  BY DEF IInv, TypeOK, GilInv, LockInv, CallInv, HandleInv, AttachedInv
<1>2. SoughtInv'
  BY SoughtFrame DEF IInv
<1>3. NeverReopens => OpenInv'
  BY DEF IInv, Careful, OpenInv
<1>4. ProtectorInv' /\ (NeverAsksClosed => AskInv')
  BY CallsEnd DEF IInv, Careful
<1> QED
  BY <1>1, <1>2, <1>3, <1>4 DEF IInv, Careful

LEMMA NextIInv == IInv /\ [Next]_vars => IInv'
<1> SUFFICES ASSUME IInv, [Next]_vars PROVE IInv'
  OBVIOUS
<1>1. CASE UNCHANGED vars
  BY <1>1, StutterIInv
<1>2. CASE Next
  <2> PICK t \in Threads : TakeGil(t) \/ YieldGil(t) \/ Calls(t) \/ Proceed(t)
    BY <1>2 DEF Next
  <2>1. CASE TakeGil(t)
    BY <2>1, TakeGilIInv
  <2>2. CASE YieldGil(t)
    BY <2>2, YieldGilIInv
  <2>3. CASE Calls(t)
    BY <2>3, CallsIInv
  <2>4. CASE Lock(t)
    BY <2>4, LockIInv
  <2>5. CASE Seek(t) \/ SeekAgain(t)
    BY <2>5, SeekIInv
  <2>6. CASE AskSize(t)
    BY <2>6, AskSizeIInv
  <2>7. CASE Read(t)
    BY <2>7, ReadIInv
  <2>8. CASE Answer(t)
    BY <2>8, AnswerIInv
  <2>9. CASE ReturnToPython(t)
    BY <2>9, ReturnToPythonIInv
  <2>10. CASE UseKey(t)
    BY <2>10, UseKeyIInv
  <2> QED
    BY <2>1, <2>2, <2>3, <2>4, <2>5, <2>6, <2>7, <2>8, <2>9, <2>10 DEF Proceed
<1> QED
  BY <1>1, <1>2

LEMMA Invariance == Spec => []IInv
<1>1. Init => IInv
  BY InitIInv
<1>2. IInv /\ [Next]_vars => IInv'
  BY NextIInv
<1> QED
  BY <1>1, <1>2, PTL DEF Spec

(* The variables of the Python threads have their types.                   *)
THEOREM TypesKept == Spec => []TypeOK
<1>1. IInv => TypeOK
  BY DEF IInv
<1> QED
  BY <1>1, Invariance, PTL

(* No thread waits for the volume's lock with the GIL in its hands, which  *)
(* who has that lock may need to call back into Python.                    *)
THEOREM NobodyWaitsInACircle == Spec => []NoCircularWait
<1>1. IInv => NoCircularWait
  BY DEF IInv, GilInv, NoCircularWait
<1> QED
  BY <1>1, Invariance, PTL

(* Whatever threads call, each read through a file object takes place      *)
(* where the library sought just before.                                   *)
THEOREM ReadsWhereSought == Spec => []SoughtIsRead
<1>1. IInv => SoughtIsRead
  BY DEF IInv, SoughtIsRead
<1> QED
  BY <1>1, Invariance, PTL

(* Whatever its threads call meanwhile, a program that does not open an    *)
(* open volume again has no handle used that was freed, and no key of a    *)
(* volume that was freed: the volume waits for its key protectors.         *)
THEOREM NothingFreedIsUsed ==
    ASSUME "reopen" \notin Liberties
    PROVE  Spec => []FreedNotUsed
<1>1. IInv => FreedNotUsed
  BY DEF IInv, Careful, OpenInv, ProtectorInv, FreedNotUsed, NeverReopens
<1> QED
  BY <1>1, Invariance, PTL

(* One that asks no key protector of a closed volume either, and closes    *)
(* none that it asks, has nothing used at all that was freed, whatever     *)
(* protectors are on their way to it when it closes the volume.            *)
THEOREM CarefulProgramsUseNothingFreed ==
    ASSUME Liberties = {}
    PROVE  Spec => [](misused = {})
<1>1. IInv => misused = {}
  <2>1. NeverReopens /\ NeverAsksClosed
    BY DEF NeverReopens, NeverAsksClosed
  <2> QED
    BY <2>1 DEF IInv, Careful, OpenInv, ProtectorInv, AskInv
<1> QED
  BY <1>1, Invariance, PTL

-----------------------------------------------------------------------------
(* References to the file objects                                          *)

(* The handles that a thread or the Python object has. *)
InUse == ({handle[t] : t \in Threads} \union {fileIoHandle}) \intersect Handles

(* A file object is held once if a handle in use wraps it, and else not.   *)
CountInv ==
    /\ references \in [Files -> Int]
    /\ \A f \in Files : references[f] = IF \E h \in InUse : wraps[h] = f THEN 1 ELSE 0

(* A volume that is gone or about to be freed has no handle left.          *)
DropInv ==
    /\ volume = "absent" => fileIoHandle = Nothing
    /\ \A t \in Threads :
          call[t] = "free" \/ (call[t] = "close_and_free" /\ rounds[t] # 2) =>
                fileIoHandle = Nothing

RefInv == CountInv /\ DropInv

(* No two handles in use wrap the same file object. *)
LEMMA WrapsApart ==
    ASSUME TypeOK, HandleInv, NEW h \in InUse
    PROVE  /\ h \in Handles /\ wraps[h] \in Files
           /\ \A g \in InUse : wraps[g] = wraps[h] => g = h
BY HandlesAssumption DEF InUse, TypeOK, HandleInv

(* A step that leaves the handles in use and their references alone. *)
LEMMA CountFrame ==
    ASSUME CountInv, handle' = handle, fileIoHandle' = fileIoHandle,
           references' = references, \A h \in InUse : wraps'[h] = wraps[h]
    PROVE  CountInv'
<1>1. InUse' = InUse
  BY DEF InUse
<1> QED
  BY <1>1 DEF CountInv

(* A handle that comes into use has a reference ... *)
LEMMA CountMade ==
    ASSUME TypeOK, CountInv, NEW h \in Handles, NEW f \in Files, InitializeHandle(h, f),
           \A g \in InUse : g # h /\ wraps[g] # f,
           InUse' = InUse \union {h}
    PROVE  CountInv'
<1>1. /\ wraps'[h] = f
      /\ \A g \in InUse : wraps'[g] = wraps[g]
  BY DEF InitializeHandle, TypeOK, InUse
<1>2. references[f] = 0
  BY DEF CountInv
<1>3. /\ references' \in [Files -> Int]
      /\ references'[f] = 1
      /\ \A e \in Files \ {f} : references'[e] = references[e]
  BY <1>2 DEF InitializeHandle, CountInv
<1>4. ASSUME NEW e \in Files \ {f}
      PROVE  (\E g \in InUse' : wraps'[g] = e) <=> (\E g \in InUse : wraps[g] = e)
  BY <1>1
<1> QED
  BY <1>1, <1>3, <1>4 DEF CountInv

(* ... and gives it back when it is freed. *)
LEMMA CountFreed ==
    ASSUME TypeOK, HandleInv, CountInv, NEW h \in InUse, NEW referred,
           FreeHandle(h, referred), InUse' = InUse \ {h}
    PROVE  CountInv'
<1>1. /\ h \in Handles /\ wraps[h] \in Files
      /\ \A g \in InUse : wraps[g] = wraps[h] => g = h
  BY WrapsApart
<1>2. \A g \in InUse' : wraps'[g] = wraps[g] /\ wraps[g] # wraps[h]
  BY <1>1 DEF FreeHandle, TypeOK, InUse
<1>3. references[wraps[h]] = 1
  BY <1>1 DEF CountInv
<1>4. /\ references' \in [Files -> Int]
      /\ references'[wraps[h]] = 0
      /\ \A e \in Files \ {wraps[h]} : references'[e] = references[e]
  BY <1>1, <1>3 DEF FreeHandle, CountInv
<1>5. ASSUME NEW e \in Files \ {wraps[h]}
      PROVE  (\E g \in InUse' : wraps'[g] = e) <=> (\E g \in InUse : wraps[g] = e)
  BY <1>2
<1> QED
  BY <1>1, <1>2, <1>4, <1>5 DEF CountInv

(* Freeing the handle of the Python object, if it has one. *)
LEMMA FreeingCounts ==
    ASSUME IInv, CountInv, FreeFileIoHandle(attached), handle' = handle
    PROVE  CountInv'
<1> USE DEF FreeFileIoHandle
<1>1. CASE fileIoHandle = Nothing
  BY <1>1, CountFrame
<1>2. CASE fileIoHandle # Nothing
  <2>1. fileIoHandle \in InUse /\ FreeHandle(fileIoHandle, attached)
    BY <1>2 DEF IInv, TypeOK, InUse
  <2>2. \A t \in Threads : handle[t] # fileIoHandle
    BY <1>2 DEF IInv, HandleInv
  <2>3. InUse' = InUse \ {fileIoHandle}
    BY <2>2, HandlesAssumption DEF InUse
  <2> QED
    BY <2>1, <2>3, CountFreed DEF IInv
<1> QED
  BY <1>1, <1>2

LEMMA InitRefInv == Init => RefInv
<1> SUFFICES ASSUME Init PROVE RefInv
  OBVIOUS
<1>1. InUse = {}
  BY HandlesAssumption DEF Init, InUse
<1> QED
  BY <1>1 DEF Init, RefInv, CountInv, DropInv

(* What a thread does with its own request leaves the references as they   *)
(* are, unless it begins to drop the volume.                               *)
LEMMA RefFrame ==
    ASSUME RefInv, NEW t \in Threads, handle' = handle, fileIoHandle' = fileIoHandle,
           references' = references, \A h \in InUse : wraps'[h] = wraps[h],
           volume' = "absent" => volume = "absent",
           \A u \in Threads \ {t} : call'[u] = call[u] /\ rounds'[u] = rounds[u],
           call'[t] \in Drops =>
                \/ fileIoHandle = Nothing
                \/ call'[t] = "close_and_free" /\ rounds'[t] = 2
                \/ call'[t] = call[t] /\ rounds'[t] = rounds[t]
    PROVE  RefInv'
<1>1. CountInv'
  BY CountFrame DEF RefInv
<1>2. DropInv'
  BY DEF RefInv, DropInv, Drops
<1> QED
  BY <1>1, <1>2 DEF RefInv

LEMMA EnterRefInv ==
    ASSUME IInv, RefInv, NEW t \in Threads, NEW kind, NEW times, NEW from,
           Enter(t, kind, times, from) \/ (EnterProtector(t, kind) /\ times = 1 /\ from = 0),
           kind \in Drops =>
                fileIoHandle = Nothing \/ (kind = "close_and_free" /\ times = 2)
    PROVE  RefInv'
<1> USE DEF Enter, EnterProtector, library, files, python
<1>1. handle[t] = Nothing
  BY DEF IInv, CallInv, Running
<1>2. handle' = handle
  BY <1>1 DEF EnterLibrary, IInv, TypeOK
<1>3. /\ call'[t] = kind /\ rounds'[t] = times
      /\ \A u \in Threads \ {t} : call'[u] = call[u] /\ rounds'[u] = rounds[u]
  BY DEF EnterLibrary, IInv, TypeOK
<1> QED
  BY <1>2, <1>3, RefFrame

LEMMA OpenFileObjectRefInv ==
    ASSUME IInv, RefInv, NEW t \in Threads, OpenFileObject(t)
    PROVE  RefInv'
<1> USE DEF library, python
<1>0. /\ Running(t) /\ volume' = volume /\ volume # "absent"
      /\ handle[t] = Nothing /\ call[t] = "none"
      /\ \A u \in Threads : call[u] \notin Drops
  BY DEF OpenFileObject, HasVolume, Running, IInv, CallInv, Drops
<1>1. ASSUME NEW h \in Handles, NEW f \in Files, f \notin Checked, InitializeHandle(h, f),
             fileIoHandle = Nothing, fileIoHandle' = h,
             EnterLibrary(t, "open_file_object", 1, 0, Nothing)
      PROVE  RefInv'
  <2>1. handle' = handle
    BY <1>0, <1>1 DEF EnterLibrary, IInv, TypeOK
  <2>2. InUse' = InUse \union {h}
    BY <1>1, <2>1, HandlesAssumption DEF InUse
  <2>3. \A g \in InUse : g # h /\ wraps[g] # f
    BY <1>1, NewHandle, HandlesAssumption DEF InUse, Checked, IInv
  <2>4. CountInv'
    BY <1>1, <2>2, <2>3, CountMade DEF RefInv, IInv
  <2>5. DropInv'
    <3>1. \A u \in Threads : call'[u] \notin Drops
      BY <1>0, <1>1 DEF EnterLibrary, IInv, TypeOK, Drops
    <3> QED
      BY <3>1, <1>0 DEF DropInv, Drops
  <2> QED
    BY <2>4, <2>5 DEF RefInv
<1>2. CASE (\E f \in Files : InitializeFails(f)) /\ Raise(t) /\ UNCHANGED <<wraps, python>>
  <2>1. UNCHANGED <<handle, call, rounds, references, wraps, fileIoHandle>>
    BY <1>2 DEF Raise, request, InitializeFails
  <2> QED
    BY <1>0, <2>1, RefFrame
<1>3. CASE FreeFileIoHandle(attached) /\ Raise(t)
  <2>1. UNCHANGED <<handle, call>> /\ fileIoHandle' = Nothing
    BY <1>3 DEF Raise, request, FreeFileIoHandle
  <2>2. CountInv'
    BY <1>3, <2>1, FreeingCounts DEF RefInv
  <2> QED
    BY <2>1, <2>2 DEF RefInv, DropInv
<1> QED
  BY <1>1, <1>2, <1>3 DEF OpenFileObject

LEMMA CheckVolumeSignatureRefInv ==
    ASSUME IInv, RefInv, NEW t \in Threads, CheckVolumeSignature(t)
    PROVE  RefInv'
<1> USE DEF library, python
<1>0. /\ Running(t) /\ volume' = volume /\ fileIoHandle' = fileIoHandle
      /\ handle[t] = Nothing
  BY DEF CheckVolumeSignature, Running, IInv, CallInv
<1> PICK h \in Handles, f \in Files :
        /\ f \notin Checked \union Attached
        /\ InitializeHandle(h, f)
        /\ EnterLibrary(t, "check_signature", 1, 0, h)
  BY DEF CheckVolumeSignature
<1>1. /\ handle'[t] = h /\ call'[t] = "check_signature"
      /\ \A u \in Threads \ {t} : /\ handle'[u] = handle[u] /\ call'[u] = call[u]
                                  /\ rounds'[u] = rounds[u]
  BY DEF EnterLibrary, IInv, TypeOK
<1>2. InUse' = InUse \union {h}
  BY <1>0, <1>1, HandlesAssumption DEF InUse
<1>3. \A g \in InUse : g # h /\ wraps[g] # f
  BY NewHandle, HandlesAssumption DEF InUse, Checked, Attached, IInv
<1>4. CountInv'
  BY <1>2, <1>3, CountMade DEF RefInv, IInv
<1>5. DropInv'
  BY <1>0, <1>1 DEF RefInv, DropInv
<1> QED
  BY <1>4, <1>5 DEF RefInv

LEMMA CallsRefInv ==
    ASSUME IInv, RefInv, NEW t \in Threads, Calls(t)
    PROVE  RefInv'
<1>1. ASSUME NEW kind, kind \notin Drops, NEW times, NEW from, Enter(t, kind, times, from)
      PROVE  RefInv'
  BY <1>1, EnterRefInv
<1>2. CASE \/ IsLocked(t) \/ GetOffsetOfVolume(t) \/ SeekOffsetOfVolume(t)
           \/ GetSizeOfVolume(t) \/ GetEncryptionMethod(t) \/ GetVolumeIdentifier(t)
           \/ GetCreationTime(t) \/ GetCreationTimeAsInteger(t)
           \/ GetNumberOfKeyProtectors(t) \/ GetDescription(t)
           \/ SetKeys(t) \/ SetPassword(t) \/ SetRecoveryPassword(t) \/ ReadStartupKey(t)
  <2>1. \E times \in {1, 2} : Enter(t, "query", times, 0)
    BY <1>2 DEF IsLocked, GetOffsetOfVolume, SeekOffsetOfVolume, GetSizeOfVolume,
         GetEncryptionMethod, GetVolumeIdentifier, GetCreationTime,
         GetCreationTimeAsInteger, GetNumberOfKeyProtectors, GetDescription, SetKeys,
         SetPassword, SetRecoveryPassword, ReadStartupKey, Query
  <2> QED
    BY <2>1, EnterRefInv DEF Drops
<1>3. CASE SignalAbort(t) \/ Unlock(t) \/ ReadBufferOfVolume(t) \/ ReadBufferAtOffset(t)
           \/ Open(t) \/ Close(t)
           \/ GetKeyProtector(t) \/ GetKeyProtectors(t) \/ GetItem(t) \/ IterNext(t)
  <2>1. \E kind \in {"signal_abort", "unlock", "read", "open", "close", "get_protector",
                     "get_protectors", "next_protector"}, times \in Int, from \in Int :
            Enter(t, kind, times, from)
    BY <1>3 DEF SignalAbort, Unlock, ReadBufferOfVolume, ReadBufferAtOffset, Open, Close,
         GetKeyProtector, GetKeyProtectors, GetItem, IterNext
  <2> QED
    BY <2>1, EnterRefInv DEF Drops
<1>4. CASE Initialize(t)
  <2>1. UNCHANGED <<handle, call, rounds, wraps, references>> /\ volume = "absent"
    BY <1>4 DEF Initialize, request, files, LifeCycle!Initialize
  <2>2. fileIoHandle' = fileIoHandle
    BY <1>4, <2>1 DEF Initialize, RefInv, DropInv
  <2> QED
    BY <2>1, <2>2, RefFrame
<1>5. CASE OpenFileObject(t)
  BY <1>5, OpenFileObjectRefInv
<1>6. CASE Free(t)
  <2>1. \/ Enter(t, "free", 1, 0) /\ fileIoHandle = Nothing
        \/ Enter(t, "close_and_free", 2, 0)
    BY <1>6 DEF Free, Freed
  <2> QED
    BY <2>1, EnterRefInv
<1>7. CASE CheckVolumeSignature(t)
  BY <1>7, CheckVolumeSignatureRefInv
<1>8. CASE FreeKeyProtectors(t)
  <2>1. UNCHANGED <<handle, call, rounds, wraps, references, fileIoHandle, volume>>
    BY <1>8 DEF FreeKeyProtectors, request, files, library
  <2> QED
    BY <2>1, RefFrame
<1>9. CASE AskKeyProtector(t) \/ FreeKeyProtector(t)
  <2>1. PICK kind \in OfProtector : EnterProtector(t, kind)
    BY <1>9 DEF AskKeyProtector, FreeKeyProtector, OfProtector
  <2>2. kind \notin Drops
    BY DEF OfProtector, Drops
  <2> QED
    BY <2>1, <2>2, EnterRefInv
<1> QED
  BY <1>2, <1>3, <1>4, <1>5, <1>6, <1>7, <1>8, <1>9 DEF Calls

(* Only freeing makes a volume absent. *)
LEMMA AnswerFrees ==
    ASSUME IInv, NEW t \in Threads, LibraryAnswers(t), volume' = "absent"
    PROVE  \/ volume = "absent"
           \/ call[t] = "free"
           \/ call[t] = "close_and_free" /\ rounds[t] = 1
<1> SUFFICES ASSUME volume # "absent", call[t] # "free",
                    ~(call[t] = "close_and_free" /\ rounds[t] = 1)
             PROVE  FALSE
  OBVIOUS
<1> USE DEF LibraryOpens, LibraryCloses, LibraryUnlocks, Fails, Works, Same
<1>1. CASE call[t] \in {"open", "open_file_object"}
  BY <1>1 DEF LibraryAnswers, LifeCycle!Open
<1>2. CASE call[t] = "close" \/ (call[t] = "close_and_free" /\ rounds[t] = 2)
  BY <1>2 DEF LibraryAnswers, LifeCycle!Close
<1>3. CASE call[t] = "unlock"
  BY <1>3 DEF LibraryAnswers, LifeCycle!Unlock
<1>4. CASE /\ call[t] \notin {"open", "open_file_object", "close", "free", "unlock"}
           /\ ~(call[t] = "close_and_free" /\ rounds[t] \in {1, 2})
  BY <1>4 DEF LibraryAnswers
<1> QED
  BY <1>1, <1>2, <1>3, <1>4

LEMMA AnswerRefInv ==
    ASSUME IInv, RefInv, NEW t \in Threads, Answer(t)
    PROVE  RefInv'
<1>1. /\ UNCHANGED <<call, rounds, handle, fileIoHandle, references>>
      /\ LibraryAnswers(t)
  BY AnswerEffects DEF Answer, IInv, AttachedInv
<1>2. \A h \in InUse : wraps'[h] = wraps[h]
  BY WrapsApart, HandlesAssumption DEF Answer, Forget, IInv
<1>3. CountInv'
  BY <1>1, <1>2, CountFrame DEF RefInv
<1>4. DropInv'
  BY <1>1, AnswerFrees DEF RefInv, DropInv
<1> QED
  BY <1>3, <1>4 DEF RefInv

(* Whoever returns and checked no signature had no handle of its own.      *)
LEMMA ReturnsHandle ==
    ASSUME IInv, NEW t \in Threads, call[t] # "check_signature", Return(t) \/ Continue(t)
    PROVE  /\ handle' = handle
           /\ \A u \in Threads \ {t} : call'[u] = call[u] /\ rounds'[u] = rounds[u]
           /\ call'[t] = "none" \/ call'[t] = call[t]
           /\ Return(t) => call'[t] = "none"
           /\ Continue(t) => rounds'[t] = rounds[t] - 1
<1>1. handle[t] = Nothing
  BY DEF IInv, CallInv
<1>2. CASE Return(t)
  <2>1. ~Continue(t)
    BY <1>2, ThreadsAssumption DEF Continue, Return, Holder
  <2> QED
    BY <1>1, <1>2, <2>1 DEF Return, IInv, TypeOK
<1>3. CASE Continue(t)
  <2>1. ~Return(t)
    BY <1>3, ThreadsAssumption DEF Continue, Return, Holder
  <2> QED
    BY <1>3, <2>1 DEF Continue, IInv, TypeOK
<1> QED
  BY <1>2, <1>3

(* A return that frees the handle of the Python object.                    *)
LEMMA FreeingReturnRefInv ==
    ASSUME IInv, RefInv, NEW t \in Threads, call[t] # "check_signature",
           Return(t) \/ Continue(t), FreeFileIoHandle(attached)
    PROVE  RefInv'
<1>1. handle' = handle /\ fileIoHandle' = Nothing
  BY ReturnsHandle DEF FreeFileIoHandle
<1>2. CountInv'
  BY <1>1, FreeingCounts DEF RefInv
<1> QED
  BY <1>1, <1>2 DEF RefInv, DropInv

LEMMA CheckReturnsRefInv ==
    ASSUME IInv, RefInv, NEW t \in Threads, CheckReturns(t), UNCHANGED volume
    PROVE  RefInv'
<1> USE DEF CheckReturns, python
<1>1. handle[t] \in InUse /\ handle[t] # Nothing
  BY DEF IInv, CallInv, TypeOK, InUse
<1>2. /\ handle'[t] = Nothing /\ call'[t] = "none" /\ fileIoHandle' = fileIoHandle
      /\ \A u \in Threads \ {t} : /\ handle'[u] = handle[u] /\ call'[u] = call[u]
                                  /\ rounds'[u] = rounds[u]
  BY DEF Return, IInv, TypeOK
<1>3. /\ fileIoHandle # handle[t]
      /\ \A u \in Threads \ {t} : handle[u] # handle[t]
  BY <1>1 DEF IInv, HandleInv
<1>4. InUse' = InUse \ {handle[t]}
  BY <1>2, <1>3, HandlesAssumption DEF InUse
<1>5. CountInv'
  BY <1>1, <1>4, CountFreed DEF RefInv, IInv
<1>6. DropInv'
  BY <1>2 DEF RefInv, DropInv
<1> QED
  BY <1>5, <1>6 DEF RefInv

LEMMA ReturnToPythonRefInv ==
    ASSUME IInv, RefInv, NEW t \in Threads, ReturnToPython(t)
    PROVE  RefInv'
<1>1. volume' = volume
  BY DEF ReturnToPython, library
<1>2. ASSUME call[t] # "check_signature", Return(t) \/ Continue(t),
             UNCHANGED <<files, fileIoHandle>>,
             Continue(t) /\ call[t] = "close_and_free" => rounds[t] = 1
      PROVE  RefInv'
  <2>1. /\ handle' = handle
        /\ \A u \in Threads \ {t} : call'[u] = call[u] /\ rounds'[u] = rounds[u]
        /\ call'[t] = "none" \/ call'[t] = call[t]
        /\ Return(t) => call'[t] = "none"
    BY <1>2, ReturnsHandle
  <2>2. call'[t] \in Drops => fileIoHandle = Nothing
    BY <1>2, <2>1 DEF Drops, RefInv, DropInv
  <2> QED
    BY <1>1, <1>2, <2>1, <2>2, RefFrame DEF files
<1>3. CASE OpenReturns(t) \/ CloseReturns(t)
  BY <1>2, <1>3, FreeingReturnRefInv, ThreadsAssumption
     DEF OpenReturns, CloseReturns, python
<1>4. CASE CloseOfFreeReturns(t)
  <2>1. Return(t) => ~Continue(t)
    BY ThreadsAssumption DEF Continue, Return, Holder
  <2> QED
    BY <1>2, <1>4, <2>1, FreeingReturnRefInv DEF CloseOfFreeReturns, python
<1>5. CASE CheckReturns(t)
  BY <1>1, <1>5, CheckReturnsRefInv
<1>6. CASE ProtectorReturns(t) \/ ProtectorsReturn(t) \/ ProtectorFreed(t)
  <2>1. Return(t) /\ ~Continue(t)
    BY <1>6, ThreadsAssumption
       DEF ProtectorReturns, ProtectorsReturn, ProtectorFreed, Return, Continue, Holder
  <2> QED
    BY <1>2, <1>6, <2>1 DEF ProtectorReturns, ProtectorsReturn, ProtectorFreed
<1>7. CASE OtherReturns(t)
  BY <1>2, <1>7 DEF OtherReturns, python
<1> QED
  BY <1>3, <1>4, <1>5, <1>6, <1>7 DEF ReturnToPython

LEMMA NextRefInv == IInv /\ RefInv /\ [Next]_vars => RefInv'
<1> SUFFICES ASSUME IInv, RefInv, [Next]_vars PROVE RefInv'
  OBVIOUS
<1>1. CASE UNCHANGED vars
  BY <1>1, RefFrame, ThreadsAssumption DEF vars, request
<1>2. CASE Next
  <2> PICK t \in Threads : TakeGil(t) \/ YieldGil(t) \/ Calls(t) \/ Proceed(t)
    BY <1>2 DEF Next
  <2>1. CASE TakeGil(t) \/ YieldGil(t) \/ Lock(t) \/ UseKey(t)
    <3>1. UNCHANGED <<handle, call, rounds, wraps, references, fileIoHandle, volume>>
      BY <2>1 DEF TakeGil, YieldGil, Lock, UseKey, request, files, library, python
    <3> QED
      BY <3>1, RefFrame
  <2>2. CASE Calls(t)
    BY <2>2, CallsRefInv
  <2>3. ASSUME NEW outcomes, NEW next, CallBack(t, outcomes, next)
        PROVE  RefInv'
    <3>1. UNCHANGED <<handle, call, rounds, wraps, references, fileIoHandle, volume>>
      BY <2>3 DEF CallBack, Answered, request, library, python
    <3> QED
      BY <3>1, RefFrame
  <2>4. CASE Seek(t) \/ AskSize(t) \/ SeekAgain(t) \/ Read(t)
    BY <2>3, <2>4 DEF Seek, AskSize, SeekAgain, Read
  <2>5. CASE Answer(t)
    BY <2>5, AnswerRefInv
  <2>6. CASE ReturnToPython(t)
    BY <2>6, ReturnToPythonRefInv
  <2> QED
    BY <2>1, <2>2, <2>4, <2>5, <2>6 DEF Proceed
<1> QED
  BY <1>1, <1>2

(* Whatever fails, whichever thread checks or opens what, and also when a  *)
(* program opens an open volume again, pybde holds as many references to a *)
(* file object as there are handles that it is going to free.              *)
THEOREM ReferencesAreKept == Spec => []ReferencesKept
<1>1. ASSUME IInv, RefInv
      PROVE  ReferencesKept
  <2>1. Handles \intersect Owned = InUse
    BY <1>1, HandlesAssumption DEF Owned, InUse, RefInv, DropInv
  <2>2. SUFFICES ASSUME NEW f \in Files
                 PROVE  references[f] = Cardinality({h \in InUse : wraps[h] = f})
    BY <2>1 DEF ReferencesKept
  <2>3. CASE \E h \in InUse : wraps[h] = f
    <3>1. PICK h \in InUse : wraps[h] = f
      BY <2>3
    <3>2. {g \in InUse : wraps[g] = f} = {h}
      BY <1>1, <3>1, WrapsApart DEF IInv
    <3> QED
      BY <1>1, <2>3, <3>2, FS_Singleton DEF RefInv, CountInv
  <2>4. CASE ~\E h \in InUse : wraps[h] = f
    <3>1. {g \in InUse : wraps[g] = f} = {}
      BY <2>4
    <3> QED
      BY <1>1, <2>4, <3>1, FS_EmptySet DEF RefInv, CountInv
  <2> QED
    BY <2>3, <2>4
<1>2. Spec => []RefInv
  <2>1. Init => RefInv
    BY InitRefInv
  <2>2. IInv /\ RefInv /\ [Next]_vars => RefInv'
    BY NextRefInv
  <2> QED
    BY <2>1, <2>2, Invariance, PTL DEF Spec
<1> QED
  BY <1>1, <1>2, Invariance, PTL
=============================================================================
