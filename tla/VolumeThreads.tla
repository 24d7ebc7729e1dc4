--------------------------- MODULE VolumeThreads ---------------------------
(***************************************************************************)
(* Several threads calling one libbde_volume_t. The functions take its     *)
(* read/write lock, but some look at the volume before they take it, and   *)
(* libbde_volume_open takes it twice. A call is cut where another thread   *)
(* can come between: the look, taking the lock, and what is done under it. *)
(*                                                                         *)
(* Of the volume only what these calls race about is kept: the file IO     *)
(* handle with its two flags, whether the structures of open exist,        *)
(* is_locked and the metadata of the startup key.                          *)
(***************************************************************************)
EXTENDS Naturals, FiniteSets

CONSTANTS
    Threads,
    Programs,   \* each says, thread |-> the functions it calls
    MaxCalls,   \* bound: how many calls a thread makes
    None

Functions ==
    {"open", "open_file_io_handle", "close", "unlock", "read_buffer",
     "get_size", "read_startup_key"}

ASSUME ThreadsAssumption ==
    /\ Programs \subseteq [Threads -> SUBSET Functions]
    /\ MaxCalls \in Nat
    /\ None \notin Threads

(* Every thread has a file IO handle of its own; a handle that the library *)
(* creates, and the metadata of a startup key, are named for the call.     *)
CallerHandles == {[owner |-> "caller", thread |-> t, call |-> 0] : t \in Threads}
LibraryHandles ==
    {[owner |-> "library", thread |-> t, call |-> n] : t \in Threads, n \in 1 .. MaxCalls}
Handles == CallerHandles \union LibraryHandles
StartupKeys == [thread : Threads, call : 1 .. MaxCalls]

ASSUME NoneAssumption == None \notin Handles /\ None \notin StartupKeys

VARIABLES
    program,        \* the program that the threads follow
    pc,             \* thread |-> where it is in its call
    left,           \* thread |-> the calls it has left, the current included
    mine,           \* thread |-> the handle that its open was called with
    openedByMe,     \* thread |-> its open opened that handle
    writer,         \* read_write_lock: who has it for writing
    readers,        \* and for reading
    fileHandle,     \* file_io_handle
    created,        \* file_io_handle_created_in_library
    opened,         \* file_io_handle_opened_in_library
    structures,     \* volume_header, the metadata and sector_data_vector exist
    isLocked,       \* is_locked
    startupKey,     \* external_key_metadata
    handles,        \* handle |-> "absent", "closed", "open" or "freed"
    startupKeys,    \* the startup key metadata allocated and not freed
    overtaken       \* history: a close came between the two times that an
                    \* open has the lock

threads == <<pc, left, mine, openedByMe>>
lock == <<writer, readers>>
volume == <<fileHandle, created, opened, structures, isLocked, startupKey>>
vars == <<program, threads, lock, volume, handles, startupKeys, overtaken>>

Init ==
    /\ program \in Programs
    /\ pc = [t \in Threads |-> "idle"]
    /\ left = [t \in Threads |-> MaxCalls]
    /\ mine = [t \in Threads |-> None]
    /\ openedByMe = [t \in Threads |-> FALSE]
    /\ writer = None
    /\ readers = {}
    /\ fileHandle = None
    /\ created = FALSE
    /\ opened = FALSE
    /\ structures = FALSE
    /\ isLocked = TRUE
    /\ startupKey = None
    /\ handles = [h \in Handles |-> IF h \in CallerHandles THEN "closed" ELSE "absent"]
    /\ startupKeys = {}
    /\ overtaken = FALSE

Calling(t, function) ==
    /\ pc[t] = "idle"
    /\ left[t] > 0
    /\ function \in program[t]

Goto(t, label) ==
    /\ pc' = [pc EXCEPT ![t] = label]
    /\ UNCHANGED left

Return(t) ==
    /\ pc' = [pc EXCEPT ![t] = "idle"]
    /\ left' = [left EXCEPT ![t] = @ - 1]

(* The call is over before it took the lock. *)
Refused(t) == Return(t) /\ UNCHANGED <<mine, openedByMe, handles, startupKeys>>

(* libcthreads_read_write_lock_grab_for_write and _for_read *)
GrabForWrite(t, label) ==
    /\ writer = None
    /\ readers = {}
    /\ writer' = t
    /\ Goto(t, label)
    /\ UNCHANGED <<readers, mine, openedByMe, volume, handles, startupKeys>>

GrabForRead(t, label) ==
    /\ writer = None
    /\ readers' = readers \union {t}
    /\ Goto(t, label)
    /\ UNCHANGED <<writer, mine, openedByMe, volume, handles, startupKeys>>

Release == writer' = None /\ UNCHANGED readers

-----------------------------------------------------------------------------
(* Open: the handle of the volume is looked at, and the caller's is opened, *)
(* without the lock. What a caller does with a handle that was freed is    *)
(* not defined: there the model stops.                                     *)
NewHandle(t, function) ==
    IF function = "open"
    THEN [owner |-> "library", thread |-> t, call |-> left[t]]
    ELSE [owner |-> "caller", thread |-> t, call |-> 0]

BeginOpen(t) ==
    /\ \E function \in {"open", "open_file_io_handle"} :
        /\ Calling(t, function)
        /\ IF fileHandle # None
           THEN Refused(t)
           ELSE LET h == NewHandle(t, function)
                IN  /\ handles[h] # "freed"
                    /\ mine' = [mine EXCEPT ![t] = h]
                    /\ openedByMe' = [openedByMe EXCEPT ![t] = handles[h] # "open"]
                    /\ handles' = [handles EXCEPT ![h] = "open"]
                    /\ Goto(t, "open lock")
                    /\ UNCHANGED startupKeys
    /\ UNCHANGED <<lock, volume>>

OpenLock(t) == pc[t] = "open lock" /\ GrabForWrite(t, "open read")

(* What on_error does to a handle: close it, free it when it was created.  *)
Dropped(t) ==
    IF mine[t].owner = "library" THEN "freed"
    ELSE IF openedByMe[t] THEN "closed"
    ELSE handles[mine[t]]

FaultyMayOpenRead == TRUE       \* trusts the look before the lock

(* libbde_internal_volume_open_read refuses a volume that has structures   *)
(* already,                                                                *)
MayOpenRead == ~structures

(* and can fail; the volume may be unlocked when it succeeds.              *)
OpenRead(t) ==
    /\ pc[t] = "open read"
    /\ Release
    /\ \/ /\ MayOpenRead
          /\ structures' = TRUE
          /\ isLocked' \in {isLocked, FALSE}
          /\ fileHandle' = mine[t]
          /\ opened' = openedByMe[t]
          /\ IF mine[t].owner = "library"
             THEN Goto(t, "created lock") /\ UNCHANGED mine
             ELSE Return(t) /\ mine' = [mine EXCEPT ![t] = None]
          /\ UNCHANGED handles
       \/ /\ handles' = [handles EXCEPT ![mine[t]] = Dropped(t)]
          /\ mine' = [mine EXCEPT ![t] = None]
          /\ Return(t)
          /\ UNCHANGED <<fileHandle, opened, structures, isLocked>>
    /\ openedByMe' = [openedByMe EXCEPT ![t] = FALSE]
    /\ UNCHANGED <<created, startupKey, startupKeys>>

(* libbde_volume_open takes the lock again to note that the handle is its, *)
(* whatever is attached by then.                                           *)
CreatedLock(t) == pc[t] = "created lock" /\ GrabForWrite(t, "created")

Created(t) ==
    /\ pc[t] = "created"
    /\ created' = TRUE
    /\ mine' = [mine EXCEPT ![t] = None]
    /\ Return(t)
    /\ Release
    /\ UNCHANGED <<openedByMe, fileHandle, opened, structures, isLocked,
                   startupKey, handles, startupKeys>>

-----------------------------------------------------------------------------
(* Close *)
BeginClose(t) ==
    /\ Calling(t, "close")
    /\ IF fileHandle = None
       THEN Refused(t)
       ELSE Goto(t, "close lock") /\ UNCHANGED <<mine, openedByMe, handles, startupKeys>>
    /\ UNCHANGED <<lock, volume>>

CloseLock(t) == pc[t] = "close lock" /\ GrabForWrite(t, "close")

(* What close does to the handle, going by the flags of the volume. *)
ClosedHandle(h) ==
    IF created THEN "freed" ELSE IF opened THEN "closed" ELSE handles[h]

FaultyLockedAfterClose == isLocked

(* Close frees the structures of open, locks the volume and forgets whose  *)
(* the handle was.                                                         *)
StructuresAfterClose == FALSE
CreatedAfterClose == FALSE
LockedAfterClose == TRUE

Close(t) ==
    /\ pc[t] = "close"
    /\ handles' = [h \in Handles |->
                      IF h = fileHandle THEN ClosedHandle(h) ELSE handles[h]]
    /\ fileHandle' = None
    /\ created' = CreatedAfterClose
    /\ opened' = FALSE
    /\ structures' = StructuresAfterClose
    /\ isLocked' = LockedAfterClose
    /\ startupKey' = None
    /\ startupKeys' = startupKeys \ {startupKey}
    /\ Return(t)
    /\ Release
    /\ UNCHANGED <<mine, openedByMe>>

-----------------------------------------------------------------------------
(* Unlock and read: all of it under the lock. *)
BeginLocked(t) ==
    /\ \/ Calling(t, "unlock") /\ GrabForWrite(t, "unlock")
       \/ Calling(t, "read_buffer") /\ GrabForWrite(t, "read")

Unlock(t) ==
    /\ pc[t] = "unlock"
    /\ isLocked' = IF structures THEN FALSE ELSE isLocked
    /\ Return(t)
    /\ Release
    /\ UNCHANGED <<mine, openedByMe, fileHandle, created, opened, structures,
                   startupKey, handles, startupKeys>>

(* The thread is inside the read while its pc is "read": see HandleUsable. *)
Read(t) ==
    /\ pc[t] = "read"
    /\ Return(t)
    /\ Release
    /\ UNCHANGED <<mine, openedByMe, volume, handles, startupKeys>>

(* libbde_volume_get_size looks at is_locked before it takes the lock. *)
BeginGetSize(t) ==
    /\ Calling(t, "get_size")
    /\ IF isLocked THEN Return(t) ELSE Goto(t, "size lock")
    /\ UNCHANGED <<mine, openedByMe, lock, volume, handles, startupKeys>>

SizeLock(t) == pc[t] = "size lock" /\ GrabForRead(t, "size")

FaultyGetSize(t) ==                 \* returns without releasing the lock
    /\ pc[t] = "size"
    /\ Return(t)
    /\ UNCHANGED <<mine, openedByMe, lock, volume, handles, startupKeys>>

GetSize(t) ==
    /\ pc[t] = "size"
    /\ readers' = readers \ {t}
    /\ Return(t)
    /\ UNCHANGED <<mine, openedByMe, writer, volume, handles, startupKeys>>

-----------------------------------------------------------------------------
(* The startup key is read from its file without the lock, after a look at *)
(* the handle and at the startup key that is there; a failure frees it.    *)
BeginReadStartupKey(t) ==
    /\ Calling(t, "read_startup_key")
    /\ IF fileHandle # None \/ startupKey # None
       THEN Refused(t)
       ELSE /\ startupKeys' = startupKeys \union {[thread |-> t, call |-> left[t]]}
            /\ Goto(t, "key file")
            /\ UNCHANGED <<mine, openedByMe, handles>>
    /\ UNCHANGED <<lock, volume>>

FaultyKeyFileFails(t) ==            \* does not free the metadata
    /\ pc[t] = "key file"
    /\ Return(t)
    /\ UNCHANGED <<mine, openedByMe, lock, volume, handles, startupKeys>>

KeyFileFails(t) ==
    /\ pc[t] = "key file"
    /\ startupKeys' = startupKeys \ {[thread |-> t, call |-> left[t]]}
    /\ Return(t)
    /\ UNCHANGED <<mine, openedByMe, lock, volume, handles>>

KeyLock(t) == pc[t] = "key file" /\ GrabForWrite(t, "key")

SetStartupKey(t) ==
    /\ pc[t] = "key"
    /\ startupKey' = [thread |-> t, call |-> left[t]]
    /\ Return(t)
    /\ Release
    /\ UNCHANGED <<mine, openedByMe, fileHandle, created, opened, structures,
                   isLocked, handles, startupKeys>>

Call(t) ==
    BeginOpen(t) \/ BeginClose(t) \/ BeginLocked(t) \/ BeginGetSize(t)
        \/ BeginReadStartupKey(t)

(* The steps of a call that has begun. *)
Step(t) ==
    \/ OpenLock(t) \/ OpenRead(t) \/ CreatedLock(t) \/ Created(t)
    \/ CloseLock(t) \/ Close(t) \/ Unlock(t) \/ Read(t)
    \/ SizeLock(t) \/ GetSize(t)
    \/ KeyFileFails(t) \/ KeyLock(t) \/ SetStartupKey(t)

(* What was so before the step: the program that is followed, and whether  *)
(* a close has run while an open was yet to take the lock again.           *)
History ==
    /\ UNCHANGED program
    /\ overtaken' = \/ overtaken
                    \/ /\ \E t \in Threads : pc[t] = "close" /\ pc'[t] = "idle"
                       /\ \E t \in Threads : pc[t] = "created lock"

Next == (\E t \in Threads : Call(t) \/ Step(t)) /\ History

(* A thread that is in a call and not kept waiting by the lock goes on.    *)
Spec == Init /\ [][Next]_vars /\ \A t \in Threads : WF_vars(Step(t) /\ History)

-----------------------------------------------------------------------------
(* What callers can agree on. A thread that lets the library create the    *)
(* handle does so while no other thread closes: without that an open can be *)
(* overtaken.                                                              *)
OneOpener ==
    \A p \in Programs : \A t, u \in Threads :
        t # u => ~("open" \in p[t] /\ "close" \in p[u])

(* One thread reads startup keys: see NoStartupKeyLost.                    *)
OneKeyReader ==
    \A p \in Programs : \A t, u \in Threads :
        t # u => ~("read_startup_key" \in p[t] /\ "read_startup_key" \in p[u])

Labels ==
    {"idle", "open lock", "open read", "created lock", "created", "close lock",
     "close", "unlock", "read", "size lock", "size", "key file", "key"}

UnderWriteLock == {"open read", "created", "close", "unlock", "read", "key"}

(* The members, the threads' places in their calls and what exists have    *)
(* their types; nobody makes more calls than it has.                       *)
TypeOK ==
    /\ pc \in [Threads -> Labels]
    /\ left \in [Threads -> 0 .. MaxCalls]
    /\ mine \in [Threads -> Handles \union {None}]
    /\ openedByMe \in [Threads -> BOOLEAN]
    /\ writer \in Threads \union {None}
    /\ readers \subseteq Threads
    /\ fileHandle \in Handles \union {None}
    /\ created \in BOOLEAN
    /\ opened \in BOOLEAN
    /\ structures \in BOOLEAN
    /\ isLocked \in BOOLEAN
    /\ startupKey \in StartupKeys \union {None}
    /\ handles \in [Handles -> {"absent", "closed", "open", "freed"}]
    /\ startupKeys \subseteq StartupKeys
    /\ overtaken \in BOOLEAN

(* Who is past taking the lock has it, for writing alone.                  *)
LockExcludes ==
    /\ \A t \in Threads : pc[t] \in UnderWriteLock <=> writer = t
    /\ \A t \in Threads : pc[t] = "size" <=> t \in readers
    /\ writer # None => readers = {}

(* Of opens that all saw a volume without a handle one opens the volume,   *)
(* the others are refused: while a handle is attached no open puts another *)
(* in its place, and it goes when a close takes it.                        *)
AttachedStays == [][fileHandle # None => fileHandle' \in {fileHandle, None}]_vars

(* A thread that reads the volume reads from a handle that is open: no     *)
(* other thread closed or freed it under its hands.                        *)
HandleUsable ==
    \A t \in Threads :
        pc[t] = "read" /\ ~isLocked => fileHandle # None /\ handles[fileHandle] = "open"

(* A handle of a caller is the caller's to free, whatever opens and closes *)
(* race: the flag that makes close free the handle is set only while the   *)
(* handle attached is one that the library created. The one way out of     *)
(* this is a close that comes between the two times that                   *)
(* libbde_volume_open has the lock: the flag is then set for whatever is   *)
(* attached next.                                                          *)
CallersHandlesKept ==
    ~overtaken =>
        /\ \A h \in CallerHandles : handles[h] # "freed"
        /\ created => fileHandle \in LibraryHandles

(* A handle that the library opened, or created, is attached or in the     *)
(* hands of the open that did so; else it was closed, or freed, again. Of  *)
(* opens that race none loses the handle it made, unless it is overtaken:  *)
(* the close does not know yet that the handle is to be freed.             *)
NoHandleLost ==
    ~overtaken =>
        \A h \in Handles :
            handles[h] = "open" \/ (h \in LibraryHandles /\ handles[h] = "closed") =>
                h = fileHandle \/ \E t \in Threads : mine[t] = h

(* The metadata of a startup key is kept by the volume, in the hands of    *)
(* the call that reads it, or freed.                                       *)
NoStartupKeyLost ==
    \A k \in startupKeys :
        \/ k = startupKey
        \/ pc[k.thread] \in {"key file", "key"} /\ left[k.thread] = k.call

(* Every call returns: nobody waits for the lock for ever.                 *)
CallsReturn == \A t \in Threads : pc[t] # "idle" ~> pc[t] = "idle"
=============================================================================
