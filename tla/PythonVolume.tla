---------------------------- MODULE PythonVolume ----------------------------
(***************************************************************************)
(* pybde: a Python volume object, used by several Python threads. A call   *)
(* runs with the interpreter's lock (GIL), lets go of it around each call  *)
(* of the library, and takes it again to make the result. The library      *)
(* takes the lock of its volume, and reads through a file object by        *)
(* calling back into Python, for which it needs the GIL: with the volume's *)
(* lock held a thread waits for the GIL, so none may do the opposite.      *)
(*                                                                         *)
(* The library's volume is a state of VolumeLifeCycle. Its lock is one     *)
(* that excludes; those of its functions that share it change nothing.     *)
(***************************************************************************)
EXTENDS PythonFileObject, FiniteSets

CONSTANTS
    Threads,
    Owner,          \* the thread that opens, closes and drops the volume
    Files,          \* file objects
    Handles,        \* bound: that many libbfio handles at a time
    Nobody,
    Nothing,
    Size,           \* bound: of a file object
    Protectors,     \* how many key protectors a volume has
    Liberties       \* what the program does that one would advise against:
                    \* "reopen", "ask_when_closed"

ASSUME ThreadsAssumption == Owner \in Threads /\ Nobody \notin Threads
ASSUME HandlesAssumption ==
    /\ Handles \intersect {Nothing, "path"} = {}
    /\ Files \intersect {"free", "freed"} = {}
    /\ Nothing \notin Nat /\ Nothing # "path"
ASSUME SizeAssumption == Size \in Nat \ {0}
ASSUME ProtectorsAssumption == Protectors \in Nat

VARIABLES
    gil,            \* the thread with the GIL, or Nobody
    lock,           \* the thread with the lock of the library's volume
    pc,             \* of each thread
    call,           \* of each thread: what it has called
    rounds,         \* how many calls of the library that still makes
    offset,         \* what it reads
    handle,         \* the handle that it made for itself
    result,         \* "ok" until the library says "error"; "stale" when what
                    \* it answered was freed before the call returned
    volume,         \* the library's volume, a state of VolumeLifeCycle
    attached,       \* the handle that it reads through, "path" for its own
    fileIoHandle,   \* file_io_handle of the Python object
    wraps,          \* handle |-> its file object, or "free" or "freed"
    objects,        \* file object |-> its position and so on
    references,     \* file object |-> references that io handles hold
    protector,      \* a key protector object: "none", "usable", or that its
                    \* volume was "closed" or "freed"
    parents,        \* references that key protectors hold on the volume
    iterator,       \* index in a key protectors object, or Nothing
    misused,        \* what was freed and used: "handle", or the key of a
                    \* volume that was "closed" or "freed" (history)
    misread         \* bytes came from elsewhere than was sought (history)

request == <<call, rounds, offset, handle, result>>
vars == <<gil, lock, pc, request, volume, attached, fileIoHandle, wraps, objects,
          references, protector, parents, iterator, misused, misread>>

LifeCycle == INSTANCE VolumeLifeCycle WITH state <- volume

Init ==
    /\ gil = Nobody
    /\ lock = Nobody
    /\ pc = [t \in Threads |-> "idle"]
    /\ call = [t \in Threads |-> "none"]
    /\ rounds = [t \in Threads |-> 0]
    /\ offset = [t \in Threads |-> 0]
    /\ handle = [t \in Threads |-> Nothing]
    /\ result = [t \in Threads |-> "ok"]
    /\ volume = "closed"
    /\ attached = Nothing
    /\ fileIoHandle = Nothing
    /\ wraps = [h \in Handles |-> "free"]
    /\ \E has \in BOOLEAN :
          objects = [f \in Files |-> [position |-> 0, size |-> Size, hasGetSize |-> has]]
    /\ references = [f \in Files |-> 0]
    /\ protector = "none"
    /\ parents = 0
    /\ iterator = Nothing
    /\ misused = {}
    /\ misread = FALSE

-----------------------------------------------------------------------------
(* Python code, the GIL and the calls *)

library == <<lock, volume, attached>>
files == <<wraps, objects, references>>
python == <<fileIoHandle, protector, parents, iterator>>
history == <<misused, misread>>

Running(t) == gil = t /\ pc[t] = "running"

TakeGil(t) ==
    /\ pc[t] = "idle"
    /\ gil = Nobody
    /\ gil' = t
    /\ pc' = [pc EXCEPT ![t] = "running"]
    /\ UNCHANGED <<request, library, files, python, history>>

YieldGil(t) ==
    /\ Running(t)
    /\ gil' = Nobody
    /\ pc' = [pc EXCEPT ![t] = "idle"]
    /\ UNCHANGED <<request, library, files, python, history>>

FaultyReleasesGil(kind) == kind # "query"

(* Py_BEGIN_ALLOW_THREADS stands before each call of the volume. *)
ReleasesGil(kind) == TRUE

EnterLibrary(t, kind, times, from, own) ==
    /\ gil' = IF ReleasesGil(kind) THEN Nobody ELSE t
    /\ pc' = [pc EXCEPT ![t] = "entering"]
    /\ call' = [call EXCEPT ![t] = kind]
    /\ rounds' = [rounds EXCEPT ![t] = times]
    /\ offset' = [offset EXCEPT ![t] = from]
    /\ handle' = [handle EXCEPT ![t] = own]
    /\ result' = [result EXCEPT ![t] = "ok"]

Raise(t) == UNCHANGED <<gil, pc, request>>

(* A program has the volume until it drops its last reference.             *)
HasVolume ==
    /\ volume # "absent"
    /\ \A other \in Threads : call[other] \notin {"free", "close_and_free"}

(* A call that takes no file object. Getters answer under the lock.        *)
Enter(t, kind, times, from) ==
    /\ Running(t)
    /\ HasVolume
    /\ EnterLibrary(t, kind, times, from, Nothing)
    /\ UNCHANGED <<library, files, python, history>>

Query(t, times) == Enter(t, "query", times, 0)

IsLocked(t) == Query(t, 1)
GetOffsetOfVolume(t) == Query(t, 1)
SeekOffsetOfVolume(t) == Query(t, 1)
GetSizeOfVolume(t) == Query(t, 1)
GetEncryptionMethod(t) == Query(t, 1)
GetVolumeIdentifier(t) == Query(t, 1)
GetCreationTime(t) == Query(t, 1)
GetCreationTimeAsInteger(t) == Query(t, 1)
GetNumberOfKeyProtectors(t) == Query(t, 1)
(* The size of the description, then room for it, then the description.    *)
GetDescription(t) == Query(t, 2)
SetKeys(t) == Query(t, 1)
SetPassword(t) == Query(t, 1)
SetRecoveryPassword(t) == Query(t, 1)
ReadStartupKey(t) == Query(t, 1)

SignalAbort(t) == Enter(t, "signal_abort", 1, 0)
Unlock(t) == Enter(t, "unlock", 1, 0)

(* Without a size the volume is asked for its own first.                   *)
ReadBufferOfVolume(t) ==
    \E times \in 1 .. 2, from \in 0 .. Size - 1 : Enter(t, "read", times, from)
ReadBufferAtOffset(t) ==
    \E from \in 0 .. Size - 1 : Enter(t, "read", 1, from)

-----------------------------------------------------------------------------
(* The io handles *)

Unused(h) == wraps[h] = "free"

(* The file objects that are checked, and the one that the volume has.     *)
Checked == {wraps[h] : h \in {handle[t] : t \in Threads} \ {Nothing}}
Attached == {wraps[h] : h \in {fileIoHandle} \ {Nothing}}

FaultyInitializeFails(f) == references' = [references EXCEPT ![f] = @ + 1]

(* pybde_file_object_initialize: an io handle with a reference to the file *)
(* object, in a libbfio handle; without the latter it is freed again.      *)
InitializeFails(f) == UNCHANGED references

InitializeHandle(h, f) ==
    /\ Unused(h)
    /\ wraps' = [wraps EXCEPT ![h] = f]
    /\ references' = [references EXCEPT ![f] = @ + 1]

(* libbfio_handle_free, with pybde_file_object_io_handle_free in it. What  *)
(* the library still refers to remains known as freed.                     *)
FreeHandle(h, referred) ==
    /\ wraps' = [wraps EXCEPT ![h] = IF referred = h THEN "freed" ELSE "free"]
    /\ references' = [references EXCEPT ![wraps[h]] = @ - 1]

FreeFileIoHandle(referred) ==
    /\ IF fileIoHandle = Nothing
       THEN UNCHANGED <<wraps, references>>
       ELSE FreeHandle(fileIoHandle, referred)
    /\ fileIoHandle' = Nothing
    /\ UNCHANGED <<objects, protector, parents, iterator>>

-----------------------------------------------------------------------------
(* Making, opening, closing and dropping the volume *)

(* pybde_volume_init of a new object *)
Initialize(t) ==
    /\ t = Owner
    /\ Running(t)
    /\ LifeCycle!Initialize
    /\ fileIoHandle' = Nothing
    /\ UNCHANGED <<gil, lock, pc, request, attached, files, protector, parents, iterator,
                   history>>

Open(t) == t = Owner /\ Enter(t, "open", 1, 0)

(* A volume that has a file_io_handle refuses another, and goes to         *)
(* on_error, which frees the one it has. A new handle may not come about.  *)
OpenFileObject(t) ==
    /\ t = Owner
    /\ Running(t)
    /\ HasVolume
    /\ IF fileIoHandle = Nothing
       THEN \/ /\ \E h \in Handles, f \in Files :
                    /\ f \notin Checked
                    /\ InitializeHandle(h, f)
                    /\ fileIoHandle' = h
               /\ EnterLibrary(t, "open_file_object", 1, 0, Nothing)
               /\ UNCHANGED <<objects, protector, parents, iterator>>
            \/ /\ \E f \in Files : InitializeFails(f)
               /\ Raise(t)
               /\ UNCHANGED <<wraps, objects, python>>
       ELSE /\ "reopen" \in Liberties
            /\ FreeFileIoHandle(attached)
            /\ Raise(t)
    /\ UNCHANGED <<library, history>>

Under(kind) == \E t \in Threads : call[t] = kind

(* A program that is careful does not close the volume while another       *)
(* thread asks a key protector.                                            *)
Close(t) ==
    /\ t = Owner
    /\ Under("ask_protector") => "ask_when_closed" \in Liberties
    /\ Enter(t, "close", 1, 0)

(* pybde_volume_free runs when nobody has the object: no call of it is     *)
(* under way and no key protector holds it. It closes what has a           *)
(* file_io_handle.                                                         *)
Elsewhere == {"none", "check_signature", "ask_protector", "free_protector"}

Freed == IF fileIoHandle # Nothing THEN "close_and_free" ELSE "free"

Free(t) ==
    /\ t = Owner
    /\ parents = 0
    /\ \A other \in Threads \ {t} : call[other] \in Elsewhere
    /\ \/ Freed = "free" /\ Enter(t, "free", 1, 0)
       \/ Freed = "close_and_free" /\ Enter(t, "close_and_free", 2, 0)

(* check_volume_signature_file_object, with an io handle of its own. The   *)
(* program gives it no file object that a volume reads through.            *)
CheckVolumeSignature(t) ==
    /\ Running(t)
    /\ \E h \in Handles, f \in Files :
          /\ f \notin Checked \union Attached
          /\ InitializeHandle(h, f)
          /\ EnterLibrary(t, "check_signature", 1, 0, h)
    /\ UNCHANGED <<library, objects, python, history>>

-----------------------------------------------------------------------------
(* Key protectors: the program keeps one at a time, and one sequence of    *)
(* them; any thread may use both.                                          *)

FaultyParent == 0

(* pybde_key_protector_new and pybde_key_protectors_new take a reference   *)
(* to the volume.                                                          *)
Parent == 1

GetKeyProtector(t) ==
    /\ protector = "none"
    /\ Enter(t, "get_protector", 1, 0)

GetKeyProtectors(t) ==
    /\ iterator = Nothing
    /\ Enter(t, "get_protectors", 1, 0)

(* The number of key protectors is that of when the sequence was made.     *)
GetItem(t) == iterator # Nothing /\ GetKeyProtector(t)

IterNext(t) ==
    /\ iterator # Nothing /\ iterator < Protectors
    /\ protector = "none"
    /\ Enter(t, "next_protector", 1, 0)

FreeKeyProtectors(t) ==
    /\ Running(t)
    /\ iterator # Nothing
    /\ iterator' = Nothing
    /\ parents' = parents - Parent
    /\ UNCHANGED <<gil, pc, request, library, files, fileIoHandle, protector, history>>

(* A call of a key protector: it holds the volume that it came from.       *)
EnterProtector(t, kind) ==
    /\ Running(t)
    /\ protector # "none"
    /\ ~Under("free_protector")
    /\ EnterLibrary(t, kind, 1, 0, Nothing)
    /\ UNCHANGED <<library, files, python, history>>

(* Its identifier and type are read, without the GIL and without the       *)
(* volume's lock, from the volume master key that it shares with the       *)
(* volume, and that goes when the volume is closed.                        *)
AskKeyProtector(t) ==
    /\ EnterProtector(t, "ask_protector")
    /\ \/ "ask_when_closed" \in Liberties
       \/ protector = "usable" /\ ~Under("close")

(* pybde_key_protector_free runs when nobody has the object.               *)
FreeKeyProtector(t) == ~Under("ask_protector") /\ EnterProtector(t, "free_protector")
=============================================================================
