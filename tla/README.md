# A verification of libbde

libbde is a C library, with command line tools and a Python binding, that
reads volumes encrypted with BitLocker Drive Encryption: it finds the metadata
of such a volume in a file, takes the keys from it with the secrets a caller
gives, and lets the caller seek in and read the decrypted volume. This
directory holds TLA+ models of that library, the configurations that check
them with TLC and proofs that TLAPS checks. File names of the C code are
relative to `src/` of the repository; `volume.c` stands for
`src/libbde/libbde_volume.c` and so on.

`PROJECT.json` lists the components, the runs, the properties with a mutation
of the model that each of them detects, the C lines behind every definition,
the disagreements found, the hazards and the theorems.

## 1. The system

### Components, their state and their operations

| Component | Code | State | Operations |
|---|---|---|---|
| Volume | `libbde_volume.c/.h` | `libbde_internal_volume_t`: the file IO handle and two flags that say who opened and who made it; IO handle; three metadata, volume header, sector data vector; keys and `keys_are_set`; encryption context and method; password keep; startup key metadata; `is_locked`; `current_offset`; a read/write lock | initialize, free, open (3), close, unlock, seek, read (2), set keys, passwords (4), read startup key (3), signal abort, getters |
| Sector data vector | `libbde_sector_data_vector.c` | a cache of sectors (libfcache) | get sector at offset |
| Sector data | `libbde_sector_data.c` | one sector, stored and decrypted | read at offset: blank, relocate, decrypt, patch |
| IO handle | `libbde_io_handle.c/.h` | version, sector size, volume size, offsets of the metadata and of the moved header, encrypted size, `abort` | clear, read the unencrypted volume header |
| Volume header | `libbde_volume_header.c`, `libbde_ntfs_volume_header.c` | the fields of the boot sector | read |
| Metadata | `libbde_metadata*.c`, `libbde_volume_master_key.c`, `libbde_external_key.c`, `libbde_stretch_key.c`, `libbde_key.c`, `libbde_aes_ccm_encrypted_key.c` | the entries of one FVE metadata block: one volume master key per kind of protector, the full volume encryption key, method, identifiers, times | read block, read entries, read volume master key, read full volume encryption key, getters |
| Encryption context | `libbde_encryption_context.c` | method and expanded keys | set keys, crypt |
| Diffuser | `libbde_diffuser.c` | none | encrypt, decrypt |
| Secrets | `libbde_password*.c`, `libbde_recovery.c` | hashes of the password and the recovery password | set, derive a key |
| Key protector | `libbde_key_protector.c` | a view of a volume master key | getters |
| Support | `libbde_support.c`, `libbde_error.c`, `libbde_notify.c`, `libbde_debug.c` | none | version, signature check, output |
| bdemount | `bdetools/bdemount.c`, `mount_handle.c`, `mount_file_system.c`, `mount_file_entry.c`, `mount_fuse.c`, `mount_dokan.c` | a mount handle with the options; a file range handle and a volume; a file system with an array of volumes; file entries, one in the `fh` or `Context` of each open file; the FUSE handle | main, set options, open (unlock with a prompt), close, free; the callbacks of FUSE and Dokan |
| bdeinfo | `bdetools/bdeinfo.c`, `info_handle.c` | an info handle with the options; a file range handle and a volume; what is printed | main, set options, open (unlock with a prompt), print, close, free |
| Binding | `pybde/` | a Python object over a volume: `file_io_handle`, references of key protectors to it; an IO handle over a Python file object | the calls of the library, each without the GIL; key protectors and their sequence; read, seek, size of a file object |

How they interact: a caller makes a volume, gives it secrets or keys, and opens
it with a name or a file IO handle. Open reads the volume header, then the
three metadata blocks that the header points to, and unlocks the volume when
the secrets suffice: from the first metadata block that yields keys it takes
the full volume encryption key, makes the encryption context from it and reads
the first sector, now decrypted, when the size of the volume is still unknown.
When they do not suffice the volume stays open and locked, and unlock can be
called after more secrets were given. A read loops over sectors; each comes
from the cache or is read by the sector data, which asks the IO handle for the
areas to blank and to relocate and the encryption context to decrypt. All
calls of a volume share its lock; `libbde_volume_signal_abort` sets a flag in
the IO handle without it, which the read loop looks at after each sector.
Nothing is written to the file, and the library itself has no callbacks.

The programs have. bdemount opens and unlocks a volume, gives it to a file system
object and runs the loop of FUSE or Dokan, which calls back for each request of the
kernel, one at a time. pybde gives the library an IO handle whose functions call the
methods of a Python object: the library then runs with the volume's lock and asks for
the interpreter's (GIL), while Python code runs with the GIL and asks for the volume's.

### What is hard

* *Reading*: a sector loop with a cache under it, clamping at the end of the
  volume, an offset inside a sector, areas that are blanked, moved or patched,
  an encryption that ends before the volume does, a sector that cannot be read
  half way, an abort between two sectors.
* *The life of a volume*: keys can come from four kinds of protector in three
  metadata blocks or from the caller, before or after open; an open can fail at
  many steps and the volume can then be used again, for another disk.
* *Threads*: the lock is taken inside the calls, but several of them look at
  the volume before they take it, and `libbde_volume_open` takes it twice.
  (`README` of the repository lists read/write thread safety as work in progress.)
* *Parsing*: sizes and offsets from the disk, entries that occur twice or refer
  to one another.
* *Tools*: any call can fail, in main, in an open that gives up half way, or in a
  callback that has made entries and names; each way out frees what there is,
  and callers free again what callees left.
* *Python*: two locks taken in either order, a file object that has one position for
  all who use it, references that have to be given up once, key protectors that
  outlive their volume.

### What makes each component correct

* Volume, reading: a read delivers the bytes of the decrypted volume at the
  current offset, as many as asked for and there, and moves the offset by them.
* Sector data vector: a sector from the cache is the sector that was asked for.
* Volume, life: an unlocked volume decrypts with keys of its own disk, obtained
  with a secret that was given; a closed one holds nothing of the last disk;
  handles are returned as they were taken.
* Volume, threads: the structures a call uses exist and its handle is open for
  as long as it uses them; nothing is lost or freed twice; every call returns.
* Metadata: the keys are found whenever one of the secrets fits one of the
  protectors; a damaged entry neither leaks nor is used.
* Encryption context, diffuser: decrypting inverts encrypting, each method uses
  the bytes of the key that it was given.
* Tools: only an unlocked volume is served; a listing has each volume once under a name
  that is found again; all that was made is freed, once; a tool ends.
* Binding: nothing freed is used, a file object is let go of when nobody reads through
  it any more, bytes come from where they were sought, and no two threads wait for
  one another.

## 2. Modules

`PlainVolume`, `SectorData` and `VolumeRead` model reading; `MetadataFormat` and
`MetadataRead` the parsing of the headers and the metadata; `VolumeLifeCycle`,
`KeyProtectors` and `Volume` the life of a volume in one thread from the parsed
metadata on; `RecoveryPassword` the conversion of one kind of secret; `VolumeThreads`
the locking. `ToolOptions`, `ToolOpen`, `MountFileSystem`, `MountTool`, `MountCallbacks`,
`InfoTool` and `Tools` model the programs, `PythonFileObject`, `PythonVolume` and
`PythonThreads` the binding.

Two abstract specifications join them. `VolumeRead` implements `PlainVolume`. `Volume`
implements `VolumeLifeCycle`, and the tools and the binding are built on that: the
volume in `ToolOpen` and `PythonVolume` is a `state` of it (`INSTANCE VolumeLifeCycle
WITH state <- volume`), moved by its actions.

### SectorData

`libbde_sector_data_read_file_io_handle` as an operator: `SectorContents(io, offset)`
is what the sector at an offset is delivered as. `io` is a record with the
fields of the IO handle that matter and the encryption method. A byte is
modelled by where it comes from: `Zero` for a blanked area, `Clear(p)` for the
decrypted (or never encrypted) byte of position `p` of the file, `Cipher(p)`
for the byte as it is stored, `Signature` and `Mirror` for the bytes of a Vista
boot sector that are patched, `Scrambled(p)` for what decrypting bytes that do
not start at a sector gives. The last is the one statement about
cryptography in the model: both CBC and XTS derive the block key from the
offset of the sector, so only decrypting from a sector's start inverts the
encryption.

`MadeOfSectors(io)` says what a volume looks like that the volume header and
the metadata let pass. The size of a sector is between 512 and 4096
(`volume_header.c:748`), the size of a metadata area is a constant 16384
or 65536, the size of the moved header a number of sectors (`metadata.c:340`).
That the offsets are at a sector's start is a property of the format; the code
does not check it.

### PlainVolume

The abstract specification of reading: the volume is one sequence of bytes
`View(p)`; `Read` delivers those that follow the current offset and moves it,
`Fail` changes nothing but the result, `Seek` moves the offset. No sectors, no
cache, no steps.

### VolumeRead

The seek and read functions, cut at each sector: `BeginReadAt` is the prologue
of `libbde_internal_volume_read_buffer_from_file_io_handle` (abort flag reset,
clamping), `CacheHit`, `CacheMiss` and `ReadFails` are
`libbde_sector_data_vector_get_sector_data_at_offset`, `CopySector` is the rest
of the iteration. `SignalAbort` can fall between any two of them. A cache with
all entries in use gives up any of them: libfcache is not part of the
repository and which entry it takes depends on the offset and on times.
The branch of the loop that leaves it when `read_size` is 0 is never taken,
because the loop is left first when nothing remains and a sector data offset is
less than a sector (`CopiesStayInside`); it has no counterpart.

`Whole` says what callers keep to: their reads start at a sector or stay inside
one. `BufferIsView` does not hold without it, see the disagreements.

### VolumeLifeCycle

What a program sees of a volume: absent, closed, locked, unlocked, and five actions
between them. A call that fails is a stutter.

### KeyProtectors and Volume

`KeyProtectors` has the search for keys in a parsed metadata block as functions:
the order of the four attempts (clear key, startup key, password, recovery
password), an attempt being decisive (a key or an error) or not, and the bytes
of each key that each method unwraps and uses. The 64 bytes of a key are three
parts (0-15, 16-31, 32-63), the coarsest division that tells the sizes 16, 32
and 64 apart.

`Volume` has the API as actions, one per function, each a whole call. A disk is
given by its key, its method, its three parsed blocks and its sizes: what the volume
header, the encrypted NTFS header and the metadata say, and that of the file, in
sectors. `OpenRead` is `libbde_internal_volume_open_read` and `UnlockOutcome` is
`libbde_internal_volume_unlock` with the correction of the volume size; `fault` is the
point at which one fails: "header" and "metadata" before the keys were read, "sector",
"size" and "vector" after. `isLocked`, `keys`, `context`, `blocks`, `volumeSize`
and the handle flags are the members of the structure. `presented` (which secrets were
given) and `lastRead` are history. `Liberties` says which call orders outside those
the header file describes callers use: "unlock_detached" (unlock a volume that is not
open) and "keys_attached" (set keys on one that is). No run uses them; with the first
`RightKeysDecrypt` does not hold, see the hazards.

`LifeCycleState` maps the members to a state of `VolumeLifeCycle`. A volume that is not
open and not locked is "broken", which no step of the abstract specification reaches.

### MetadataFormat and MetadataRead

`MetadataFormat` describes a file as the library finds it: a volume header, and
a block at each of some offsets with a list of entries. One entry is one record:
`form` says whether its header can be read (and if not, what is wrong with it or
that the list ends), `type` what its value is, `fits` whether the value has the
type and size that reading it needs; keys carry their kind, identifier and nested
entries. An entry of type volume header block with a value that is no offset and
size is not looked at by the code and therefore another type.

`MetadataRead` is `libbde_internal_volume_open_read` up to the keys. A step is
what happens between two allocations: `ReadHeader`, `ReadBlock` for the headers of
one of three blocks, and for each entry `ReadEntry` (`libbde_metadata_entry_read`),
one of the `Keep...` actions (a branch of the `switch` of
`libbde_metadata_read_entries_data`, with the reading of the nested entries) and
`AppendEntry`; `FinishBlock` takes the size of the volume header from the block
header when no entry gave it. `EntriesFail` is `on_error` of the loop, `OpenFails`
that of open. `allocated` is the set of structures in memory, each named by its
block, entry and kind; a pointer is the index of the entry that it was read from.
`OutOfMemory` fails any step of the loop for the volumes in `Faults`. After "read"
comes what `Volume` models.

Code that is compiled only with debug output is left out. That includes the
identifier of a volume with used disk space only
(`libbde_volume_header.c:241-249`), a format the library's README lists as
unsupported.

### RecoveryPassword

`libbde_utf8_recovery_password_calculate_hash` with its loop over the segments:
`ReadSegment` reads a number, checks that it is a multiple of 11 that fits in 16
bits after division, and stores it in the binary password, which is a local array with
`Uninitialised` entries at first and is overwritten with `Wiped` at the end. The
hash is the binary password itself: SHA-256 is taken to tell any two apart. The
UTF-16 function is the same text with other calls.

### VolumeThreads

One `libbde_volume_t` and several threads. A call is three steps where the
code has them: the look before the lock (`BeginOpen`, `BeginClose`, ...), taking
the lock (`OpenLock`, ...), and what is done under it. `fileHandle`, `created`,
`opened`, `structures`, `isLocked` and `startupKey` are the members the calls race
about; `handles` says of every handle whether it exists and is open;
`startupKeys` is what was allocated by `read_startup_key` and not freed.
libcthreads is external: `writer` and `readers` are its lock. Anyone may get a
free lock: POSIX promises no order. `Programs` says which functions each thread
calls. `OneOpener` and `OneKeyReader` are conditions on them: nobody closes while
another thread has the library make a handle, and one thread at most reads startup keys.
The run keeps to the second (its hazard says what happens otherwise) but not to the
first. `overtaken` is history: a close came between the two holds of the lock in
`libbde_volume_open`. What the properties of the handles say they say until then, whatever
the threads call, and without that reservation they fail (section 4). What a caller does
with a handle that was freed is not defined, so there the model stops. What is done under
the lock is one step with its release: the code's separate ways out, each with a release
of its own, are not told apart.

### The tools

`ToolOptions` reads the options `-k` and `-o` (an offset is a decimal number that wraps
at `Width` bits, as the code's does at 64). `ToolOpen` is what the handles of both
tools do in the same order: make a file range, give the volume its secrets, open it,
prompt when it stays locked, unlock. `step` is the next call of the running function
and `stack` has where its callers go on when it succeeds or fails. Any call may
fail, `MaxFailures` times in a run; `misused` notes whether something freed was used
or freed. The libraries under the tools and the kernel are external.

`MountFileSystem` maps paths to volumes and numbers to names. `MountTool` is main of
bdemount and its handle, with opening, appending to the array of volumes, mounting,
closing, freeing; `MountCallbacks` what FUSE and Dokan call. They call one at a time
(`fuse_loop`, not `fuse_loop_mt`; with Dokan the option SingleThread, which a build sets
that asks for a version of it from 2.00 on, `bdemount.c:650`: those are the builds
modelled), so a callback is one action, except that listing a directory is a step per entry, since it can fail at
each. `InfoTool` is bdeinfo: `printed` is what it prints, in order (the line that a volume
is locked and the one with the number of its key protectors are one step). `Tools`
composes them: one of the programs runs, to its end, or serves until unmounted.

### The binding

`PythonFileObject` is the IO handle over a Python object, as operators: each method
may raise, answer nonsense or be missing, and each operator says what the library is told
and how the object has moved. `PythonVolume` has the methods of the volume and the key
protectors as calls that check, let go of the GIL and enter the library. `PythonThreads`
goes on from there: the volume's lock, then the calls back for the size, for seeking and
for reading, each waiting for the GIL, then the library's answer and what pybde makes of
it. Getters and setters that do nothing but ask the library are one kind of call
("query"). Freeing a libbfio handle is one step: it runs under the GIL.
A key protector's calls (`AskKeyProtector`, `FreeKeyProtector`) let go of the GIL too, but
take no lock of the volume: `UseKey` is the step at which its getters read the volume
master key, between whatever steps of other threads. A close frees that key, also under a
protector that the library has returned and Python has not seen yet ("stale").
`references` counts the references that IO handles hold on a file object, `parents`
those of key protectors on the volume; `misused` is history, what was used after it was
freed. A file object is used by one handle at a time and moved by nobody else: a program
that seeks in it itself, or gives it to two volumes, gets what it asks for. Opening, closing and dropping is for one thread,
the `Owner`; the others use the volume. `Liberties` names what programs had better not do:
"reopen" calls `open_file_object` of a volume that is open, "ask_when_closed"
asks a key protector after its volume was closed, or closes it while another thread asks.

## 3. Runs

| Run | Properties | Shows | Bounds |
|---|---|---|---|
| `read` | `TypeOK`, `BufferIsView`, `CacheCoherent`, `ReadReturns`, `ReadsPlainVolume` | reading through sectors and cache implements `PlainVolume`, and reads return, aborted or not | volumes of 5 sectors of 2 bytes, one of each version; cache of 2; offsets up to `MaxOffset` = 11 |
| `read_any` | `BufferIsView` (violated) | a read from inside a sector into the next delivers wrong bytes | as `read`, `Whole` is FALSE |
| `volume` | `TypeOK`, `KeysOfVolume`, `KeysNeedSecret`, `DetachedIsClean`, `HandlesRestored`, `RightKeysDecrypt`, `SizeIsDisks`, `FollowsLifeCycle` | two disks used in turn with one volume, secrets of both and a key given by the caller, opens and unlocks that fail: the volume follows `VolumeLifeCycle`, with the keys and the size of the disk at hand | 2 disks, 2 secrets, 1 caller's key in 3 sizes; disk A states a size one sector short, disk B none |
| `volume_stale_keys` | `ReadsAreClear` (violated) | an open that fails late leaves its keys to the next | as `volume`, with the fault "sector", both disks state their size |
| `threads` | `AttachedStays`, `HandleUsable`, `NoHandleLost`, `CallersHandlesKept`, `NoStartupKeyLost`, `CallsReturn` | one owner opens, closes and reads startup keys while two use the volume; or all open and close with handles of their own; or two have the library make handles and close as they like | 3 threads, 3 calls each |
| `metadata` | `TypeOK`, `KeysAsListed`, `ReadIffInOrder`, `EveryStructureOwned`, `OpenReturns` | what is kept of the entries, which volumes open, that nothing is lost or freed twice, that an open ends | primary blocks of any two of 24 entries or any three of 6; three copies of which one is damaged in one of 11 ways; 8 headers; memory running out at any entry of lists of three from 7 |
| `metadata_vista` | `VistaOpens` (violated) | no Vista volume opens | a good Vista volume with blocks of each version |
| `recovery_password` | `ValidIsHashed`, `NoPasswordOnStack` | a valid password is hashed as its numbers divided by 11 and none stays on the stack | passwords of up to 3 segments where 2 are right, segments 0, 5, 11, 22, 33 and one that is no number, divided values up to 2 |
| `recovery_password_invalid` | `InvalidIsRefused` (violated) | a password with a wrong check digit is accepted | as `recovery_password` |
| `tools` | `TypeOK`, `ServedIsUnlocked`, `EntriesOwned`, `NothingFreedTwice`, `NothingLeft`, `InfoComplete`, `ListingComplete`, `ToolsProceed` | both tools from main to exit, with FUSE or Dokan, whatever call fails: what is served, listed and printed, and that it is freed once | 11 command lines, 2 open files, 5 paths, 1 failure, offsets of 8 bits, 2 protectors |
| `python` | `FreedNotUsed`, `ReferencesKept`, `SoughtIsRead`, `NoCircularWait` | two threads share a volume over a file object while another file object is checked; one may close it while the other asks a key protector | 2 threads, 2 file objects of 1 byte, 2 handles, 1 protector, with "ask_when_closed" |
| `python_reopen` | `FreedNotUsed` (violated) | opening an open volume frees the handle it reads through | as `python`, with "reopen" instead |

Why the bounds suffice: five sectors give each version a sector that is
blanked, moved, patched, stored as it is and encrypted, with one to cross into on
either side; a cache of two is full and evicts during a read of four
sectors. Sectors of two bytes have an inside. Two disks are needed for state to
be carried from one to the other, and a third adds no further kind of
leftover; three sizes of a caller's key are those the methods use. The sizes of disk A
make the correction happen, and would make it happen twice if it could; those of B
make the size be read from the encrypted header. A look before
the lock can be made stale by two calls of other threads (a close and an open),
which fit in the calls left to them. The loop over the entries keeps one pointer
for each kind, so what an entry does depends on whether one of its kind came
before: two entries show that for every pair of kinds, a third one that what lies
between does not matter. For lists of any length the theorems below hold. Of the
numbers of a recovery password 22 is the largest that still fits, 33 the first
that does not. A file system of bdemount holds one volume, so the paths are the root,
the volume under two names (with and without a leading zero), one too many, and something
else; one failure reaches every way out, and with two the properties of freeing do not
hold (section 4). Two open files let one be held while another is opened or released.
Eight bits let an offset of three digits wrap. Of the Python threads one has the volume's
lock and one the GIL; a third would wait for either. Two file objects are the one the
volume reads through and the one that is checked; an object of one byte has a
position before and one behind it. The theorems hold for any number of them.
The `volume*`, `metadata*` and `recovery*` runs have no counters
at all. `CHECK_DEADLOCK FALSE` is set for `threads`, where a thread
that made `MaxCalls` calls stops, and for `tools`, which end.

The mutations in `PROJECT.json` use operators named `Faulty...`, kept next to
the definition that they replace. They are not part of the model.

### Fairness

`VolumeRead` has weak fairness on the steps of a read that began, `VolumeThreads`
on the steps of a call that began, per thread: a running thread is scheduled.
Weak fairness on taking the lock says that a thread gets a lock that stays
free. `MetadataRead` has weak fairness on the steps of an open that began: it runs
in one thread and waits for nothing. The same goes for `RecoveryPassword`. `Tools` has
weak fairness on what main and a listing do (`Goes`): a process runs, and a callback that
began goes on; that the kernel calls back or unmounts is not assumed. `Volume`
and `PythonThreads` state none, and no liveness of theirs is claimed. Nothing is assumed
of callers: they need not call. That suffices for
`CallsReturn` because calls are bounded; with endless calls of others, POSIX
locks let a thread starve, and the model does not claim otherwise.

## 4. Disagreements

Each is a run that TLC ends with a counterexample.

* `read_any`: after a first sector entered at an offset inside it, the loop
  advances by what it copied (`volume.c:2243`), and so reads and decrypts what
  starts inside a sector.
* `volume_stale_keys`: an open that fails after taking keys from the metadata
  keeps them (`volume.c:1453` ff. frees everything else), and the next open does
  not read those of its own disk.
* `metadata_vista`: a Vista volume header has the offset of the first block only.
  The other two are taken from that block into the IO handle
  (`libbde_metadata.c:342`), but open looks for them where the volume header says,
  at offset 0 (`volume.c:1341`, `volume.c:1379`), and fails.
* `recovery_password_invalid`: a segment that fails its check breaks off the loop
  but the result is 1 all the same (`libbde_recovery.c:155-171`), so the password
  is accepted and a binary password hashed of which the rest was never written.

* `python_reopen`: `open_file_object` of a volume that is open raises an error by
  way of `on_error`, which frees the handle of the first open
  (`pybde_volume.c:850`, `pybde_volume.c:897`); the library goes on reading through it.

More was met while modelling that no document denies or that needs no run to be
seen. The models have it as the code does:

* `libbde_volume_open` notes that it made the handle under a second hold of the lock
  (`volume.c:460`); a close in between leaves the flag set for no handle or for
  another's: the handle is lost, or a caller's is freed by the next close. Without
  `~overtaken` `NoHandleLost` and `CallersHandlesKept` fail in `threads`. Programs with
  `OneOpener` do not meet it.
* The getters of a key protector read a volume master key that a close has freed, when
  they are called after it or run during it (`pybde_key_protector.c:348`,
  `libbde_key_protector.c:169`): `FreedNotUsed` leaves room for "closed", and with
  `misused = {}` in its place `python` fails. Programs without "ask_when_closed" do not
  meet it.
* Close clears 32 of the 64 bytes of the key (`volume.c:971`); free does not free
  the startup key metadata of a volume that is not open (`volume.c:206`); unlock
  with keys of the caller on a volume that is not open makes a context of method
  none that a later open keeps (`volume.c:1564`).
* Close leaves the sizes in the IO handle, so that the size of a closed volume can
  be asked for (`VolumeThreads`, `BeginGetSize`).
* When a volume cannot be closed, the mount handle keeps it in the array of its file
  system after freeing it (a TODO at `mount_handle.c:1347`); a second failure makes
  that a use of freed memory (`MaxFailures` = 2 and `NothingFreedTwice`).
* An open of the tools that fails with the prompted password at hand leaves it
  on the stack of bdemount (`typed`). An offset option that does not fit wraps.
  Main of bdemount with Dokan frees nothing, and with FUSE leaves the handle when FUSE
  never asked for anything (`NeverServed`).
* The size function of the Python IO handle returns 1 when it failed
  (`pybde_file_object_io_handle.c:1522`).

## 5. Proofs

`VolumeThreads_proofs` proves, for any set of threads, any assignment of calls
to them and any number of calls, `TypeOK`, `LockExcludes`,
`AttachedStays` and `HandleUsable`. Their inductive invariant `IInv` adds
what a thread holds at each place of its call: an open that waits for or has
the lock has a handle in its hands, one that is open. From
`LockExcludes` follows that at most one thread is past taking the lock, and
each action then disturbs only what that thread reads. An open that reads the volume under
the lock saw no structures there, and a volume with a handle has them, which is why an
attached handle stays.

`CallersHandlesKept` and `NoHandleLost` are proved of any programs, too, with
`NotedInv` on top of `IInv`: until an open is overtaken, the flag is right or about to be
noted by the open that attached the handle. `NeverOvertaken` proves of programs with
`OneOpener` that none ever is, so that for those the reservation falls away;
`NoStartupKeyLost` is proved of those with `OneKeyReader`: a thread on its way to a startup
key then finds none. The one assumption on constants is `NoneAssumption`: the
null pointer is no handle.

`Volume_proofs` proves `TypesKept` and `HandlesAreRestored` for any constants that the
module admits. The rest, `KeysAreVolumes`, `SecretsOpenKeys`, `CallersKeysUsed`,
`NothingIsLeft`, `SizeIsRight` and the refinement `VolumeHasLifeCycle`, assumes `Regular`:
the metadata of a disk have its method and its key or one that cannot be read
(`BlocksAgree`), callers take no `Liberties`, and an open fails before the keys are
read or because of them (`OpenFaults`). Without the last they are false, as
`volume_stale_keys` shows. Unlocks may fail anywhere. The inductive invariant `IInv`
has the types; `DetachedInv` and `AttachedInv`, what a volume without and with a disk
has: keys and blocks of that disk or none, a context made of both, a size that is stated,
read or corrected once; and `SecretsInv`, that the secrets it keeps were given.
The buffers of keys that are not set are zero in the parts that the next
keys may not write, without which the keys of a disk could be mixed.

`PythonThreads_proofs` proves, for any threads, file objects, handles and protectors,
the types, `NoCircularWait`, `SoughtIsRead` and `ReferencesKept`; of programs without
"reopen" also `FreedNotUsed` (`NothingFreedIsUsed`); and of programs that take no liberties
that nothing freed is used at all (`CarefulProgramsUseNothingFreed`). Its `IInv` says that the GIL is with the thread that runs Python code
(`GilInv`), that a thread in the library has the lock its call takes (`LockInv`),
which calls belong to whom, that each handle has a file object of its own
(`HandleInv`), and that what the library reads through is the handle of the Python
object unless that was freed (`AttachedInv`). `Careful` adds that no key protector outlives
its volume or is freed under a question (`ProtectorInv`, of every program); without
"reopen", that no attached handle was freed (`OpenInv`); without "ask_when_closed", that a
key protector that is asked has its key and nobody is closing (`AskInv`). `ReferencesKept`
counts handles per file object. Its invariant `RefInv` needs no counting: two handles
in use never wrap the same object (`WrapsApart`), so an object has one reference when a
handle in use wraps it and none otherwise (`CountInv`), and a volume that is gone or on
its way out has no handle (`DropInv`).

`VolumeRead_proofs` proves of any volume that is `MadeOfSectors`, any
offsets, sizes and size of the cache:

* `SectorIsView`: the sector at an aligned offset is delivered byte by byte as
  `PlainVolume` has it, through blanking, relocation, patching and decryption.
  It rests on lemmas about multiples of the sector size.
* `CacheStaysCoherent`: the cache holds what its sectors read as and no more
  than `CacheSize` of them.
* `TypesKept` and `CopiesStayInside`: whatever callers ask for, from a sector's start or
  not, each copy stays inside its sector, the buffer and the volume, and takes at least a
  byte, so that the loop comes closer to its end. Their invariant `BoundsInv` says that
  while the loop runs the buffer is not full and ends inside the volume.
* `BufferIsRight` and `ReadingIsPlain`: under `Whole`,
  `BufferIsView` and the implementation of `PlainVolume`. Their inductive
  invariant `ReadInv` adds to the coherence of the cache where the loop is
  (`InLoop`): the sector file offset is at a sector's start, it and the sector
  data offset add up to the current offset and what was copied, a sector data
  offset above 0 occurs in the first iteration only and then the buffer ends in
  that sector, and the buffer ends inside the volume. `BufferIsView` alone is not
  inductive, it does not say where the next bytes come from. `StepIsPlain` maps
  the steps: seeking and beginning a read to `Seek`, the last copy to `Read`, a
  failure to `Fail`, everything else to a stutter.

Its assumptions are those in the modules: `SectorDataAssumption`,
`CacheSizeAssumption`, `CallsAssumption` and `LayoutsAssumption`, and `Whole`
where it is stated.

`MetadataRead_proofs` proves, for any set of volumes, blocks with lists of any
length and order and memory that runs out anywhere in them, `TypeOK` (`TypesKept`),
`KeysAsListed` (`FirstKeysKept`) and `EveryStructureOwned` (`NothingLost`). The
inductive invariant `IInv` has, besides the types,

* `Stage`: which blocks were read and which not at each place of the open, and that
  the local variable holds an entry only between reading and appending it;
* `EntriesBefore`: the entries in the array of a block lie before the one at
  hand. Without it an entry could be in the array and in the local variable,
  and be freed twice;
* `Accounted`: `allocated` is what the local variable, the arrays and the pointers
  hold, element by element;
* `KeysInv`: `KeysAsListed` of each block, with the entries that were handled as a
  parameter, so that a step can be stated as one entry more (`FirstExtends`).

One lemma per action follows. `EntriesFailStep` covers every way out of the
loop; it is stated for the record that the action leaves in the block, because a
volume master key that could not be put in its array is pointed at but gone. It
assumes `VolumesAssumption` (what is read as a number is one, and the volume header
at offset 0 is no block) and `NotReadAssumption` (the null pointer is no block that
was read).

`MetadataOrder_proofs` goes on from `IInv` and proves `ReadIffInOrder`
(`ReadsWhatIsInOrder`). Its invariant `OrderInv` says

* in the loop (`LoopInv`): the entries behind it are whole and their values can be read,
  the size of the volume header is the last that one of them gave, and there is a
  description exactly when one of them is a description with text. The reader sees a
  second description only by the first, and the size only by what came last, while
  `InOrder` speaks of the list as a whole; this is what joins them;
* between the blocks (`OffsetsInv`, `ReadInv`): those before are in order, and unless the
  volume is one of Vista the offsets in the IO handle are those of the volume header;
* of a volume that was refused (`RefusedInv`): it is not in order. Each way out of the
  loop needs the entry that is to blame (`UnreadEntry`).

No Vista volume is ever read, whatever its blocks hold (`VistaIsNeverRead`), because the
second block is looked for at offset 0 (`VistaHasNoSecond`): `metadata_vista` shows one,
the theorem says that there is no other outcome.

`RecoveryPassword_proofs` proves, for any passwords, number of segments and
divisor, `TypeOK`, `ValidIsHashed` and `NoPasswordOnStack`. Its invariant `InLoop`
says that the segments before the one at hand are in the binary password, divided,
and that they passed the check; that a valid segment passes rests on the lemma
`Multiple` about division.

`Tools_proofs` proves the safety properties of both programs for any files, paths,
command lines, number of key protectors and number of calls that fail. Its invariant
`IInv` lists, for each step, the stacks of callers that occur there and what is then
made, open and freed, together with how many calls must have failed to get there:

* `OpeningInv` and `PresentedInv`: what there is of the volume at each step of opening,
  and which secrets had reached it. `ServedIsUnlocked` follows;
* `MountInv`, in `MountStarts`, `MountEnds`, `MountDestroys` and `MountFrees`: nothing has
  been made, all is open, or the volume was closed and the file was not, which takes a
  failed call, and is met again only after another. `TwoMustFail` says so of `misused`
  for any `MaxFailures`; `NothingIsFreedTwice` is the case `MaxFailures <= 1`, and with 2
  the property does not hold;
* `InfoInv` and `PrintedInv`: which objects made for printing exist at each step and how
  often each line was printed when it is reached (`AllIsPrinted`). bdeinfo frees nothing
  twice however many calls fail;
* `EntriesInv`: the number of file entries is that of the open files and of the
  callback at hand (`EntriesAreOwned`), in a listing those of its step.

`ListingsAreComplete` has one more invariant, `DeliveredInv`: the names delivered when a
listing is at a step. That the name of the volume is found again is computed from the
digits. `TypesKept` assumes that the set of files is finite, which the bound on `entries`
in `TypeOK` needs; the rest does not. The other assumptions are those of the modules:
that command lines are command lines and numbers are numbers, and `NoListingAssumption`,
that the value for no listing is no listing.

So every invariant and every action property of a passing run is a theorem. Only
model-checked is liveness (`ReadReturns`, `CallsReturn`, `OpenReturns`, `ToolsProceed`):
it rests on fairness and ENABLED, which are out of the provers' reach.

## 6. What is not modelled

* The bytes of headers, blocks and entries: `MetadataFormat` has what the library
  tells apart in them. The checks of their sizes are one condition each, and
  numbers have no width; both are planned, see below.
* What links the two halves of an open: `Volume` takes blocks as `KeyProtectors` has
  them, not the records that `MetadataRead` leaves.
* AES, SHA-256, AES-CCM: that they decrypt with the right key and fail or
  yield other bytes with the wrong one is assumed.
* Failures of memory allocation, except in the loop over the entries of a block,
  those of the tools (one failing call anywhere) and that of the sector data vector
  (fault "vector"), which no run sets.
* The getters of identifiers, times and descriptions and of key protectors, which change
  nothing, and the conversion of their results; error and debug output, the C library
  and the other libyal libraries.
* The diffuser, word arithmetic on one sector without state or branches: a model would
  be the code again.
* Of the tools, reading arguments and passwords from a terminal, and the signal
  handlers, which no main attaches.
* Of the binding, the initialisation of the module and the conversion of arguments and
  results.

## 7. Plan

Done: reading (`SectorData`, `PlainVolume`, `VolumeRead`), life of a volume
(`VolumeLifeCycle`, `KeyProtectors`, `Volume`), threads (`VolumeThreads`), parsing
(`MetadataFormat`, `MetadataRead`), recovery passwords (`RecoveryPassword`), the tools,
the binding, and the proofs above. What is left, in this order:

1. `Volume` over `MetadataRead`: the blocks of `KeyProtectors` as a function of the
   records that `MetadataRead` leaves, and the search for the volume master key
   over its stages.
2. The numbers of the volume header and the NTFS volume header with widths; theorems that
   what passes the checks is `MadeOfSectors`.
3. The loop over the entries nested in a key as steps of their own, with who frees the
   parts that were read when it breaks off.
4. Proofs: what `MetadataRead` leaves as blocks of `KeyProtectors`, once 1 joins them.

The runs are kept to about a dozen, one for each question: a new module takes its
place among them by merging runs that ask the same of the same module.
