-------------------------- MODULE PythonFileObject --------------------------
(***************************************************************************)
(* The io handle that pybde makes of a Python file object, so that the     *)
(* library reads through the object's methods. A method may raise, return  *)
(* something else than was asked for, or be missing: "broken" names those  *)
(* that do. Each operator takes and returns the file object,               *)
(*   [position, size, hasGetSize],                                         *)
(* and says what the library is told.                                      *)
(***************************************************************************)
EXTENDS Naturals, Integers

Methods == {"read", "seek", "tell", "get_size", "tell_at_end", "seek_back"}

Failure == -1
Unwritten == -2             \* a result that was not stored

Min2(a, b) == IF a < b THEN a ELSE b
Max2(a, b) == IF a > b THEN a ELSE b

Told(object, status, value) == [object |-> object, status |-> status, value |-> value]

(* pybde_file_object_seek_offset *)
Target(object, offset, whence) ==
    CASE whence = "set" -> offset
      [] whence = "cur" -> object.position + offset
      [] whence = "end" -> object.size + offset

SeekOffset(object, offset, whence, broken) ==
    IF "seek" \in broken \/ Target(object, offset, whence) < 0
    THEN Told(object, Failure, Unwritten)
    ELSE Told([object EXCEPT !.position = Target(object, offset, whence)], 1, offset)

(* pybde_file_object_get_offset: get_offset, or tell where that is missing *)
GetOffset(object, broken) ==
    IF "tell" \in broken
    THEN Told(object, Failure, Unwritten)
    ELSE Told(object, 1, object.position)

(* The io handle's seek: the library learns where the object then is; when *)
(* the object does not say, the seek failed though the object has moved.   *)
HandleSeekOffset(object, offset, whence, broken) ==
    LET sought == SeekOffset(object, offset, whence, broken)
    IN  IF sought.status = Failure THEN sought ELSE GetOffset(sought.object, broken)

(* pybde_file_object_read_buffer: a size of 0 calls nothing; the value is  *)
(* where the bytes that were delivered come from.                          *)
ReadBuffer(object, size, broken) ==
    CASE size = 0 -> Told(object, 0, object.position)
      [] size > 0 /\ "read" \in broken -> Told(object, Failure, Unwritten)
      [] OTHER ->
            LET count == Max2(0, Min2(size, object.size - object.position))
            IN  Told([object EXCEPT !.position = @ + count], count, object.position)

(* pybde_file_object_get_size *)
GetSizeByMethod(object, broken) ==
    IF "get_size" \in broken
    THEN Told(object, Failure, Unwritten)
    ELSE Told(object, 1, object.size)

(* What on_error of the io handle's get_size tells the library: that all   *)
(* went well.                                                              *)
SizeFailed(object, value) == Told(object, 1, value)

(* Without the method: where it is, to the end, where that is, and back;   *)
(* "tell_at_end" and "seek_back" break the latter two.                     *)
GetSizeBySeeking(object, broken) ==
    LET here == GetOffset(object, broken)
        atEnd == SeekOffset(object, 0, "end", broken)
        end == GetOffset(atEnd.object, {"tell" : b \in broken \intersect {"tell_at_end"}})
        back == SeekOffset(atEnd.object, here.value, "set",
                           {"seek" : b \in broken \intersect {"seek_back"}})
    IN  CASE here.status = Failure -> SizeFailed(object, Unwritten)
          [] here.status # Failure /\ atEnd.status = Failure -> SizeFailed(object, Unwritten)
          [] OTHER -> SizeFailed(back.object, end.value)

HandleGetSize(object, broken) ==
    IF object.hasGetSize
    THEN IF GetSizeByMethod(object, broken).status = Failure
         THEN SizeFailed(object, Unwritten)
         ELSE GetSizeByMethod(object, broken)
    ELSE GetSizeBySeeking(object, broken)

(* Opening for writing is refused; closing leaves the object to Python; an *)
(* io handle exists and is open whatever became of the object.             *)
HandleOpen(access) == IF "write" \in access THEN Failure ELSE 1
HandleClose == 0
HandleExists == 1
HandleIsOpen == 1
=============================================================================
