------------------------------ MODULE MCTools ------------------------------
(***************************************************************************)
(* The tools with two files open at a time, paths of every kind and        *)
(* command lines with and without each secret, good and bad.               *)
(***************************************************************************)
EXTENDS Tools

CONSTANTS f1, f2

(* The names of the volumes of the largest file system that can be listed  *)
(* are found again, each as the path of its volume.                        *)
ASSUME NamesOfLargestListing == NamesResolve(MaxListed)

MCPaths == {RootPath, OtherPath, VolumePath(<<1>>), VolumePath(<<0, 1>>),
            VolumePath(<<2>>)}

Line == [given |-> {}, keys |-> << >>,
         offset |-> [negative |-> FALSE, digits |-> <<1, 2>>], unattended |-> FALSE]

WithKeys(segments) == [Line EXCEPT !.given = {"keys"}, !.keys = segments]
WithOffset(negative, digits) ==
    [Line EXCEPT !.offset = [negative |-> negative, digits |-> digits]]

MCCommandLines ==
    {Line,
     [Line EXCEPT !.unattended = TRUE],
     [Line EXCEPT !.given = {"password", "startup_key"}],
     [Line EXCEPT !.given = {"recovery_password"}, !.unattended = TRUE],
     WithKeys(<<32>>), WithKeys(<<64, 32>>), WithKeys(<<128, 32>>), WithKeys(<<48>>),
     WithOffset(TRUE, <<1>>), WithOffset(FALSE, <<2, 5, 6>>), WithOffset(FALSE, <<10>>)}
=============================================================================
