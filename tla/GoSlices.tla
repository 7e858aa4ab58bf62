------------------------------ MODULE GoSlices ------------------------------
(***************************************************************************)
(* Slices of subscribers as Go keeps them: a slice is a view, of some      *)
(* length, of an array that other slices may share.  Both the hub          *)
(* (internal/stream/hub.go) and the message bus (internal/stream/msgbus.go)*)
(* copy a slice under their lock and go through the copy after it, while   *)
(* others append to the same array or move its elements.                   *)
(*                                                                         *)
(* `arrays' is the sequence of all arrays so far, each at its full length; *)
(* a slice is the number of its array (0 for none) and its length.         *)
(***************************************************************************)
EXTENDS Integers, Sequences

NoSlice == [array |-> 0, len |-> 0]

\* What fills an array behind the elements it has been given.
Unused == "unused"

ElementAt(arrays, slice, i) == arrays[slice.array][i]

Members(arrays, slice) == {ElementAt(arrays, slice, i) : i \in 1 .. slice.len}

IndexIn(arrays, slice, x) == CHOOSE i \in 1 .. slice.len : ElementAt(arrays, slice, i) = x

HasRoom(arrays, slice) == slice.array # 0 /\ slice.len < Len(arrays[slice.array])

\* append(slice, x): in place while the array has room, else in one twice as long.
AppendTo(arrays, slice, x) ==
  LET n == slice.len IN
    IF HasRoom(arrays, slice)
    THEN [arrays |-> [arrays EXCEPT ![slice.array][n + 1] = x],
          slice |-> [slice EXCEPT !.len = n + 1]]
    ELSE [arrays |-> Append(arrays, [i \in 1 .. (IF n = 0 THEN 1 ELSE 2 * n) |->
                                       CASE i <= n -> ElementAt(arrays, slice, i)
                                         [] i = n + 1 -> x
                                         [] OTHER -> Unused]),
          slice |-> [array |-> Len(arrays) + 1, len |-> n + 1]]

\* append(slice[:i], slice[i+1:]...) moves what is behind x down, in place, and leaves the
\* last element where it was as well; the map entry of an empty slice is deleted.
RemoveFrom(arrays, slice, x) ==
  IF x \notin Members(arrays, slice) THEN [arrays |-> arrays, slice |-> slice]
  ELSE LET i == IndexIn(arrays, slice, x) IN
    [arrays |-> [arrays EXCEPT ![slice.array] =
                   [j \in DOMAIN @ |-> IF i <= j /\ j < slice.len THEN @[j + 1] ELSE @[j]]],
     slice |-> IF slice.len = 1 THEN NoSlice ELSE [slice EXCEPT !.len = @ - 1]]
=============================================================================
