----------------------------- MODULE RingBuffer -----------------------------
(***************************************************************************)
(* stream.RingBuffer (internal/stream/buffer.go), which keeps the last     *)
(* `size' bytes written to it.  A byte is named by its offset, the number  *)
(* of bytes written before it, so that what is kept can be told from what  *)
(* should be: a chunk of n bytes written to a buffer that has seen k is    *)
(* the interval k .. k + n - 1.  Slots are numbered from 0 as in Go.       *)
(***************************************************************************)
EXTENDS Integers, Sequences

CONSTANTS
  size,          \* capacity; NewRingBuffer replaces one below 1
  Chunks,        \* lengths of the chunks written
  MaxWritten     \* bound: bytes ever written (an int of 64 bits in the code)

ASSUME RingBufferAssumption ==
  size \in Nat \ {0} /\ Chunks \subseteq Nat /\ MaxWritten \in Nat

VARIABLES
  data,        \* the slots, with the offset of the byte each holds; -1: never written
  writePos,
  written

ringVars == <<data, writePos, written>>

Slots == 0 .. size - 1

NewRingBuffer ==
  /\ data = [p \in Slots |-> -1]
  /\ writePos = 0
  /\ written = 0

\* As if the second part of a chunk began with its first byte again.
PlaceRestarted(p) == IF p >= writePos THEN p - writePos ELSE p

\* The place of slot p in a chunk written now: in its first part, from writePos to
\* the end of the slots, or in the second, from their start.
Place(p) == IF p >= writePos THEN p - writePos ELSE size - writePos + p

WritePart(n) ==
  /\ n < size
  /\ data' = [p \in Slots |-> IF Place(p) < n THEN written + Place(p) ELSE data[p]]
  /\ writePos' = (writePos + n) % size
  /\ written' = written + n

\* As if the write position were left alone.
WriteTailInPlace(n) ==
  /\ n >= size
  /\ data' = [p \in Slots |-> written + n - size + p]
  /\ written' = written + n
  /\ UNCHANGED writePos

\* A chunk that fills the buffer: its tail is kept.
WriteTail(n) ==
  /\ n >= size
  /\ data' = [p \in Slots |-> written + n - size + p]
  /\ writePos' = 0
  /\ written' = written + n

WriteChunk == \E n \in Chunks : written + n <= MaxWritten /\ (WritePart(n) \/ WriteTail(n))

RingSpec == NewRingBuffer /\ [][WriteChunk]_ringVars
-----------------------------------------------------------------------------
Slice(from, n) == [i \in 1 .. n |-> data[from + i - 1]]     \* rb.data[from : from+n]

ReadAll ==
  IF written = 0 THEN <<>>
  ELSE IF written <= size THEN Slice(0, writePos)
  ELSE Slice(writePos, size - writePos) \o Slice(0, writePos)

Earliest == IF written > size THEN written - size ELSE 0

ReadFrom(offset) ==
  LET first == IF offset < Earliest THEN Earliest ELSE offset
      available == written - first
      physStart == (writePos - (available % size) + size) % size
      firstChunk == size - physStart
  IN  IF written = 0 \/ offset >= written THEN <<>>
      ELSE IF firstChunk >= available THEN Slice(physStart, available)
      ELSE Slice(physStart, firstChunk) \o Slice(0, available - firstChunk)

Stored == IF written < size THEN written ELSE size         \* the method Len
-----------------------------------------------------------------------------
(***************************************************************************)
(* Properties                                                              *)
(***************************************************************************)

\* The bytes from offset `from' to the newest.
Since(from) == [i \in 1 .. written - from |-> from + i - 1]

Newest(n) == Since(written - n)

\* "ReadAll returns all buffered content ordered from oldest to newest"
\* (buffer.go:62), whatever the chunks were and however they wrapped, but for one
\* case: a buffer that has been filled exactly to its end reads as empty.
ReadAllReturnsAll == written # size => ReadAll = Newest(Stored)

\* ReadFrom returns what was written from the offset on, or as much of it as has
\* not been overwritten, for every offset (buffer.go:91-128).
ReadFromReturnsRest ==
  \A offset \in 0 .. written :
    ReadFrom(offset) = Since(IF offset < written - Stored THEN written - Stored ELSE offset)

(***************************************************************************)
(* Why they hold: which byte a slot holds follows from the two counters.   *)
(***************************************************************************)
Holds(p) == written - writePos + p - IF p < writePos THEN 0 ELSE size

RingInv ==
  /\ writePos \in Slots
  /\ written \in Nat /\ written >= writePos
  /\ written < size => writePos = written
  /\ data = [p \in Slots |-> IF Holds(p) < 0 THEN -1 ELSE Holds(p)]
=============================================================================
