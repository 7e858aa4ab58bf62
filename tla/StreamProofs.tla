------------------------------ MODULE StreamProofs ------------------------------
(***************************************************************************)
(* Proofs about internal/stream: the hub (StreamHub) for any agents,       *)
(* clients, wishes and capacities; the messages of a task and the bus      *)
(* (MessageStreams) for any handlers and connections; the buffer of an     *)
(* agent (RingBuffer) for every size and all chunks.                       *)
(*                                                                         *)
(* First come lemmas about the slices of GoSlices, which the hub and the   *)
(* bus share, whatever they hold and whoever has views of them.            *)
(***************************************************************************)
EXTENDS StreamHub, MessageStreams, RingBuffer, FiniteSetTheorems, TLAPS

-----------------------------------------------------------------------------
(***************************************************************************)
(* Slices.  A list and views of it that were taken earlier share arrays;   *)
(* `mem' is the arrays, `vw' the views of the processes P, and `off' what  *)
(* was moved under one of them.                                            *)
(***************************************************************************)
IsSlice(mem, s) ==
  /\ s \in [array : Nat, len : Nat]
  /\ s.array = 0 => s.len = 0
  /\ s.array # 0 => s.array \in 1 .. Len(mem) /\ s.len <= Len(mem[s.array])

Distinct(mem, s) ==
  \A i, j \in 1 .. s.len : ElementAt(mem, s, i) = ElementAt(mem, s, j) => i = j

\* What was not moved is in a view once, and not behind the end of a list in the same array,
\* where the next append would overwrite it.
Steady(mem, ls, v, off) ==
  \A i \in 1 .. v.len : ElementAt(mem, v, i) \notin off =>
    /\ v.array = ls.array => i <= ls.len
    /\ \A j \in 1 .. v.len : ElementAt(mem, v, j) = ElementAt(mem, v, i) => j = i

SlicesInv(mem, ls, vw, P, off) ==
  /\ IsSlice(mem, ls) /\ Distinct(mem, ls)
  /\ \A p \in P : IsSlice(mem, vw[p]) /\ Steady(mem, ls, vw[p], off)

LEMMA AppendAt ==
  ASSUME NEW E, NEW s \in Seq(E), NEW x \in E
  PROVE  /\ Append(s, x) \in Seq(E) /\ Len(s) \in Nat /\ Len(Append(s, x)) = Len(s) + 1
         /\ \A i \in 1 .. Len(s) : Append(s, x)[i] = s[i]
         /\ Append(s, x)[Len(s) + 1] = x
         /\ \A i \in 1 .. Len(Append(s, x)) : i \in 1 .. Len(s) \/ i = Len(s) + 1
OBVIOUS

LEMMA PutAt ==
  ASSUME NEW S, NEW T, NEW f \in [S -> T], NEW d, NEW v, NEW c \in S
  PROVE  [f EXCEPT ![d] = v][c] = IF c = d THEN v ELSE f[c]
OBVIOUS

LEMMA SliceFields ==
  ASSUME NEW mem, NEW s, IsSlice(mem, s)
  PROVE  /\ s = [array |-> s.array, len |-> s.len] /\ s.array \in Nat /\ s.len \in Nat
         /\ s.len > 0 => s.array \in 1 .. Len(mem) /\ s.len <= Len(mem[s.array])
BY DEF IsSlice

\* What is in a slice is of the kind the arrays hold.
LEMMA ElementIn ==
  ASSUME NEW E, NEW mem \in Seq(Seq(E)), NEW s, IsSlice(mem, s), NEW i \in 1 .. s.len
  PROVE  ElementAt(mem, s, i) \in E
<1>1. s.array \in 1 .. Len(mem) /\ i \in 1 .. Len(mem[s.array])
  BY SliceFields
<1>2. mem[s.array] \in Seq(E)
  BY <1>1
<1> QED
  BY <1>1, <1>2 DEF ElementAt

\* append in place: one position of the array is written, the one behind the slice.
LEMMA AppendInPlace ==
  ASSUME NEW E, NEW mem \in Seq(Seq(E)), NEW x \in E, NEW s, IsSlice(mem, s), HasRoom(mem, s)
  PROVE  LET new == AppendTo(mem, s, x).arrays
             ns  == AppendTo(mem, s, x).slice
         IN  /\ ns.array = s.array /\ ns.len = s.len + 1
             /\ new \in Seq(Seq(E)) /\ IsSlice(new, ns)
             /\ \A v : IsSlice(mem, v) =>
                  /\ IsSlice(new, v)
                  /\ \A i \in 1 .. v.len :
                       ElementAt(new, v, i) = IF v.array = s.array /\ i = s.len + 1 THEN x
                                              ELSE ElementAt(mem, v, i)
             /\ \A i \in 1 .. s.len : ElementAt(new, ns, i) = ElementAt(mem, s, i)
             /\ ElementAt(new, ns, s.len + 1) = x
<1> DEFINE k == s.array
           n == s.len
           new == [mem EXCEPT ![k][n + 1] = x]
           ns == [s EXCEPT !.len = n + 1]
<1>1. AppendTo(mem, s, x) = [arrays |-> new, slice |-> ns]
  BY DEF AppendTo
<1>2. k \in 1 .. Len(mem) /\ n \in Nat /\ n + 1 \in 1 .. Len(mem[k]) /\ mem[k] \in Seq(E)
  <2>1. k \in 1 .. Len(mem) /\ n \in Nat /\ n < Len(mem[k])
    BY DEF IsSlice, HasRoom
  <2> QED
    BY <2>1
<1>3. ns.array = k /\ ns.len = n + 1 /\ ns = [array |-> k, len |-> n + 1]
  BY SliceFields
<1>4. /\ new \in Seq(Seq(E)) /\ Len(new) = Len(mem)
      /\ \A j \in 1 .. Len(mem) : j # k => new[j] = mem[j]
      /\ Len(new[k]) = Len(mem[k])
      /\ \A i \in 1 .. Len(mem[k]) : new[k][i] = IF i = n + 1 THEN x ELSE mem[k][i]
  <2> DEFINE arr == [mem[k] EXCEPT ![n + 1] = x]
  <2>1. arr \in Seq(E) /\ Len(arr) = Len(mem[k])
        /\ \A i \in 1 .. Len(mem[k]) : arr[i] = IF i = n + 1 THEN x ELSE mem[k][i]
    BY <1>2
  <2>2. new = [mem EXCEPT ![k] = arr]
    BY <1>2
  <2> HIDE DEF new, arr
  <2>3. new \in Seq(Seq(E)) /\ Len(new) = Len(mem) /\ new[k] = arr
        /\ \A j \in 1 .. Len(mem) : j # k => new[j] = mem[j]
    BY <1>2, <2>1, <2>2
  <2> QED
    BY <2>1, <2>3
<1> HIDE DEF new, ns, k, n
<1>5. ASSUME NEW v, IsSlice(mem, v)
      PROVE  /\ IsSlice(new, v)
             /\ \A i \in 1 .. v.len :
                  ElementAt(new, v, i) = IF v.array = k /\ i = n + 1 THEN x ELSE ElementAt(mem, v, i)
  <2>1. v \in [array : Nat, len : Nat] /\ (v.array = 0 => v.len = 0)
        /\ (v.array # 0 => v.array \in 1 .. Len(mem) /\ v.len <= Len(mem[v.array]))
    BY <1>5 DEF IsSlice
  <2>2. v.array # 0 => Len(new[v.array]) = Len(mem[v.array])
    BY <1>4, <2>1
  <2>3. IsSlice(new, v)
    BY <1>4, <2>1, <2>2 DEF IsSlice
  <2>4. ASSUME NEW i \in 1 .. v.len
        PROVE  new[v.array][i] = IF v.array = k /\ i = n + 1 THEN x ELSE mem[v.array][i]
    <3>1. v.array \in 1 .. Len(mem) /\ i \in 1 .. Len(mem[v.array])
      BY <2>1, <2>4, mem[v.array] \in Seq(E)
    <3> QED
      BY <1>4, <3>1
  <2> QED
    BY <2>3, <2>4 DEF ElementAt
<1>6. IsSlice(new, ns)
  BY <1>2, <1>3, <1>4 DEF IsSlice
<1>7. \A i \in 1 .. n : ElementAt(new, ns, i) = ElementAt(mem, s, i)
  <2>1. \A i \in 1 .. n : i \in 1 .. Len(mem[k]) /\ i # n + 1
    BY <1>2, mem[k] \in Seq(E)
  <2> QED
    BY <1>3, <1>4, <2>1 DEF ElementAt, k
<1>8. ElementAt(new, ns, n + 1) = x
  BY <1>2, <1>3, <1>4 DEF ElementAt
<1> QED
  BY <1>1, <1>3, <1>4, <1>5, <1>6, <1>7, <1>8 DEF k, n

\* append without room: the old arrays are left as they are.
LEMMA AppendAnew ==
  ASSUME NEW E, NEW mem \in Seq(Seq(E)), Unused \in E, NEW x \in E, NEW s, IsSlice(mem, s),
         ~HasRoom(mem, s)
  PROVE  LET new == AppendTo(mem, s, x).arrays
             ns  == AppendTo(mem, s, x).slice
         IN  /\ ns.array = Len(mem) + 1 /\ ns.len = s.len + 1
             /\ new \in Seq(Seq(E)) /\ IsSlice(new, ns)
             /\ \A v : IsSlice(mem, v) =>
                  /\ IsSlice(new, v) /\ v.array # ns.array
                  /\ \A i \in 1 .. v.len : ElementAt(new, v, i) = ElementAt(mem, v, i)
             /\ \A i \in 1 .. s.len : ElementAt(new, ns, i) = ElementAt(mem, s, i)
             /\ ElementAt(new, ns, s.len + 1) = x
<1> DEFINE n == s.len
           m == IF n = 0 THEN 1 ELSE 2 * n
           arr == [i \in 1 .. m |-> CASE i <= n -> ElementAt(mem, s, i) [] i = n + 1 -> x
                                      [] OTHER -> Unused]
           new == Append(mem, arr)
           ns == [array |-> Len(mem) + 1, len |-> n + 1]
<1>1. AppendTo(mem, s, x) = [arrays |-> new, slice |-> ns]
  BY DEF AppendTo
<1>2. n \in Nat /\ m \in Nat /\ n + 1 <= m
  BY SliceFields
<1>3. \A i \in 1 .. m : (CASE i <= n -> ElementAt(mem, s, i) [] i = n + 1 -> x [] OTHER -> Unused) \in E
  BY <1>2, ElementIn
<1>4. arr \in Seq(E) /\ Len(arr) = m
  <2>1. arr \in [1 .. m -> E]
    BY <1>3
  <2> HIDE DEF arr, m
  <2> QED
    BY <1>2, <2>1
<1>5. \A i \in 1 .. n : arr[i] = ElementAt(mem, s, i)
  BY <1>2
<1>6. arr[n + 1] = x
  BY <1>2
<1> HIDE DEF arr, m, n
<1>7. /\ new \in Seq(Seq(E)) /\ Len(new) = Len(mem) + 1 /\ new[Len(mem) + 1] = arr
      /\ \A j \in 1 .. Len(mem) : new[j] = mem[j]
  BY <1>4
<1> HIDE DEF new
<1>8. ASSUME NEW v, IsSlice(mem, v)
      PROVE  /\ IsSlice(new, v) /\ v.array # Len(mem) + 1
             /\ \A i \in 1 .. v.len : ElementAt(new, v, i) = ElementAt(mem, v, i)
  <2>1. v \in [array : Nat, len : Nat] /\ (v.array = 0 => v.len = 0)
        /\ (v.array # 0 => v.array \in 1 .. Len(mem) /\ v.len <= Len(mem[v.array]))
    BY <1>8 DEF IsSlice
  <2>2. v.array # 0 => new[v.array] = mem[v.array]
    BY <1>7, <2>1
  <2>3. IsSlice(new, v) /\ v.array # Len(mem) + 1
    BY <1>7, <2>1, <2>2 DEF IsSlice
  <2>4. \A i \in 1 .. v.len : v.array # 0
    BY <2>1
  <2> QED
    BY <2>2, <2>3, <2>4 DEF ElementAt
<1>9. IsSlice(new, ns)
  BY <1>2, <1>4, <1>7 DEF IsSlice
<1>10. \A i \in 1 .. n : ElementAt(new, ns, i) = ElementAt(mem, s, i)
  BY <1>5, <1>7 DEF ElementAt
<1>11. ElementAt(new, ns, n + 1) = x
  BY <1>6, <1>7 DEF ElementAt
<1> QED
  BY <1>1, <1>7, <1>8, <1>9, <1>10, <1>11 DEF n

\* Appending what no slice has yet: the list gets it, and a view loses only what was moved.
LEMMA AppendKeepsSlices ==
  ASSUME NEW E, NEW mem \in Seq(Seq(E)), Unused \in E, NEW x \in E, NEW ls, NEW vw, NEW P, NEW off,
         SlicesInv(mem, ls, vw, P, off),
         x \notin Members(mem, ls), \A p \in P : x \notin Members(mem, vw[p])
  PROVE  LET new == AppendTo(mem, ls, x).arrays
             ns  == AppendTo(mem, ls, x).slice
         IN  /\ new \in Seq(Seq(E))
             /\ SlicesInv(new, ns, vw, P, off)
             /\ Members(new, ns) = Members(mem, ls) \cup {x}
             /\ \A p \in P : \A i \in 1 .. vw[p].len :
                  \/ ElementAt(new, vw[p], i) = ElementAt(mem, vw[p], i)
                  \/ ElementAt(new, vw[p], i) = x /\ ElementAt(mem, vw[p], i) \in off
<1> DEFINE new == AppendTo(mem, ls, x).arrays
           ns  == AppendTo(mem, ls, x).slice
           n   == ls.len
<1>0. IsSlice(mem, ls) /\ Distinct(mem, ls) /\ n \in Nat
      /\ \A p \in P : IsSlice(mem, vw[p]) /\ Steady(mem, ls, vw[p], off)
  BY SliceFields DEF SlicesInv
<1>1. /\ ns.len = n + 1
      /\ new \in Seq(Seq(E)) /\ IsSlice(new, ns)
      /\ \A i \in 1 .. n : ElementAt(new, ns, i) = ElementAt(mem, ls, i)
      /\ ElementAt(new, ns, n + 1) = x
  <2>1. CASE HasRoom(mem, ls)
    BY <1>0, <2>1, AppendInPlace
  <2>2. CASE ~HasRoom(mem, ls)
    BY <1>0, <2>2, AppendAnew
  <2> QED
    BY <2>1, <2>2
<1>2. ASSUME NEW p \in P
      PROVE  /\ IsSlice(new, vw[p])
             /\ \/ /\ ns.array = ls.array
                   /\ \A i \in 1 .. vw[p].len :
                        ElementAt(new, vw[p], i) = IF vw[p].array = ls.array /\ i = n + 1 THEN x
                                                   ELSE ElementAt(mem, vw[p], i)
                \/ /\ vw[p].array # ns.array
                   /\ \A i \in 1 .. vw[p].len : ElementAt(new, vw[p], i) = ElementAt(mem, vw[p], i)
  <2>1. CASE HasRoom(mem, ls)
    BY <1>0, <2>1, AppendInPlace
  <2>2. CASE ~HasRoom(mem, ls)
    BY <1>0, <2>2, AppendAnew
  <2> QED
    BY <2>1, <2>2
<1> HIDE DEF new, ns
<1>3. \A i \in 1 .. n : ElementAt(mem, ls, i) # x
  BY DEF Members
<1>4. \A p \in P : \A i \in 1 .. vw[p].len : ElementAt(mem, vw[p], i) # x
  BY DEF Members
<1>5. Distinct(new, ns)
  <2> SUFFICES ASSUME NEW i \in 1 .. ns.len, NEW j \in 1 .. ns.len,
                      ElementAt(new, ns, i) = ElementAt(new, ns, j)
               PROVE  j = i
    BY DEF Distinct
  <2>1. CASE i \in 1 .. n /\ j \in 1 .. n
    BY <1>0, <1>1, <2>1 DEF Distinct
  <2>2. CASE i = n + 1 /\ j \in 1 .. n
    BY <1>1, <1>3, <2>2
  <2>3. CASE j = n + 1 /\ i \in 1 .. n
    BY <1>1, <1>3, <2>3
  <2>4. i \in 1 .. n + 1 /\ j \in 1 .. n + 1
    BY <1>1
  <2> QED
    BY <1>0, <2>1, <2>2, <2>3, <2>4
<1>6. Members(new, ns) = Members(mem, ls) \cup {x}
  <2>1. Members(new, ns) \subseteq Members(mem, ls) \cup {x}
    <3> SUFFICES ASSUME NEW i \in 1 .. n + 1
                 PROVE  ElementAt(new, ns, i) \in Members(mem, ls) \cup {x}
      BY <1>1 DEF Members
    <3>1. i \in 1 .. n \/ i = n + 1
      BY <1>0
    <3> QED
      BY <1>1, <3>1 DEF Members
  <2>2. \A i \in 1 .. n : i \in 1 .. ns.len
    BY <1>0, <1>1
  <2>3. n + 1 \in 1 .. ns.len
    BY <1>0, <1>1
  <2> QED
    BY <1>1, <2>1, <2>2, <2>3 DEF Members
<1>7. ASSUME NEW p \in P, NEW i \in 1 .. vw[p].len
      PROVE  \/ ElementAt(new, vw[p], i) = ElementAt(mem, vw[p], i)
             \/ ElementAt(new, vw[p], i) = x /\ ElementAt(mem, vw[p], i) \in off
  <2>1. CASE vw[p].array = ls.array /\ i = n + 1
    BY <1>0, <1>2, <2>1 DEF Steady
  <2> QED
    BY <1>2, <2>1
<1>8. ASSUME NEW p \in P PROVE Steady(new, ns, vw[p], off)
  <2> DEFINE v == vw[p]
  <2>0. IsSlice(mem, v) /\ v.len \in Nat
    BY <1>0, SliceFields
  <2> SUFFICES ASSUME NEW i \in 1 .. v.len, ElementAt(new, v, i) \notin off
               PROVE  /\ v.array = ns.array => i <= ns.len
                      /\ \A j \in 1 .. v.len : ElementAt(new, v, j) = ElementAt(new, v, i) => j = i
    BY DEF Steady
  <2> HIDE DEF v
  <2>a. \/ /\ ns.array = ls.array
           /\ \A k \in 1 .. v.len :
                ElementAt(new, v, k) = IF v.array = ls.array /\ k = n + 1 THEN x
                                       ELSE ElementAt(mem, v, k)
        \/ /\ v.array # ns.array
           /\ \A k \in 1 .. v.len : ElementAt(new, v, k) = ElementAt(mem, v, k)
    BY <1>2 DEF v
  <2>b. \A k \in 1 .. v.len : ElementAt(mem, v, k) # x
    BY <1>4 DEF v
  <2>c. Steady(mem, ls, v, off)
    BY <1>0 DEF v
  <2>1. CASE v.array = ls.array /\ i = n + 1 /\ ns.array = ls.array
    BY <1>0, <1>1, <2>a, <2>b, <2>1
  <2>2. CASE ~(v.array = ls.array /\ i = n + 1 /\ ns.array = ls.array)
    <3>1. ElementAt(new, v, i) = ElementAt(mem, v, i)
      BY <2>a, <2>2
    <3>2. /\ v.array = ls.array => i <= n
          /\ \A j \in 1 .. v.len : ElementAt(mem, v, j) = ElementAt(mem, v, i) => j = i
      BY <2>c, <3>1 DEF Steady
    <3>3. v.array = ns.array => i <= n + 1
      BY <1>0, <2>a, <3>2
    <3>4. ASSUME NEW j \in 1 .. v.len, ElementAt(new, v, j) = ElementAt(new, v, i) PROVE j = i
      <4>1. ElementAt(new, v, j) # x
        BY <2>b, <3>1, <3>4
      <4>2. ElementAt(new, v, j) = ElementAt(mem, v, j)
        BY <2>a, <4>1
      <4> QED
        BY <3>1, <3>2, <3>4, <4>2
    <3> QED
      BY <1>1, <3>3, <3>4
  <2> QED
    BY <2>1, <2>2
<1> QED
  BY <1>0, <1>1, <1>2, <1>5, <1>6, <1>7, <1>8 DEF new, ns, SlicesInv

\* What removing the element at position `at' of slice s makes of slice v.
MovesDown(new, mem, s, at, v) ==
  \A i \in 1 .. v.len :
    ElementAt(new, v, i) =
      IF v.array = s.array /\ at <= i /\ i < s.len THEN ElementAt(mem, s, i + 1)
      ELSE ElementAt(mem, v, i)

\* Removing an element: what is behind it moves down, in every slice of the array.
LEMMA RemoveInPlace ==
  ASSUME NEW E, NEW mem \in Seq(Seq(E)), NEW x, NEW s, IsSlice(mem, s), x \in Members(mem, s),
         NEW v, IsSlice(mem, v)
  PROVE  LET new == RemoveFrom(mem, s, x).arrays
             ns  == RemoveFrom(mem, s, x).slice
             at  == IndexIn(mem, s, x)
         IN  /\ at \in 1 .. s.len /\ ElementAt(mem, s, at) = x
             /\ s.len \in Nat /\ s.len >= 1 /\ s.array # 0
             /\ ns = IF s.len = 1 THEN NoSlice ELSE [array |-> s.array, len |-> s.len - 1]
             /\ new \in Seq(Seq(E)) /\ IsSlice(new, ns)
             /\ IsSlice(new, v) /\ MovesDown(new, mem, s, at, v)
<1> DEFINE k == s.array
           n == s.len
           at == IndexIn(mem, s, x)
           arr == [j \in DOMAIN mem[k] |-> IF at <= j /\ j < n THEN mem[k][j + 1] ELSE mem[k][j]]
           new == [mem EXCEPT ![k] = arr]
           ns == IF n = 1 THEN NoSlice ELSE [s EXCEPT !.len = n - 1]
<1>1. RemoveFrom(mem, s, x) = [arrays |-> new, slice |-> ns]
  BY DEF RemoveFrom
<1>2. at \in 1 .. n /\ ElementAt(mem, s, at) = x
  BY DEF IndexIn, Members
<1>3. n \in Nat /\ n >= 1 /\ k \in 1 .. Len(mem) /\ n <= Len(mem[k])
  BY <1>2, SliceFields
<1>4. mem[k] \in Seq(E) /\ Len(mem[k]) \in Nat /\ DOMAIN mem[k] = 1 .. Len(mem[k])
  BY <1>3
<1>5. at \in Int
  BY <1>2
<1> HIDE DEF at
<1>6. arr \in Seq(E) /\ Len(arr) = Len(mem[k])
  <2>1. \A j \in 1 .. Len(mem[k]) : (IF at <= j /\ j < n THEN mem[k][j + 1] ELSE mem[k][j]) \in E
    BY <1>3, <1>4, <1>5
  <2>2. arr \in [1 .. Len(mem[k]) -> E]
    BY <1>4, <2>1
  <2> DEFINE l == Len(mem[k])
  <2>3. l \in Nat /\ arr \in [1 .. l -> E]
    BY <1>4, <2>2
  <2> HIDE DEF arr, l
  <2>4. arr \in Seq(E) /\ Len(arr) = l
    BY <2>3
  <2> QED
    BY <2>4 DEF l
<1>7. \A j \in 1 .. Len(mem[k]) :
        arr[j] = IF at <= j /\ j < n THEN mem[k][j + 1] ELSE mem[k][j]
  BY <1>4
<1> HIDE DEF arr
<1>8. /\ new \in Seq(Seq(E)) /\ Len(new) = Len(mem) /\ new[k] = arr
      /\ \A j \in 1 .. Len(mem) : j # k => new[j] = mem[j]
  BY <1>3, <1>6
<1> HIDE DEF new
<1>9. ns = IF n = 1 THEN NoSlice ELSE [array |-> k, len |-> n - 1]
  BY SliceFields
<1>10. IsSlice(new, ns)
  BY <1>3, <1>6, <1>8, <1>9 DEF IsSlice, NoSlice
<1> HIDE DEF ns, k, n
<1>11. /\ IsSlice(new, v)
       /\ \A i \in 1 .. v.len :
            ElementAt(new, v, i) =
              IF v.array = k /\ at <= i /\ i < n THEN ElementAt(mem, s, i + 1)
              ELSE ElementAt(mem, v, i)
  <2>1. v \in [array : Nat, len : Nat] /\ (v.array = 0 => v.len = 0)
        /\ (v.array # 0 => v.array \in 1 .. Len(mem) /\ v.len <= Len(mem[v.array]))
    BY DEF IsSlice
  <2>2. v.array # 0 => Len(new[v.array]) = Len(mem[v.array])
    BY <1>6, <1>8, <2>1
  <2>3. IsSlice(new, v)
    BY <1>8, <2>1, <2>2 DEF IsSlice
  <2>4. ASSUME NEW i \in 1 .. v.len
        PROVE  new[v.array][i] = IF v.array = k /\ at <= i /\ i < n THEN mem[k][i + 1]
                                 ELSE mem[v.array][i]
    <3>1. v.array \in 1 .. Len(mem) /\ (v.array = k => i \in 1 .. Len(mem[k]))
      BY <1>4, <2>1, <2>4
    <3> QED
      BY <1>7, <1>8, <3>1
  <2> QED
    BY <2>3, <2>4 DEF ElementAt, k
<1>12. IsSlice(new, v) /\ MovesDown(new, mem, s, at, v)
  BY <1>11 DEF k, n, MovesDown
<1> QED
  BY <1>1, <1>2, <1>3, <1>8, <1>9, <1>10, <1>12 DEF k, n, at

\* If a view is in the array of the list, the set `off' has all the elements of the list.
Covers(off, mem, ls, vw, P) ==
  (\E p \in P : vw[p].len # 0 /\ vw[p].array = ls.array) => Members(mem, ls) \subseteq off

\* Views have what they had, but where elements of the list ls moved.
MovedOnly(new, mem, ls, vw, P, off) ==
  \A p \in P : \A i \in 1 .. vw[p].len :
    \/ ElementAt(new, vw[p], i) = ElementAt(mem, vw[p], i)
    \/ /\ ElementAt(new, vw[p], i) \in off \cap Members(mem, ls)
       /\ ElementAt(mem, vw[p], i) \in off

\* Nothing else leaves the list; a view of the same array may change where the list had its
\* elements, and all of those are moved.
LEMMA RemoveKeepsSlices ==
  ASSUME NEW E, NEW mem \in Seq(Seq(E)), NEW x, NEW ls, NEW vw, NEW P, NEW off, NEW off2,
         SlicesInv(mem, ls, vw, P, off), off \subseteq off2,
         Covers(off2, mem, ls, vw, P)
  PROVE  LET new == RemoveFrom(mem, ls, x).arrays
             ns  == RemoveFrom(mem, ls, x).slice
         IN  /\ new \in Seq(Seq(E))
             /\ SlicesInv(new, ns, vw, P, off2)
             /\ Members(new, ns) = Members(mem, ls) \ {x}
             /\ MovedOnly(new, mem, ls, vw, P, off2)
<1> DEFINE new == RemoveFrom(mem, ls, x).arrays
           ns  == RemoveFrom(mem, ls, x).slice
           at  == IndexIn(mem, ls, x)
           n   == ls.len
<1>0. IsSlice(mem, ls) /\ Distinct(mem, ls)
      /\ \A p \in P : IsSlice(mem, vw[p]) /\ Steady(mem, ls, vw[p], off)
  BY DEF SlicesInv
<1>1. CASE x \notin Members(mem, ls)
  <2>1. new = mem /\ ns = ls
    BY <1>1 DEF RemoveFrom
  <2> HIDE DEF new, ns
  <2>2. \A p \in P : Steady(mem, ls, vw[p], off2)
    BY <1>0 DEF Steady
  <2>3. SlicesInv(new, ns, vw, P, off2)
    BY <1>0, <2>1, <2>2 DEF SlicesInv
  <2>4. Members(new, ns) = Members(mem, ls) \ {x}
    BY <1>1, <2>1
  <2>5. MovedOnly(new, mem, ls, vw, P, off2)
    BY <2>1 DEF MovedOnly
  <2> QED
    BY <2>1, <2>3, <2>4, <2>5 DEF new, ns
<1>2. CASE x \in Members(mem, ls)
  <2>1. /\ at \in 1 .. n /\ ElementAt(mem, ls, at) = x
        /\ n \in Nat /\ n >= 1 /\ ls.array # 0
        /\ ns = IF n = 1 THEN NoSlice ELSE [array |-> ls.array, len |-> n - 1]
        /\ new \in Seq(Seq(E)) /\ IsSlice(new, ns)
        /\ IsSlice(new, ls) /\ MovesDown(new, mem, ls, at, ls)
    BY <1>0, <1>2, RemoveInPlace
  <2>2. ASSUME NEW v, IsSlice(mem, v)
        PROVE  /\ IsSlice(new, v)
               /\ \A i \in 1 .. v.len :
                    ElementAt(new, v, i) =
                      IF v.array = ls.array /\ at <= i /\ i < n THEN ElementAt(mem, ls, i + 1)
                      ELSE ElementAt(mem, v, i)
    <3>1. IsSlice(new, v) /\ MovesDown(new, mem, ls, at, v)
      BY <1>0, <1>2, <2>2, RemoveInPlace
    <3> QED
      BY <3>1 DEF MovesDown
  <2> HIDE DEF new, ns, at
  <2>3. ns.len = n - 1 /\ (ns.array = ls.array \/ ns.array = 0) /\ (n # 1 => ns.array = ls.array)
    BY <2>1 DEF NoSlice
  <2>4. \A i \in 1 .. n - 1 :
          ElementAt(new, ns, i) = IF at <= i THEN ElementAt(mem, ls, i + 1) ELSE ElementAt(mem, ls, i)
    <3> SUFFICES ASSUME NEW i \in 1 .. n - 1
                 PROVE  ElementAt(new, ns, i) =
                          IF at <= i THEN ElementAt(mem, ls, i + 1) ELSE ElementAt(mem, ls, i)
      OBVIOUS
    <3>1. n # 1 /\ i \in 1 .. n /\ i < n
      BY <2>1
    <3>2. ElementAt(new, ns, i) = ElementAt(new, ls, i)
      BY <2>3, <3>1 DEF ElementAt
    <3>3. ElementAt(new, ls, i) =
            IF ls.array = ls.array /\ at <= i /\ i < n THEN ElementAt(mem, ls, i + 1)
            ELSE ElementAt(mem, ls, i)
      BY <1>0, <2>2, <3>1
    <3> QED
      BY <3>1, <3>2, <3>3
  <2>5. Distinct(new, ns)
    <3> SUFFICES ASSUME NEW i \in 1 .. n - 1, NEW j \in 1 .. n - 1,
                        ElementAt(new, ns, i) = ElementAt(new, ns, j)
                 PROVE  j = i
      BY <2>3 DEF Distinct
    <3> DEFINE f(h) == IF at <= h THEN h + 1 ELSE h
    <3>1. f(i) \in 1 .. n /\ f(j) \in 1 .. n /\ (f(i) = f(j) => i = j)
      BY <2>1
    <3>2. ElementAt(new, ns, i) = ElementAt(mem, ls, f(i))
          /\ ElementAt(new, ns, j) = ElementAt(mem, ls, f(j))
      BY <2>4
    <3> HIDE DEF f
    <3> QED
      BY <1>0, <3>1, <3>2 DEF Distinct
  <2>6. Members(new, ns) = Members(mem, ls) \ {x}
    <3>1. ASSUME NEW i \in 1 .. n - 1 PROVE ElementAt(new, ns, i) \in Members(mem, ls) \ {x}
      <4> DEFINE h == IF at <= i THEN i + 1 ELSE i
      <4>1. h \in 1 .. n /\ h # at
        BY <2>1
      <4>2. ElementAt(new, ns, i) = ElementAt(mem, ls, h)
        BY <2>4
      <4> HIDE DEF h
      <4>3. ElementAt(mem, ls, h) # x
        BY <1>0, <2>1, <4>1 DEF Distinct
      <4> QED
        BY <4>1, <4>2, <4>3 DEF Members
    <3>2. ASSUME NEW h \in 1 .. n, ElementAt(mem, ls, h) # x
          PROVE  \E i \in 1 .. n - 1 : ElementAt(new, ns, i) = ElementAt(mem, ls, h)
      <4>1. h # at
        BY <2>1, <3>2
      <4>2. CASE h < at
        <5>1. h \in 1 .. n - 1 /\ ~(at <= h)
          BY <2>1, <4>2
        <5> QED
          BY <2>4, <5>1
      <4>3. CASE h > at
        <5>1. h - 1 \in 1 .. n - 1 /\ at <= h - 1 /\ (h - 1) + 1 = h
          BY <2>1, <4>3
        <5>2. ElementAt(new, ns, h - 1) = ElementAt(mem, ls, h)
          BY <2>4, <5>1
        <5> QED
          BY <5>1, <5>2
      <4> QED
        BY <2>1, <4>1, <4>2, <4>3
    <3> QED
      BY <2>3, <3>1, <3>2 DEF Members
  <2>7. ASSUME NEW p \in P, vw[p].array # ls.array
        PROVE  /\ \A i \in 1 .. vw[p].len : ElementAt(new, vw[p], i) = ElementAt(mem, vw[p], i)
               /\ Steady(new, ns, vw[p], off2)
    <3>1. \A i \in 1 .. vw[p].len : ElementAt(new, vw[p], i) = ElementAt(mem, vw[p], i)
      BY <1>0, <2>2, <2>7
    <3>2. \A i \in 1 .. vw[p].len : vw[p].array # 0
      BY <1>0, SliceFields
    <3> QED
      BY <1>0, <2>3, <2>7, <3>1, <3>2 DEF Steady
  <2>8. ASSUME NEW p \in P, vw[p].array = ls.array, NEW i \in 1 .. vw[p].len
        PROVE  /\ ElementAt(new, vw[p], i) \in off2 /\ ElementAt(mem, vw[p], i) \in off2
               /\ \/ ElementAt(new, vw[p], i) = ElementAt(mem, vw[p], i)
                  \/ ElementAt(new, vw[p], i) \in Members(mem, ls)
    <3>0. IsSlice(mem, vw[p]) /\ vw[p].len \in Nat /\ i \in Nat
      BY <1>0, SliceFields
    <3>1. Members(mem, ls) \subseteq off2
      BY <2>8, <3>0 DEF Covers
    <3>2. ElementAt(mem, vw[p], i) \in off2
      <4>1. CASE i <= n
        <5>1. ElementAt(mem, vw[p], i) = ElementAt(mem, ls, i) /\ i \in 1 .. n
          BY <2>1, <2>8, <4>1 DEF ElementAt
        <5> QED
          BY <3>1, <5>1 DEF Members
      <4>2. CASE ~(i <= n)
        BY <1>0, <2>8, <4>2 DEF Steady
      <4> QED
        BY <4>1, <4>2
    <3>3. CASE at <= i /\ i < n
      <4>1. i + 1 \in 1 .. n
        BY <2>1, <3>3
      <4>2. ElementAt(new, vw[p], i) = ElementAt(mem, ls, i + 1)
        BY <2>2, <2>8, <3>0, <3>3
      <4> QED
        BY <3>1, <3>2, <4>1, <4>2 DEF Members
    <3>4. CASE ~(at <= i /\ i < n)
      BY <2>2, <3>0, <3>2, <3>4
    <3> QED
      BY <3>3, <3>4
  <2>9. \A p \in P : IsSlice(new, vw[p]) /\ Steady(new, ns, vw[p], off2)
    BY <1>0, <2>2, <2>7, <2>8 DEF Steady
  <2>10. MovedOnly(new, mem, ls, vw, P, off2)
    BY <2>7, <2>8 DEF MovedOnly
  <2> QED
    BY <2>1, <2>5, <2>6, <2>9, <2>10 DEF new, ns, SlicesInv
<1> QED
  BY <1>1, <1>2

\* A process takes the list for its view, or lets go of one.
LEMMA LookKeepsSlices ==
  ASSUME NEW mem, NEW ls, NEW vw, NEW vw2, NEW P, NEW off, SlicesInv(mem, ls, vw, P, off),
         \A p \in P : vw2[p] = vw[p] \/ vw2[p] = ls \/ vw2[p] = NoSlice
  PROVE  SlicesInv(mem, ls, vw2, P, off)
<1> SUFFICES ASSUME NEW p \in P
             PROVE  IsSlice(mem, vw2[p]) /\ Steady(mem, ls, vw2[p], off)
  BY DEF SlicesInv
<1>1. CASE vw2[p] = vw[p]
  BY <1>1 DEF SlicesInv
<1>2. CASE vw2[p] = ls
  <2>1. IsSlice(mem, ls) /\ Distinct(mem, ls) /\ ls.len \in Nat
    BY SliceFields DEF SlicesInv
  <2>2. Steady(mem, ls, ls, off)
    BY <2>1 DEF Distinct, Steady
  <2> QED
    BY <1>2, <2>1, <2>2
<1>3. CASE vw2[p] = NoSlice
  BY <1>3 DEF IsSlice, Steady, NoSlice
<1> QED
  BY <1>1, <1>2, <1>3
-----------------------------------------------------------------------------
(***************************************************************************)
(* The inductive invariant of StreamHub                                    *)
(***************************************************************************)
Elements == Clients \cup {Unused}
Commands == [cmd : {"register", "unregister", "subscribe", "unsubscribe"}, who : Agents \cup Clients]
Registering(a) == [cmd |-> "register", who |-> a]
Subscribing(c) == [cmd |-> "subscribe", who |-> c]
Unsubscribing(c) == [cmd |-> "unsubscribe", who |-> c]

HubTypes ==
  /\ commands \in Seq(Commands)
  /\ arrays \in Seq(Seq(Elements))
  /\ stream \in [Agents -> {"none", "asked", "active", "leaving", "finished"}]
  /\ produced \in [Agents -> Nat]
  /\ output \in [Agents -> Seq(Nat)]
  /\ buffer \in [Agents -> Seq(Nat)]
  /\ pump \in [Agents -> {"none", "select", "took", "sending", "stopped"}]
  /\ chunk \in [Agents -> Nat]
  /\ view \in [Agents -> [array : Nat, len : Nat]]
  /\ pos \in [Agents -> Nat \ {0}]
  /\ conn \in [Clients -> {"none", "subscribed", "pumping", "leaving", "over"}]
  /\ clientDone \in [Clients -> BOOLEAN]
  /\ frames \in [Clients -> Seq(Agents \X Nat)]
  /\ backfill \in [Clients -> SUBSET (Agents \X Nat)]
  /\ dropped \in [Clients -> SUBSET (Agents \X Nat)]

\* The slices of the hub, which only a pump that sends has one of.
HubSlices ==
  /\ SlicesInv(arrays, list, view, Agents, shifted)
  /\ \A a \in Agents : view[a] # NoSlice => pump[a] = "sending"

\* A client the hub has yet to hear of: nobody has its channel.
Unknown(c) ==
  /\ c \notin Subscribers
  /\ \A a \in Agents : c \notin Members(arrays, view[a])
  /\ frames[c] = <<>>

\* An agent is registered once; a client asks to be subscribed once, before everything else,
\* and to be taken off the list when it has left.
HubCommands ==
  /\ \A a \in Agents :
       /\ stream[a] = "none" => pump[a] = "none"
       /\ \A i \in 1 .. Len(commands) : commands[i] = Registering(a) =>
            /\ stream[a] # "none" /\ pump[a] = "none"
            /\ \A j \in 1 .. Len(commands) : commands[j] = Registering(a) => j = i
  /\ \A c \in Clients :
       /\ conn[c] = "none" => Unknown(c)
       /\ \A i \in 1 .. Len(commands) : commands[i] = Subscribing(c) =>
            /\ conn[c] # "none" /\ Unknown(c)
            /\ \A j \in 1 .. Len(commands) : commands[j] = Subscribing(c) => j = i
       /\ \A i \in 1 .. Len(commands) : commands[i] = Unsubscribing(c) => conn[c] = "over"

\* A connection the hub knew at its backfill is on the list until it has ended.
Listed ==
  \A c \in Clients : conn[c] = "pumping" /\ c \notin early /\ ~clientDone[c] => c \in Subscribers

\* The chunks of an agent come in order: what waits is newer than what the pump has.
ChunksInOrder ==
  \A a \in Agents :
    /\ \A i \in 1 .. Len(output[a]) : chunk[a] < output[a][i] /\ output[a][i] <= produced[a]
    /\ \A i, j \in 1 .. Len(output[a]) : i < j => output[a][i] < output[a][j]
    /\ chunk[a] <= produced[a]

ToCome(a, c) == \E i \in pos[a] .. view[a].len : ElementAt(arrays, view[a], i) = c

\* What a client has of an agent is older than what waits, and not newer than what the pump
\* has, which it has only when the pump has been there.
FramesAreOld ==
  \A c \in Clients \ shifted : \A k \in 1 .. Len(frames[c]) : \A a \in Agents :
    frames[c][k][1] = a =>
      /\ frames[c][k][2] <= produced[a]
      /\ \A i \in 1 .. Len(output[a]) : frames[c][k][2] < output[a][i]
      /\ pump[a] \in {"took", "sending"} => frames[c][k][2] <= chunk[a]
      /\ pump[a] = "took" => frames[c][k][2] < chunk[a]
      /\ pump[a] = "sending" /\ ToCome(a, c) => frames[c][k][2] < chunk[a]

HubInv ==
  /\ HubTypes /\ HubSlices /\ HubCommands /\ Listed
  /\ ChunksInOrder /\ FramesAreOld /\ FramesInOrder /\ NothingIsMissed
-----------------------------------------------------------------------------
(***************************************************************************)
(* Its parts, step by step                                                 *)
(***************************************************************************)
\* Steps that touch neither lists nor pumps nor frames, and connect nobody.
Still ==
  /\ UNCHANGED <<slices, pumps, produced, output, buffer, frames, backfill, history>>
  /\ \A c \in Clients : /\ clientDone[c] => clientDone'[c]
                        /\ conn'[c] = "pumping" => conn[c] = "pumping"

LEMMA HubSteps ==
  ASSUME HubTypes, Next
  PROVE  \/ Still
         \/ \E a \in Agents : \/ DoRegisterAgent(a) \/ Output(a) \/ PumpTake(a) \/ PumpLook(a)
                              \/ PumpSend(a) \/ PumpAgain(a) \/ PumpStop(a)
         \/ \E c \in Clients : DoSubscribe(c) \/ DoUnsubscribe(c) \/ Backfill(c) \/ Unsubscribe(c)
         \/ Shutdown
<1> USE DEF HubTypes, vars, slices, agents, pumps, sockets, sending, history
<1>1. ASSUME NEW a \in Agents, RegisterAgent(a) \/ UnregisterAgent(a) \/ DoUnregisterAgent(a)
      PROVE  Still
  BY <1>1 DEF RegisterAgent, UnregisterAgent, DoUnregisterAgent, Still
<1>2. ASSUME NEW c \in Clients, Subscribe(c) \/ Write(c) \/ Break(c) \/ ReaderEnds(c) \/ WriterEnds(c)
      PROVE  Still
  BY <1>2 DEF Subscribe, Write, Break, ReaderEnds, WriterEnds, Still
<1>3. ASSUME NEW c \in Clients, ReaderCloses(c) \/ HubCloses(c)
      PROVE  Still
  BY <1>3 DEF ReaderCloses, HubCloses, Still
<1> QED
  BY <1>1, <1>2, <1>3 DEF Next, Pump, EventLoop, Handler, Reader

LEMMA InitHub == Init => HubInv
<1> SUFFICES ASSUME Init PROVE HubInv
  OBVIOUS
<1> USE DEF Init
<1>1. HubTypes
  <2>1. <<>> \in Seq(Commands) /\ <<>> \in Seq(Seq(Elements)) /\ <<>> \in Seq(Nat)
        /\ <<>> \in Seq(Agents \X Nat)
    OBVIOUS
  <2>2. NoSlice \in [array : Nat, len : Nat] /\ 1 \in Nat \ {0}
    BY DEF NoSlice
  <2> QED
    BY <2>1, <2>2 DEF HubTypes
<1>2. HubSlices
  BY DEF HubSlices, SlicesInv, IsSlice, Distinct, Steady, NoSlice
<1>3. HubCommands
  BY DEF HubCommands, Unknown, Subscribers, Members, NoSlice
<1>4. Listed /\ ChunksInOrder
  BY DEF Listed, ChunksInOrder
<1>5. FramesAreOld /\ FramesInOrder /\ NothingIsMissed
  BY DEF FramesAreOld, FramesInOrder, NothingIsMissed
<1> QED
  BY <1>1, <1>2, <1>3, <1>4, <1>5 DEF HubInv

LEMMA TypesKept ==
  ASSUME HubTypes, HubSlices, Next
  PROVE  HubTypes'
<1> USE DEF HubTypes, Send, Take, vars, loop, slices, agents, pumps, sockets, sending, history
<1>1. ASSUME NEW a \in Agents, RegisterAgent(a) \/ UnregisterAgent(a)
      PROVE  HubTypes'
  <2>1. [cmd |-> "register", who |-> a] \in Commands /\ [cmd |-> "unregister", who |-> a] \in Commands
    BY DEF Commands
  <2>2. commands' \in Seq(Commands)
    <3>1. \E m \in Commands : commands' = Append(commands, m)
      BY <1>1, <2>1 DEF RegisterAgent, UnregisterAgent
    <3> QED
      BY <3>1
  <2>3. stream' \in [Agents -> {"none", "asked", "active", "leaving", "finished"}]
    BY <1>1 DEF RegisterAgent, UnregisterAgent
  <2>4. UNCHANGED <<slices, produced, output, buffer, pumps, sockets, sending, history>>
    BY <1>1 DEF RegisterAgent, UnregisterAgent
  <2> QED
    BY <2>2, <2>3, <2>4
<1>2. ASSUME NEW a \in Agents, DoRegisterAgent(a) \/ DoUnregisterAgent(a)
      PROVE  HubTypes'
  <2>1. commands' \in Seq(Commands)
    <3>1. commands # <<>> /\ commands' = Tail(commands)
      BY <1>2 DEF DoRegisterAgent, DoUnregisterAgent
    <3> QED
      BY <3>1
  <2>2. stream' \in [Agents -> {"none", "asked", "active", "leaving", "finished"}]
    BY <1>2 DEF DoRegisterAgent, DoUnregisterAgent
  <2>3. pump' \in [Agents -> {"none", "select", "took", "sending", "stopped"}]
    BY <1>2 DEF DoRegisterAgent, DoUnregisterAgent
  <2>4. UNCHANGED <<slices, produced, output, buffer, chunk, view, pos, sockets, sending, history>>
    BY <1>2 DEF DoRegisterAgent, DoUnregisterAgent
  <2> QED
    BY <2>1, <2>2, <2>3, <2>4
<1>3. ASSUME NEW a \in Agents, Output(a)
      PROVE  HubTypes'
  <2>1. produced'[a] \in Nat /\ Append(output[a], produced'[a]) \in Seq(Nat)
    BY <1>3 DEF Output
  <2> QED
    BY <1>3, <2>1 DEF Output
<1>4. ASSUME NEW a \in Agents, PumpTake(a)
      PROVE  HubTypes'
  <2>1. Head(output[a]) \in Nat /\ Tail(output[a]) \in Seq(Nat)
        /\ Append(buffer[a], Head(output[a])) \in Seq(Nat)
    BY <1>4 DEF PumpTake
  <2> QED
    BY <1>4, <2>1 DEF PumpTake
<1>5. ASSUME NEW a \in Agents, PumpLook(a) \/ PumpAgain(a) \/ PumpStop(a)
      PROVE  HubTypes'
  <2>1. list \in [array : Nat, len : Nat] /\ NoSlice \in [array : Nat, len : Nat]
    BY DEF HubSlices, SlicesInv, IsSlice, NoSlice
  <2>2. view' \in [Agents -> [array : Nat, len : Nat]]
    BY <1>5, <2>1 DEF PumpLook, PumpAgain, PumpStop
  <2>3. pos' \in [Agents -> Nat \ {0}] /\ chunk' \in [Agents -> Nat]
    <3>1. \/ UNCHANGED <<pos, chunk>>
          \/ pos' = [pos EXCEPT ![a] = 1] /\ (chunk' = chunk \/ chunk' = [chunk EXCEPT ![a] = 0])
      BY <1>5 DEF PumpLook, PumpAgain, PumpStop
    <3>2. pos \in [Agents -> Nat \ {0}] /\ chunk \in [Agents -> Nat] /\ 1 \in Nat \ {0} /\ 0 \in Nat
      OBVIOUS
    <3> QED
      BY ONLY <3>1, <3>2
  <2>5. pump' \in [Agents -> {"none", "select", "took", "sending", "stopped"}]
    BY <1>5 DEF PumpLook, PumpAgain, PumpStop
  <2>4. UNCHANGED <<loop, slices, agents, sockets, sending, history>>
    BY <1>5 DEF PumpLook, PumpAgain, PumpStop
  <2> QED
    BY <2>2, <2>3, <2>4, <2>5
<1>6. ASSUME NEW a \in Agents, PumpSend(a)
      PROVE  HubTypes'
  <2> DEFINE c == ElementAt(arrays, view[a], pos[a])
  <2>1. <<a, chunk[a]>> \in Agents \X Nat
    OBVIOUS
  <2>2. frames' \in [Clients -> Seq(Agents \X Nat)] /\ dropped' \in [Clients -> SUBSET (Agents \X Nat)]
    <3>1. CASE UNCHANGED <<frames, dropped>>
      BY <3>1
    <3>2. CASE frames' = [frames EXCEPT ![c] = Append(@, <<a, chunk[a]>>)] /\ UNCHANGED dropped
      <4> HIDE DEF c
      <4>1. \A d \in Clients : Append(frames[d], <<a, chunk[a]>>) \in Seq(Agents \X Nat)
        BY <2>1
      <4> QED
        BY <3>2, <4>1
    <3>3. CASE dropped' = [dropped EXCEPT ![c] = @ \cup {<<a, chunk[a]>>}] /\ UNCHANGED frames
      <4> HIDE DEF c
      <4> QED
        BY <2>1, <3>3
    <3> QED
      BY <1>6, <3>1, <3>2, <3>3 DEF PumpSend
  <2>3. /\ UNCHANGED <<commands, slices, agents, pump, chunk, view, conn, clientDone, backfill>>
        /\ pos' = [pos EXCEPT ![a] = pos[a] + 1]
    BY <1>6 DEF PumpSend
  <2>4. pos' \in [Agents -> Nat \ {0}]
    <3>1. pos \in [Agents -> Nat \ {0}]
      OBVIOUS
    <3> QED
      BY ONLY a \in Agents, <2>3, <3>1
  <2> QED
    BY <2>2, <2>3, <2>4
<1>7. ASSUME NEW c \in Clients, Subscribe(c)
      PROVE  HubTypes'
  <2>1. [cmd |-> "subscribe", who |-> c] \in Commands
    BY DEF Commands
  <2>2. commands' \in Seq(Commands)
    <3>1. \E m \in Commands : commands' = Append(commands, m)
      BY <1>7, <2>1 DEF Subscribe
    <3> QED
      BY <3>1
  <2>3. conn' \in [Clients -> {"none", "subscribed", "pumping", "leaving", "over"}]
    BY <1>7 DEF Subscribe
  <2>4. UNCHANGED <<slices, agents, pumps, clientDone, sending, history>>
    BY <1>7 DEF Subscribe
  <2> QED
    BY <2>2, <2>3, <2>4
<1>8. ASSUME NEW c \in Clients, Unsubscribe(c)
      PROVE  HubTypes'
  <2>1. [cmd |-> "unsubscribe", who |-> c] \in Commands
    BY DEF Commands
  <2>2. commands' \in Seq(Commands)
    BY <1>8, <2>1 DEF Unsubscribe
  <2>3. conn' \in [Clients -> {"none", "subscribed", "pumping", "leaving", "over"}]
    BY <1>8 DEF Unsubscribe
  <2>4. frames' \in [Clients -> Seq(Agents \X Nat)]
    BY <1>8, <<>> \in Seq(Agents \X Nat) DEF Unsubscribe
  <2>5. /\ backfill' \in [Clients -> SUBSET (Agents \X Nat)]
        /\ dropped' \in [Clients -> SUBSET (Agents \X Nat)]
    BY <1>8 DEF Unsubscribe
  <2>6. UNCHANGED <<slices, agents, pumps, clientDone>>
    BY <1>8 DEF Unsubscribe
  <2> QED
    BY <2>2, <2>3, <2>4, <2>5, <2>6
<1>9. ASSUME NEW c \in Clients, DoSubscribe(c)
      PROVE  HubTypes'
  <2>1. arrays' \in Seq(Seq(Elements))
    <3>1. IsSlice(arrays, list) /\ Unused \in Elements /\ c \in Elements
      BY DEF HubSlices, SlicesInv, Elements
    <3>2. arrays' = AppendTo(arrays, list, c).arrays
      BY <1>9 DEF DoSubscribe
    <3> QED
      BY <3>1, <3>2, AppendInPlace, AppendAnew
  <2>2. commands' \in Seq(Commands)
    BY <1>9 DEF DoSubscribe
  <2>3. UNCHANGED <<agents, pumps, sockets, sending, dropped>>
    BY <1>9 DEF DoSubscribe
  <2> QED
    BY <2>1, <2>2, <2>3
<1>10. ASSUME NEW c \in Clients, DoUnsubscribe(c)
       PROVE  HubTypes'
  <2>1. arrays' \in Seq(Seq(Elements))
    <3>1. IsSlice(arrays, list)
      BY DEF HubSlices, SlicesInv
    <3>2. arrays' = RemoveFrom(arrays, list, c).arrays
      BY <1>10 DEF DoUnsubscribe, RemoveClient
    <3>3. CASE c \in Members(arrays, list)
      BY <3>1, <3>2, <3>3, RemoveInPlace
    <3>4. CASE c \notin Members(arrays, list)
      BY <3>2, <3>4 DEF RemoveFrom
    <3> QED
      BY <3>3, <3>4
  <2>2. commands' \in Seq(Commands)
    BY <1>10 DEF DoUnsubscribe
  <2>3. UNCHANGED <<agents, pumps, sockets, sending, dropped>>
    BY <1>10 DEF DoUnsubscribe
  <2> QED
    BY <2>1, <2>2, <2>3
<1>11. ASSUME NEW c \in Clients, Backfill(c)
       PROVE  HubTypes'
  <2>1. \A a \in Agents : {<<a, buffer[a][i]>> : i \in DOMAIN buffer[a]} \subseteq Agents \X Nat
    OBVIOUS
  <2>2. Wants[c] \subseteq Agents
    BY HubAssumption
  <2>3. UNION {{<<a, buffer[a][i]>> : i \in DOMAIN buffer[a]} : a \in Wants[c]} \subseteq Agents \X Nat
    BY <2>1, <2>2
  <2> QED
    BY <1>11, <2>3 DEF Backfill
<1>12. ASSUME NEW c \in Clients,
              Write(c) \/ Break(c) \/ ReaderEnds(c) \/ ReaderCloses(c) \/ WriterEnds(c) \/ HubCloses(c)
       PROVE  HubTypes'
  BY <1>12 DEF Write, Break, ReaderEnds, ReaderCloses, WriterEnds, HubCloses
<1>13. CASE Shutdown
  <2>1. \A c \in Clients : (clientDone[c] \/ c \in Subscribers) \in BOOLEAN
    OBVIOUS
  <2>2. clientDone' = [c \in Clients |-> clientDone[c] \/ c \in Subscribers]
    BY <1>13 DEF Shutdown, CleanupAll
  <2>3. clientDone' \in [Clients -> BOOLEAN]
    BY <2>1, <2>2
  <2> QED
    BY <1>13, <2>3 DEF Shutdown
<1> QED
  BY <1>1, <1>2, <1>3, <1>4, <1>5, <1>6, <1>7, <1>8, <1>9, <1>10, <1>11, <1>12, <1>13
     DEF Next, Pump, EventLoop, Handler, Reader

LEMMA Taken ==
  ASSUME HubTypes, commands # <<>>, commands' = Tail(commands)
  PROVE  /\ Len(commands) \in Nat /\ 1 \in 1 .. Len(commands) /\ Head(commands) = commands[1]
         /\ \A i \in 1 .. Len(commands') :
              i + 1 \in 1 .. Len(commands) /\ i + 1 # 1 /\ commands'[i] = commands[i + 1]
<1>1. commands \in Seq(Commands)
  BY DEF HubTypes
<1> QED
  BY <1>1

\* The command that registers an agent or subscribes a client comes before anything else of it.
LEMMA FirstCommand ==
  ASSUME HubTypes, HubCommands
  PROVE  /\ \A a \in Agents : DoRegisterAgent(a) => pump[a] = "none"
         /\ \A c \in Clients : DoSubscribe(c) => Unknown(c)
         /\ \A c \in Clients : DoUnsubscribe(c) => conn[c] = "over"
<1>1. ASSUME NEW a \in Agents, DoRegisterAgent(a) PROVE pump[a] = "none"
  <2>1. commands # <<>> /\ commands' = Tail(commands) /\ Head(commands) = Registering(a)
    BY <1>1 DEF DoRegisterAgent, Take, Registering
  <2> QED
    BY <2>1, Taken DEF HubCommands
<1>2. ASSUME NEW c \in Clients, DoSubscribe(c) PROVE Unknown(c)
  <2>1. commands # <<>> /\ commands' = Tail(commands) /\ Head(commands) = Subscribing(c)
    BY <1>2 DEF DoSubscribe, Take, Subscribing
  <2> QED
    BY <2>1, Taken DEF HubCommands
<1>3. ASSUME NEW c \in Clients, DoUnsubscribe(c) PROVE conn[c] = "over"
  <2>1. commands # <<>> /\ commands' = Tail(commands) /\ Head(commands) = Unsubscribing(c)
    BY <1>3 DEF DoUnsubscribe, Take, Unsubscribing
  <2> QED
    BY <2>1, Taken DEF HubCommands
<1> QED
  BY <1>1, <1>2, <1>3

\* What a step makes of the slices, and who is in them afterwards.
LEMMA SubscribeSlices ==
  ASSUME HubTypes, HubSlices, NEW c \in Clients, DoSubscribe(c), Unknown(c)
  PROVE  /\ SlicesInv(arrays', list', view, Agents, shifted)
         /\ Subscribers' = Subscribers \cup {c}
         /\ \A a \in Agents : \A i \in 1 .. view[a].len :
              \/ ElementAt(arrays', view[a], i) = ElementAt(arrays, view[a], i)
              \/ ElementAt(arrays', view[a], i) = c /\ ElementAt(arrays, view[a], i) \in shifted
<1>1. /\ arrays' = AppendTo(arrays, list, c).arrays
      /\ list' = AppendTo(arrays, list, c).slice
  BY DEF DoSubscribe
<1>2. arrays \in Seq(Seq(Elements)) /\ Unused \in Elements /\ c \in Elements
  BY DEF HubTypes, Elements
<1>3. SlicesInv(arrays, list, view, Agents, shifted)
  BY DEF HubSlices
<1>4. c \notin Members(arrays, list) /\ \A a \in Agents : c \notin Members(arrays, view[a])
  BY DEF Unknown, Subscribers
<1> QED
  BY <1>1, <1>2, <1>3, <1>4, AppendKeepsSlices DEF Subscribers

LEMMA UnsubscribeSlices ==
  ASSUME HubTypes, HubSlices, NEW c \in Clients, DoUnsubscribe(c)
  PROVE  /\ SlicesInv(arrays', list', view, Agents, shifted')
         /\ Subscribers' = Subscribers \ {c}
         /\ shifted \subseteq shifted'
         /\ MovedOnly(arrays', arrays, list, view, Agents, shifted')
<1>1. /\ arrays' = RemoveFrom(arrays, list, c).arrays
      /\ list' = RemoveFrom(arrays, list, c).slice
  BY DEF DoUnsubscribe, RemoveClient
<1>2. arrays \in Seq(Seq(Elements))
  BY DEF HubTypes
<1>3. SlicesInv(arrays, list, view, Agents, shifted)
  BY DEF HubSlices
<1>4. shifted \subseteq shifted'
  BY DEF DoUnsubscribe
<1>5. Covers(shifted', arrays, list, view, Agents)
  <2> SUFFICES ASSUME NEW a \in Agents, view[a].len # 0, view[a].array = list.array
               PROVE  Members(arrays, list) \subseteq shifted'
    BY DEF Covers
  <2>1. view[a] # NoSlice
    BY DEF NoSlice
  <2>2. pump[a] = "sending"
    BY <2>1 DEF HubSlices
  <2> QED
    BY <2>2 DEF DoUnsubscribe, Subscribers
<1> QED
  BY <1>1, <1>2, <1>3, <1>4, <1>5, RemoveKeepsSlices DEF Subscribers

LEMMA SlicesKept ==
  ASSUME HubTypes, HubSlices, HubCommands, Next
  PROVE  HubSlices'
<1>0. SlicesInv(arrays, list, view, Agents, shifted)
      /\ \A a \in Agents : view[a] # NoSlice => pump[a] = "sending"
  BY DEF HubSlices
<1>1. CASE Still
  BY <1>0, <1>1 DEF Still, slices, pumps, history, HubSlices
<1>2. ASSUME NEW a \in Agents, DoRegisterAgent(a)
      PROVE  HubSlices'
  <2>1. pump[a] = "none"
    BY <1>2, FirstCommand
  <2>2. \A b \in Agents : view'[b] # NoSlice => pump'[b] = "sending"
    BY <1>0, <1>2, <2>1 DEF DoRegisterAgent, HubTypes
  <2> QED
    BY <1>0, <1>2, <2>2 DEF DoRegisterAgent, slices, history, HubSlices
<1>3. ASSUME NEW a \in Agents, Output(a) \/ PumpSend(a)
      PROVE  HubSlices'
  BY <1>0, <1>3 DEF Output, PumpSend, slices, pumps, history, HubSlices
<1>4. ASSUME NEW a \in Agents, PumpTake(a) \/ PumpStop(a)
      PROVE  HubSlices'
  <2>1. \A b \in Agents : view'[b] # NoSlice => pump'[b] = "sending"
    BY <1>0, <1>4 DEF PumpTake, PumpStop, HubTypes
  <2> QED
    BY <1>0, <1>4, <2>1 DEF PumpTake, PumpStop, slices, history, HubSlices
<1>5. ASSUME NEW a \in Agents, PumpLook(a) \/ PumpAgain(a)
      PROVE  HubSlices'
  <2>1. \A b \in Agents : view'[b] = view[b] \/ view'[b] = list \/ view'[b] = NoSlice
    BY <1>5 DEF PumpLook, PumpAgain, HubTypes
  <2>2. SlicesInv(arrays, list, view', Agents, shifted)
    BY <1>0, <2>1, LookKeepsSlices
  <2>3. ASSUME NEW b \in Agents, view'[b] # NoSlice PROVE pump'[b] = "sending"
    <3>1. CASE PumpLook(a)
      BY <1>0, <2>3, <3>1 DEF PumpLook, HubTypes
    <3>2. CASE PumpAgain(a)
      BY <1>0, <2>3, <3>2 DEF PumpAgain, HubTypes
    <3> QED
      BY <1>5, <3>1, <3>2
  <2> QED
    BY <1>5, <2>2, <2>3 DEF PumpLook, PumpAgain, slices, history, HubSlices
<1>6. ASSUME NEW c \in Clients, DoSubscribe(c)
      PROVE  HubSlices'
  <2>1. Unknown(c)
    BY <1>6, FirstCommand
  <2>2. SlicesInv(arrays', list', view, Agents, shifted)
    BY <1>6, <2>1, SubscribeSlices
  <2> QED
    BY <1>0, <1>6, <2>2 DEF DoSubscribe, pumps, history, HubSlices
<1>7. ASSUME NEW c \in Clients, DoUnsubscribe(c)
      PROVE  HubSlices'
  <2>1. SlicesInv(arrays', list', view, Agents, shifted')
    BY <1>7, UnsubscribeSlices
  <2> QED
    BY <1>0, <1>7, <2>1 DEF DoUnsubscribe, pumps, HubSlices
<1>8. ASSUME NEW c \in Clients, Backfill(c) \/ Unsubscribe(c)
      PROVE  HubSlices'
  BY <1>0, <1>8 DEF Backfill, Unsubscribe, slices, pumps, HubSlices
<1>9. CASE Shutdown
  <2>1. IsSlice(arrays, NoSlice) /\ Distinct(arrays, NoSlice)
    BY DEF IsSlice, Distinct, NoSlice
  <2>2. ASSUME NEW a \in Agents PROVE Steady(arrays, NoSlice, view[a], shifted)
    <3>1. IsSlice(arrays, view[a]) /\ Steady(arrays, list, view[a], shifted)
      BY <1>0 DEF SlicesInv
    <3>2. \A i \in 1 .. view[a].len : view[a].array # 0
      BY <3>1, SliceFields
    <3> QED
      BY <3>1, <3>2 DEF Steady, NoSlice
  <2>3. SlicesInv(arrays, NoSlice, view, Agents, shifted)
    BY <1>0, <2>1, <2>2 DEF SlicesInv
  <2> QED
    BY <1>0, <1>9, <2>3 DEF Shutdown, CleanupAll, pumps, history, HubSlices
<1> QED
  BY <1>1, <1>2, <1>3, <1>4, <1>5, <1>6, <1>7, <1>8, <1>9, HubSteps

\* Nobody gets the channel of an unknown client but by its subscription.
LEMMA UnknownKept ==
  ASSUME HubTypes, HubSlices, HubCommands, Next, NEW c \in Clients, Unknown(c)
  PROVE  Unknown(c)' \/ DoSubscribe(c)
<1> USE DEF Unknown
<1>0. /\ c \notin Subscribers /\ frames[c] = <<>>
      /\ \A a \in Agents : c \notin Members(arrays, view[a])
  OBVIOUS
<1>1. CASE Still
  BY <1>1 DEF Still, slices, pumps, Subscribers
<1>2. ASSUME NEW a \in Agents, DoRegisterAgent(a) \/ Output(a) \/ PumpTake(a) \/ PumpStop(a)
      PROVE  Unknown(c)'
  BY <1>2 DEF DoRegisterAgent, Output, PumpTake, PumpStop, slices, pumps, sending, Subscribers
<1>3. ASSUME NEW a \in Agents, PumpLook(a) \/ PumpAgain(a)
      PROVE  Unknown(c)'
  <2>1. \A b \in Agents : view'[b] = view[b] \/ view'[b] = list \/ view'[b] = NoSlice
    BY <1>3 DEF PumpLook, PumpAgain, HubTypes
  <2>2. c \notin Members(arrays, NoSlice)
    BY DEF Members, NoSlice
  <2>3. \A b \in Agents : c \notin Members(arrays, view'[b])
    BY <1>0, <2>1, <2>2 DEF Subscribers
  <2> QED
    BY <1>0, <1>3, <2>3 DEF PumpLook, PumpAgain, slices, sending, Subscribers
<1>4. ASSUME NEW a \in Agents, PumpSend(a)
      PROVE  Unknown(c)'
  <2>1. pos[a] \in 1 .. view[a].len
    BY <1>4 DEF PumpSend, HubTypes
  <2>2. ElementAt(arrays, view[a], pos[a]) # c
    BY <2>1 DEF Members
  <2>3. frames'[c] = frames[c]
    BY <1>4, <2>2 DEF PumpSend, HubTypes
  <2> QED
    BY <1>0, <1>4, <2>3 DEF PumpSend, slices, Subscribers
<1>5. ASSUME NEW d \in Clients, DoSubscribe(d), d # c
      PROVE  Unknown(c)'
  <2>1. Unknown(d)
    BY <1>5, FirstCommand
  <2>2. /\ Subscribers' = Subscribers \cup {d}
        /\ \A a \in Agents : \A i \in 1 .. view[a].len :
             \/ ElementAt(arrays', view[a], i) = ElementAt(arrays, view[a], i)
             \/ ElementAt(arrays', view[a], i) = d
    BY <1>5, <2>1, SubscribeSlices
  <2>3. view' = view /\ frames' = frames
    BY <1>5 DEF DoSubscribe, pumps, sending
  <2>4. \A a \in Agents : c \notin Members(arrays', view[a])
    BY <1>0, <1>5, <2>2 DEF Members
  <2> QED
    BY <1>0, <1>5, <2>2, <2>3, <2>4
<1>6. ASSUME NEW d \in Clients, DoUnsubscribe(d)
      PROVE  Unknown(c)'
  <2>2. /\ Subscribers' = Subscribers \ {d}
        /\ MovedOnly(arrays', arrays, list, view, Agents, shifted')
    BY <1>6, UnsubscribeSlices
  <2>3. view' = view /\ frames' = frames
    BY <1>6 DEF DoUnsubscribe, pumps, sending
  <2>4. ASSUME NEW a \in Agents, NEW i \in 1 .. view[a].len
        PROVE  ElementAt(arrays', view[a], i) # c
    <3>1. ElementAt(arrays, view[a], i) # c
      BY <1>0 DEF Members
    <3> QED
      BY <1>0, <2>2, <3>1 DEF MovedOnly, Subscribers
  <2>5. \A a \in Agents : c \notin Members(arrays', view[a])
    BY <2>4 DEF Members
  <2> QED
    BY <1>0, <2>2, <2>3, <2>5
<1>7. ASSUME NEW d \in Clients, Backfill(d)
      PROVE  Unknown(c)'
  BY <1>0, <1>7 DEF Backfill, slices, pumps, Subscribers
<1>8. ASSUME NEW d \in Clients, Unsubscribe(d)
      PROVE  Unknown(c)'
  <2>1. frames'[c] = <<>>
    BY <1>0, <1>8 DEF Unsubscribe, HubTypes
  <2> QED
    BY <1>0, <1>8, <2>1 DEF Unsubscribe, slices, pumps, Subscribers
<1>9. CASE Shutdown
  <2>1. arrays' = arrays /\ list' = NoSlice /\ view' = view /\ frames' = frames
    BY <1>9 DEF Shutdown, CleanupAll, pumps, sending
  <2>2. c \notin Members(arrays, NoSlice)
    BY DEF Members, NoSlice
  <2> QED
    BY <1>0, <2>1, <2>2 DEF Subscribers
<1> QED
  BY <1>1, <1>2, <1>3, <1>4, <1>5, <1>6, <1>7, <1>8, <1>9, HubSteps

\* A step sends a command, takes the first, or neither; only the three requests send one that
\* is new.
CommandStep ==
  \/ UNCHANGED commands
  \/ commands # <<>> /\ commands' = Tail(commands)
  \/ \E m \in Commands :
       /\ commands' = Append(commands, m)
       /\ \A a \in Agents : m = Registering(a) => stream[a] = "none" /\ stream'[a] # "none"
       /\ \A c \in Clients : m = Subscribing(c) => conn[c] = "none" /\ conn'[c] # "none"
       /\ \A c \in Clients : m = Unsubscribing(c) => conn'[c] = "over"

LEMMA CommandSteps ==
  ASSUME HubTypes, Next
  PROVE  CommandStep
<1> USE DEF CommandStep, Registering, Subscribing, Unsubscribing
<1>1. ASSUME NEW a \in Agents, RegisterAgent(a) PROVE CommandStep
  <2>1. [cmd |-> "register", who |-> a] \in Commands
    BY DEF Commands
  <2>2. commands' = Append(commands, [cmd |-> "register", who |-> a])
        /\ stream[a] = "none" /\ stream'[a] # "none"
    BY <1>1 DEF RegisterAgent, Send, HubTypes
  <2> QED
    BY <2>1, <2>2
<1>2. ASSUME NEW a \in Agents, UnregisterAgent(a) PROVE CommandStep
  <2>1. [cmd |-> "unregister", who |-> a] \in Commands
    BY DEF Commands
  <2>2. commands' = Append(commands, [cmd |-> "unregister", who |-> a])
    BY <1>2 DEF UnregisterAgent, Send
  <2> QED
    BY <2>1, <2>2
<1>3. ASSUME NEW c \in Clients, Subscribe(c) PROVE CommandStep
  <2>1. [cmd |-> "subscribe", who |-> c] \in Commands
    BY DEF Commands
  <2>2. commands' = Append(commands, [cmd |-> "subscribe", who |-> c])
        /\ conn[c] = "none" /\ conn'[c] # "none"
    BY <1>3 DEF Subscribe, Send, HubTypes
  <2> QED
    BY <2>1, <2>2
<1>4. ASSUME NEW c \in Clients, Unsubscribe(c) PROVE CommandStep
  <2>1. [cmd |-> "unsubscribe", who |-> c] \in Commands
    BY DEF Commands
  <2>2. commands' = Append(commands, [cmd |-> "unsubscribe", who |-> c]) /\ conn'[c] = "over"
    BY <1>4 DEF Unsubscribe, Send, HubTypes
  <2> QED
    BY <2>1, <2>2
<1>5. ASSUME NEW a \in Agents, DoRegisterAgent(a) \/ DoUnregisterAgent(a)
      PROVE  CommandStep
  BY <1>5 DEF DoRegisterAgent, DoUnregisterAgent, Take
<1>6. ASSUME NEW c \in Clients, DoSubscribe(c) \/ DoUnsubscribe(c)
      PROVE  CommandStep
  BY <1>6 DEF DoSubscribe, DoUnsubscribe, Take
<1>7. ASSUME NEW a \in Agents, Output(a) \/ Pump(a)
      PROVE  UNCHANGED commands
  BY <1>7 DEF Output, Pump, PumpTake, PumpLook, PumpSend, PumpAgain, PumpStop, loop
<1>8. ASSUME NEW c \in Clients,
             HubCloses(c) \/ Backfill(c) \/ WriterEnds(c) \/ Write(c) \/ Break(c) \/ Reader(c)
      PROVE  UNCHANGED commands
  BY <1>8 DEF HubCloses, Backfill, WriterEnds, Write, Break, Reader, ReaderEnds, ReaderCloses, loop
<1>9. CASE Shutdown
  BY <1>9 DEF Shutdown
<1> QED
  BY <1>1, <1>2, <1>3, <1>4, <1>5, <1>6, <1>7, <1>8, <1>9 DEF Next, EventLoop, Handler

\* Nobody goes back to the beginning, and who is over stays so.
LEMMA OnlyForward ==
  ASSUME HubTypes, Next
  PROVE  /\ \A c \in Clients : /\ conn'[c] = "none" => conn[c] = "none"
                               /\ conn[c] = "over" => conn'[c] = "over"
         /\ \A a \in Agents : /\ stream'[a] = "none" => stream[a] = "none"
                              /\ pump[a] = "none" => pump'[a] = "none" \/ DoRegisterAgent(a)
<1> USE DEF HubTypes
<1> DEFINE Goal == /\ \A c \in Clients : /\ conn'[c] = "none" => conn[c] = "none"
                                         /\ conn[c] = "over" => conn'[c] = "over"
                   /\ \A a \in Agents : /\ stream'[a] = "none" => stream[a] = "none"
                                        /\ pump[a] = "none" => pump'[a] = "none" \/ DoRegisterAgent(a)
<1>1. ASSUME NEW a \in Agents, RegisterAgent(a) \/ UnregisterAgent(a) \/ DoUnregisterAgent(a)
      PROVE  Goal
  BY <1>1 DEF RegisterAgent, UnregisterAgent, DoUnregisterAgent, pumps, sockets
<1>2. ASSUME NEW a \in Agents, DoRegisterAgent(a)
      PROVE  Goal
  BY <1>2 DEF DoRegisterAgent, sockets
<1>3. ASSUME NEW a \in Agents, Output(a) \/ Pump(a)
      PROVE  Goal
  BY <1>3 DEF Output, Pump, PumpTake, PumpLook, PumpSend, PumpAgain, PumpStop, agents, pumps, sockets
<1>4. ASSUME NEW c \in Clients, Subscribe(c) \/ Handler(c)
      PROVE  Goal
  BY <1>4 DEF Subscribe, Handler, Backfill, WriterEnds, Unsubscribe, agents, pumps
<1>5. ASSUME NEW c \in Clients,
             DoSubscribe(c) \/ DoUnsubscribe(c) \/ HubCloses(c) \/ Write(c) \/ Break(c) \/ Reader(c)
      PROVE  Goal
  BY <1>5 DEF DoSubscribe, DoUnsubscribe, HubCloses, Write, Break, Reader, ReaderEnds, ReaderCloses,
              agents, pumps, sockets
<1>6. CASE Shutdown
  BY <1>6 DEF Shutdown, CleanupAll, pumps
<1> QED
  BY <1>1, <1>2, <1>3, <1>4, <1>5, <1>6 DEF Next, EventLoop

LEMMA CommandsKept ==
  ASSUME HubTypes, HubSlices, HubCommands, Next
  PROVE  HubCommands'
<1>0. /\ CommandStep
      /\ \A c \in Clients : /\ conn'[c] = "none" => conn[c] = "none"
                            /\ conn[c] = "over" => conn'[c] = "over"
                            /\ Unknown(c) => Unknown(c)' \/ DoSubscribe(c)
      /\ \A a \in Agents : /\ stream'[a] = "none" => stream[a] = "none"
                           /\ pump[a] = "none" => pump'[a] = "none" \/ DoRegisterAgent(a)
  BY CommandSteps, OnlyForward, UnknownKept
<1>1. /\ \A a \in Agents : DoRegisterAgent(a) => /\ commands # <<>> /\ commands' = Tail(commands)
                                                 /\ Head(commands) = Registering(a)
      /\ \A c \in Clients : DoSubscribe(c) => /\ commands # <<>> /\ commands' = Tail(commands)
                                              /\ Head(commands) = Subscribing(c)
  BY DEF DoRegisterAgent, DoSubscribe, Take, Registering, Subscribing
<1>c. commands \in Seq(Commands) /\ Len(commands) \in Nat
  BY DEF HubTypes
\* A command in the queue was there before, or is the new last one.
<1>2. ASSUME NEW m \in Commands, commands' = Append(commands, m)
      PROVE  \A i \in 1 .. Len(commands') :
               \/ i \in 1 .. Len(commands) /\ commands'[i] = commands[i]
               \/ i = Len(commands) + 1 /\ commands'[i] = m
  BY <1>c, <1>2
<1>3. ASSUME commands # <<>>, commands' = Tail(commands)
      PROVE  /\ 1 \in 1 .. Len(commands) /\ Head(commands) = commands[1]
             /\ \A i \in 1 .. Len(commands') :
                  i + 1 \in 1 .. Len(commands) /\ i + 1 # 1 /\ commands'[i] = commands[i + 1]
  BY <1>3, Taken
<1>4. commands # <<>> => Tail(commands) # commands
  BY <1>c
<1>5. ASSUME NEW a \in Agents
      PROVE  /\ stream'[a] = "none" => pump'[a] = "none"
             /\ \A i \in 1 .. Len(commands') : commands'[i] = Registering(a) =>
                  /\ stream'[a] # "none" /\ pump'[a] = "none"
                  /\ \A j \in 1 .. Len(commands') : commands'[j] = Registering(a) => j = i
  <2>0. /\ stream[a] = "none" => pump[a] = "none"
        /\ \A i \in 1 .. Len(commands) : commands[i] = Registering(a) =>
             /\ stream[a] # "none" /\ pump[a] = "none"
             /\ \A j \in 1 .. Len(commands) : commands[j] = Registering(a) => j = i
    BY DEF HubCommands
  <2>1. CASE UNCHANGED commands
    BY <1>0, <1>1, <1>4, <2>0, <2>1
  <2>2. CASE commands # <<>> /\ commands' = Tail(commands)
    <3>1. stream'[a] = "none" => pump'[a] = "none"
      BY <1>0, <1>1, <1>3, <2>0, <2>2
    <3>2. ASSUME NEW i \in 1 .. Len(commands'), commands'[i] = Registering(a)
          PROVE  /\ stream'[a] # "none" /\ pump'[a] = "none"
                 /\ \A j \in 1 .. Len(commands') : commands'[j] = Registering(a) => j = i
      <4>1. i + 1 \in 1 .. Len(commands) /\ commands[i + 1] = Registering(a) /\ i + 1 # 1
        BY <1>3, <2>2, <3>2
      <4>2. ~DoRegisterAgent(a)
        BY <1>1, <1>3, <2>0, <2>2, <4>1
      <4>3. ASSUME NEW j \in 1 .. Len(commands'), commands'[j] = Registering(a) PROVE j = i
        <5>1. j + 1 \in 1 .. Len(commands) /\ commands[j + 1] = Registering(a)
          BY <1>3, <2>2, <4>3
        <5> QED
          BY <2>0, <4>1, <5>1
      <4> QED
        BY <1>0, <2>0, <4>1, <4>2, <4>3
    <3> QED
      BY <3>1, <3>2
  <2>3. ASSUME NEW m \in Commands, commands' = Append(commands, m),
               m = Registering(a) => stream[a] = "none" /\ stream'[a] # "none"
        PROVE  /\ stream'[a] = "none" => pump'[a] = "none"
               /\ \A i \in 1 .. Len(commands') : commands'[i] = Registering(a) =>
                    /\ stream'[a] # "none" /\ pump'[a] = "none"
                    /\ \A j \in 1 .. Len(commands') : commands'[j] = Registering(a) => j = i
    <3>1. ~DoRegisterAgent(a)
      BY <1>c, <1>1, <2>3
    <3> QED
      BY <1>0, <1>2, <2>0, <2>3, <3>1
  <2> QED
    BY <1>0, <2>1, <2>2, <2>3 DEF CommandStep
<1>6. ASSUME NEW c \in Clients
      PROVE  /\ conn'[c] = "none" => Unknown(c)'
             /\ \A i \in 1 .. Len(commands') : commands'[i] = Subscribing(c) =>
                  /\ conn'[c] # "none" /\ Unknown(c)'
                  /\ \A j \in 1 .. Len(commands') : commands'[j] = Subscribing(c) => j = i
  <2>0. /\ conn[c] = "none" => Unknown(c)
        /\ \A i \in 1 .. Len(commands) : commands[i] = Subscribing(c) =>
             /\ conn[c] # "none" /\ Unknown(c)
             /\ \A j \in 1 .. Len(commands) : commands[j] = Subscribing(c) => j = i
    BY DEF HubCommands
  <2>1. CASE UNCHANGED commands
    BY <1>0, <1>1, <1>4, <2>0, <2>1
  <2>2. CASE commands # <<>> /\ commands' = Tail(commands)
    <3>1. conn'[c] = "none" => Unknown(c)'
      BY <1>0, <1>1, <1>3, <2>0, <2>2
    <3>2. ASSUME NEW i \in 1 .. Len(commands'), commands'[i] = Subscribing(c)
          PROVE  /\ conn'[c] # "none" /\ Unknown(c)'
                 /\ \A j \in 1 .. Len(commands') : commands'[j] = Subscribing(c) => j = i
      <4>1. i + 1 \in 1 .. Len(commands) /\ commands[i + 1] = Subscribing(c) /\ i + 1 # 1
        BY <1>3, <2>2, <3>2
      <4>2. ~DoSubscribe(c)
        BY <1>1, <1>3, <2>0, <2>2, <4>1
      <4>3. ASSUME NEW j \in 1 .. Len(commands'), commands'[j] = Subscribing(c) PROVE j = i
        <5>1. j + 1 \in 1 .. Len(commands) /\ commands[j + 1] = Subscribing(c)
          BY <1>3, <2>2, <4>3
        <5> QED
          BY <2>0, <4>1, <5>1
      <4> QED
        BY <1>0, <2>0, <4>1, <4>2, <4>3
    <3> QED
      BY <3>1, <3>2
  <2>3. ASSUME NEW m \in Commands, commands' = Append(commands, m),
               m = Subscribing(c) => conn[c] = "none" /\ conn'[c] # "none"
        PROVE  /\ conn'[c] = "none" => Unknown(c)'
               /\ \A i \in 1 .. Len(commands') : commands'[i] = Subscribing(c) =>
                    /\ conn'[c] # "none" /\ Unknown(c)'
                    /\ \A j \in 1 .. Len(commands') : commands'[j] = Subscribing(c) => j = i
    <3>1. ~DoSubscribe(c)
      BY <1>c, <1>1, <2>3
    <3> QED
      BY <1>0, <1>2, <2>0, <2>3, <3>1
  <2> QED
    BY <1>0, <2>1, <2>2, <2>3 DEF CommandStep
<1>7. ASSUME NEW c \in Clients, NEW i \in 1 .. Len(commands'), commands'[i] = Unsubscribing(c)
      PROVE  conn'[c] = "over"
  <2>0. \A k \in 1 .. Len(commands) : commands[k] = Unsubscribing(c) => conn'[c] = "over"
    BY <1>0 DEF HubCommands
  <2>1. CASE UNCHANGED commands
    BY <1>7, <2>0, <2>1
  <2>2. CASE commands # <<>> /\ commands' = Tail(commands)
    BY <1>3, <1>7, <2>0, <2>2
  <2>3. ASSUME NEW m \in Commands, commands' = Append(commands, m),
               m = Unsubscribing(c) => conn'[c] = "over"
        PROVE  conn'[c] = "over"
    BY <1>2, <1>7, <2>0, <2>3
  <2> QED
    BY <1>0, <2>1, <2>2, <2>3 DEF CommandStep
<1> QED
  BY <1>5, <1>6, <1>7 DEF HubCommands

LEMMA ListedKept ==
  ASSUME HubTypes, HubSlices, HubCommands, Listed, Next
  PROVE  Listed'
<1> USE DEF Listed, HubTypes
<1>1. CASE Still
  BY <1>1 DEF Still, slices, history, Subscribers
<1>2. ASSUME NEW a \in Agents, DoRegisterAgent(a) \/ Output(a) \/ PumpTake(a) \/ PumpLook(a)
      PROVE  Listed'
  BY <1>2 DEF DoRegisterAgent, Output, PumpTake, PumpLook, slices, sockets, history, Subscribers
<1>3. ASSUME NEW a \in Agents, PumpSend(a) \/ PumpAgain(a) \/ PumpStop(a)
      PROVE  Listed'
  BY <1>3 DEF PumpSend, PumpAgain, PumpStop, slices, sockets, history, Subscribers
<1>4. ASSUME NEW d \in Clients, DoSubscribe(d)
      PROVE  Listed'
  <2>1. Subscribers' = Subscribers \cup {d}
    BY <1>4, FirstCommand, SubscribeSlices
  <2> QED
    BY <1>4, <2>1 DEF DoSubscribe, sockets, history
<1>5. ASSUME NEW d \in Clients, DoUnsubscribe(d)
      PROVE  Listed'
  <2>1. Subscribers' = Subscribers \ {d} /\ conn[d] = "over"
    BY <1>5, FirstCommand, UnsubscribeSlices
  <2> QED
    BY <1>5, <2>1 DEF DoUnsubscribe, sockets
<1>6. ASSUME NEW d \in Clients, Backfill(d)
      PROVE  Listed'
  BY <1>6 DEF Backfill, slices, Subscribers
<1>7. ASSUME NEW d \in Clients, Unsubscribe(d)
      PROVE  Listed'
  BY <1>7 DEF Unsubscribe, slices, Subscribers
<1>8. CASE Shutdown
  BY <1>8 DEF Shutdown, CleanupAll, history
<1> QED
  BY <1>1, <1>2, <1>3, <1>4, <1>5, <1>6, <1>7, <1>8, HubSteps

\* Only output and the pump's taking of it move chunks.
LEMMA ChunksKept ==
  ASSUME HubTypes, ChunksInOrder, Next
  PROVE  ChunksInOrder'
<1> USE DEF HubTypes
<1>0. \A b \in Agents : /\ output[b] \in Seq(Nat) /\ Len(output[b]) \in Nat
                        /\ \A i \in 1 .. Len(output[b]) : output[b][i] \in Nat
                        /\ chunk[b] \in Nat /\ produced[b] \in Nat
  OBVIOUS
<1>1. ASSUME UNCHANGED <<chunk, produced, output>>
      PROVE  ChunksInOrder'
  BY <1>1 DEF ChunksInOrder
<1>2. ASSUME NEW a \in Agents, Output(a)
      PROVE  ChunksInOrder'
  <2>1. /\ produced' = [produced EXCEPT ![a] = produced[a] + 1] /\ chunk' = chunk
        /\ output' = output \/ output' = [output EXCEPT ![a] = Append(output[a], produced[a] + 1)]
    BY <1>2 DEF Output, pumps
  <2>2. ASSUME NEW b \in Agents, b # a
        PROVE  output'[b] = output[b] /\ produced'[b] = produced[b] /\ chunk'[b] = chunk[b]
    BY <2>1, <2>2
  <2>3. produced'[a] = produced[a] + 1 /\ chunk'[a] = chunk[a]
    BY <2>1
  <2>4. output'[a] = output[a] \/ output'[a] = Append(output[a], produced[a] + 1)
    BY <2>1
  <2>5. /\ \A i \in 1 .. Len(output[a]) : chunk[a] < output[a][i] /\ output[a][i] <= produced[a]
        /\ \A i, j \in 1 .. Len(output[a]) : i < j => output[a][i] < output[a][j]
        /\ chunk[a] <= produced[a]
    BY DEF ChunksInOrder
  <2>6. CASE output'[a] = output[a]
    <3>1. ASSUME NEW i \in 1 .. Len(output[a])
          PROVE  output[a][i] <= produced[a] + 1
      BY <1>0, <2>5
    <3>2. chunk[a] <= produced[a] + 1
      BY <1>0, <2>5
    <3> QED
      BY <2>2, <2>3, <2>5, <2>6, <3>1, <3>2 DEF ChunksInOrder
  <2>7. CASE output'[a] = Append(output[a], produced[a] + 1)
    <3>1. \A i \in 1 .. Len(output'[a]) :
            \/ i \in 1 .. Len(output[a]) /\ output'[a][i] = output[a][i]
            \/ i = Len(output[a]) + 1 /\ output'[a][i] = produced[a] + 1
      BY <1>0, <2>7
    <3>0. chunk[a] \in Nat /\ produced[a] \in Nat /\ chunk[a] <= produced[a] + 1
      BY <1>0, <2>5
    <3>2. ASSUME NEW i \in 1 .. Len(output'[a])
          PROVE  chunk[a] < output'[a][i] /\ output'[a][i] <= produced[a] + 1
      <4>1. CASE i \in 1 .. Len(output[a]) /\ output'[a][i] = output[a][i]
        <5>1. output[a][i] \in Nat /\ chunk[a] < output[a][i] /\ output[a][i] <= produced[a]
          BY <1>0, <2>5, <4>1
        <5> QED
          BY ONLY <3>0, <4>1, <5>1
      <4>2. CASE output'[a][i] = produced[a] + 1
        BY ONLY <2>5, <3>0, <4>2
      <4> QED
        BY <3>1, <4>1, <4>2
    <3>3. ASSUME NEW i \in 1 .. Len(output'[a]), NEW j \in 1 .. Len(output'[a]), i < j
          PROVE  output'[a][i] < output'[a][j]
      <4>0. i \in 1 .. Len(output[a]) /\ output'[a][i] = output[a][i]
        <5>1. i \in Int /\ j \in Int /\ Len(output[a]) \in Nat
          BY <1>0
        <5>2. j \in 1 .. Len(output[a]) \/ j = Len(output[a]) + 1
          BY <3>1
        <5>3. i # Len(output[a]) + 1
          BY ONLY <3>3, <5>1, <5>2
        <5> QED
          BY <3>1, <5>3
      <4>1. CASE j \in 1 .. Len(output[a]) /\ output'[a][j] = output[a][j]
        BY <2>5, <3>3, <4>0, <4>1
      <4>2. CASE output'[a][j] = produced[a] + 1
        <5>1. output[a][i] \in Nat /\ output[a][i] <= produced[a]
          BY <1>0, <2>5, <4>0
        <5> QED
          BY ONLY <3>0, <4>0, <4>2, <5>1
      <4> QED
        BY <3>1, <4>1, <4>2
    <3> QED
      BY <2>2, <2>3, <2>5, <3>0, <3>2, <3>3 DEF ChunksInOrder
  <2> QED
    BY <2>4, <2>6, <2>7
<1>3. ASSUME NEW a \in Agents, PumpTake(a)
      PROVE  ChunksInOrder'
  <2>1. /\ produced' = produced /\ chunk' = [chunk EXCEPT ![a] = Head(output[a])]
        /\ output' = [output EXCEPT ![a] = Tail(output[a])] /\ output[a] # <<>>
    BY <1>3 DEF PumpTake
  <2>2. ASSUME NEW b \in Agents, b # a
        PROVE  output'[b] = output[b] /\ produced'[b] = produced[b] /\ chunk'[b] = chunk[b]
    BY <2>1, <2>2
  <2>3. produced'[a] = produced[a] /\ chunk'[a] = output[a][1] /\ output'[a] = Tail(output[a])
        /\ 1 \in 1 .. Len(output[a])
    BY <1>0, <2>1
  <2>4. \A i \in 1 .. Len(output'[a]) :
          i + 1 \in 1 .. Len(output[a]) /\ 1 < i + 1 /\ output'[a][i] = output[a][i + 1]
    BY <1>0, <2>1, <2>3
  <2>5. /\ \A i \in 1 .. Len(output[a]) : chunk[a] < output[a][i] /\ output[a][i] <= produced[a]
        /\ \A i, j \in 1 .. Len(output[a]) : i < j => output[a][i] < output[a][j]
    BY DEF ChunksInOrder
  <2>6. \A i \in 1 .. Len(output'[a]) : chunk'[a] < output'[a][i] /\ output'[a][i] <= produced'[a]
    BY <2>3, <2>4, <2>5
  <2>7. \A i, j \in 1 .. Len(output'[a]) : i < j => output'[a][i] < output'[a][j]
    <3> SUFFICES ASSUME NEW i \in 1 .. Len(output'[a]), NEW j \in 1 .. Len(output'[a]), i < j
                 PROVE  output'[a][i] < output'[a][j]
      OBVIOUS
    <3>1. i + 1 < j + 1
      OBVIOUS
    <3> QED
      BY <2>4, <2>5, <3>1
  <2> QED
    BY <2>2, <2>3, <2>5, <2>6, <2>7 DEF ChunksInOrder
<1>4. ASSUME NEW a \in Agents, PumpAgain(a)
      PROVE  ChunksInOrder'
  <2>1. produced' = produced /\ output' = output /\ chunk' = [chunk EXCEPT ![a] = 0]
    BY <1>4 DEF PumpAgain, agents
  <2>2. ASSUME NEW b \in Agents PROVE chunk'[b] \in Nat /\ chunk'[b] <= chunk[b]
    BY <2>1
  <2>3. ASSUME NEW b \in Agents, NEW i \in 1 .. Len(output[b])
        PROVE  chunk'[b] < output[b][i]
    <3>1. chunk[b] < output[b][i] /\ output[b][i] \in Nat /\ chunk[b] \in Nat
      BY <1>0 DEF ChunksInOrder
    <3> QED
      BY ONLY <2>2, <3>1
  <2>4. ASSUME NEW b \in Agents PROVE chunk'[b] <= produced[b]
    <3>1. chunk[b] <= produced[b] /\ produced[b] \in Nat /\ chunk[b] \in Nat
      BY <1>0 DEF ChunksInOrder
    <3> QED
      BY ONLY <2>2, <3>1
  <2> QED
    BY <2>1, <2>3, <2>4 DEF ChunksInOrder
<1>5. CASE Still
  BY <1>1, <1>5 DEF Still, pumps
<1>6. ASSUME NEW a \in Agents, DoRegisterAgent(a) \/ PumpLook(a) \/ PumpSend(a) \/ PumpStop(a)
      PROVE  UNCHANGED <<chunk, produced, output>>
  BY <1>6 DEF DoRegisterAgent, PumpLook, PumpSend, PumpStop, agents
<1>7. ASSUME NEW c \in Clients, DoSubscribe(c) \/ DoUnsubscribe(c) \/ Backfill(c) \/ Unsubscribe(c)
      PROVE  UNCHANGED <<chunk, produced, output>>
  BY <1>7 DEF DoSubscribe, DoUnsubscribe, Backfill, Unsubscribe, agents, pumps
<1>8. CASE Shutdown
  BY <1>1, <1>8 DEF Shutdown, pumps
<1> QED
  BY <1>1, <1>2, <1>3, <1>4, <1>5, <1>6, <1>7, <1>8, HubSteps

LEMMA SentFrames ==
  ASSUME HubTypes, NEW a \in Agents, PumpSend(a), NEW c \in Clients
  PROVE  /\ \/ frames'[c] = frames[c]
            \/ /\ c = ElementAt(arrays, view[a], pos[a])
               /\ frames'[c] = Append(frames[c], <<a, chunk[a]>>)
         /\ <<a, chunk[a]>> \in Agents \X Nat /\ frames[c] \in Seq(Agents \X Nat)
<1> DEFINE d == ElementAt(arrays, view[a], pos[a])
<1>1. frames' = frames \/ frames' = [frames EXCEPT ![d] = Append(frames[d], <<a, chunk[a]>>)]
  BY DEF PumpSend
<1>2. frames \in [Clients -> Seq(Agents \X Nat)] /\ <<a, chunk[a]>> \in Agents \X Nat
  BY DEF HubTypes
<1> HIDE DEF d
<1>3. CASE frames' = [frames EXCEPT ![d] = Append(frames[d], <<a, chunk[a]>>)]
  BY <1>2, <1>3, PutAt DEF d
<1> QED
  BY <1>1, <1>2, <1>3 DEF d

\* The frame in the pump's hands is the newest of its agent.
LEMMA FramesOldKept ==
  ASSUME HubTypes, HubSlices, HubCommands, ChunksInOrder, FramesAreOld, Next
  PROVE  FramesAreOld'
<1> DEFINE Old(c, k, a) == frames[c][k][1] = a =>
             /\ frames[c][k][2] <= produced[a]
             /\ \A i \in 1 .. Len(output[a]) : frames[c][k][2] < output[a][i]
             /\ pump[a] \in {"took", "sending"} => frames[c][k][2] <= chunk[a]
             /\ pump[a] = "took" => frames[c][k][2] < chunk[a]
             /\ pump[a] = "sending" /\ ToCome(a, c) => frames[c][k][2] < chunk[a]
<1>0. \A c \in Clients \ shifted : \A k \in 1 .. Len(frames[c]) : \A a \in Agents : Old(c, k, a)
  BY DEF FramesAreOld
<1>t. /\ \A c \in Clients : \A k \in 1 .. Len(frames[c]) : frames[c][k][2] \in Nat
      /\ \A a \in Agents : produced[a] \in Nat /\ chunk[a] \in Nat
      /\ \A a \in Agents : \A i \in 1 .. Len(output[a]) : output[a][i] \in Nat
  <2>1. \A c \in Clients : frames[c] \in Seq(Agents \X Nat)
    BY DEF HubTypes
  <2>2. \A a \in Agents : output[a] \in Seq(Nat) /\ produced[a] \in Nat /\ chunk[a] \in Nat
    BY DEF HubTypes
  <2> QED
    BY <2>1, <2>2
<1> SUFFICES ASSUME NEW c \in Clients \ shifted', NEW k \in 1 .. Len(frames'[c]), NEW b \in Agents,
                    frames'[c][k][1] = b
             PROVE  /\ frames'[c][k][2] <= produced'[b]
                    /\ \A i \in 1 .. Len(output'[b]) : frames'[c][k][2] < output'[b][i]
                    /\ pump'[b] \in {"took", "sending"} => frames'[c][k][2] <= chunk'[b]
                    /\ pump'[b] = "took" => frames'[c][k][2] < chunk'[b]
                    /\ pump'[b] = "sending" /\ ToCome(b, c)' => frames'[c][k][2] < chunk'[b]
  BY DEF FramesAreOld
<1>1. CASE Still
  BY <1>0, <1>1 DEF Still, slices, pumps, history, ToCome
<1>2. ASSUME NEW a \in Agents, DoRegisterAgent(a)
      PROVE  Old(c, k, b)'
  <2>1. UNCHANGED <<frames, shifted, produced, output, chunk, pos, view, arrays>>
    BY <1>2 DEF DoRegisterAgent, slices, sending, history
  <2>2. pump'[b] \in {"took", "sending"} => pump[b] = pump'[b]
    BY <1>2 DEF DoRegisterAgent, HubTypes
  <2> QED
    BY <1>0, <2>1, <2>2 DEF ToCome
<1>3. ASSUME NEW a \in Agents, Output(a)
      PROVE  Old(c, k, b)'
  <2>1. UNCHANGED <<frames, shifted, chunk, pos, view, arrays, pump>>
    BY <1>3 DEF Output, pumps, slices, sending, history
  <2>2. Old(c, k, b) /\ frames[c][k][1] = b /\ k \in 1 .. Len(frames[c])
    BY <1>0, <2>1
  <2>3. CASE b # a
    <3>1. output'[b] = output[b] /\ produced'[b] = produced[b]
      BY <1>3, <2>3 DEF Output, HubTypes
    <3> QED
      BY <2>1, <2>2, <3>1 DEF ToCome
  <2>4. CASE b = a
    <3>1. produced'[a] = produced[a] + 1
          /\ (output'[a] = output[a] \/ output'[a] = Append(output[a], produced[a] + 1))
      BY <1>3 DEF Output, HubTypes
    <3>2. frames[c][k][2] <= produced[a] + 1 /\ frames[c][k][2] < produced[a] + 1
      BY <1>t, <2>2, <2>4
    <3>3. \A i \in 1 .. Len(output'[a]) :
            \/ i \in 1 .. Len(output[a]) /\ output'[a][i] = output[a][i]
            \/ output'[a][i] = produced[a] + 1
      <4>0. output[a] \in Seq(Nat) /\ produced[a] + 1 \in Nat
        <5>1. output \in [Agents -> Seq(Nat)] /\ produced[a] \in Nat
          BY DEF HubTypes
        <5> QED
          BY ONLY a \in Agents, <5>1
      <4>1. CASE output'[a] = output[a]
        BY <4>1
      <4>2. CASE output'[a] = Append(output[a], produced[a] + 1)
        BY <4>0, <4>2, AppendAt
      <4> QED
        BY <3>1, <4>1, <4>2
    <3> QED
      BY <2>1, <2>2, <2>4, <3>1, <3>2, <3>3 DEF ToCome
  <2> QED
    BY <2>3, <2>4
<1>4. ASSUME NEW a \in Agents, PumpTake(a)
      PROVE  Old(c, k, b)'
  <2>1. UNCHANGED <<frames, shifted, produced, pos, view, arrays>>
    BY <1>4 DEF PumpTake, slices, sending, history
  <2>2. Old(c, k, b) /\ frames[c][k][1] = b /\ k \in 1 .. Len(frames[c])
    BY <1>0, <2>1
  <2>3. CASE b # a
    <3>1. output'[b] = output[b] /\ chunk'[b] = chunk[b] /\ pump'[b] = pump[b]
      BY <1>4, <2>3 DEF PumpTake, HubTypes
    <3> QED
      BY <2>1, <2>2, <3>1 DEF ToCome
  <2>4. CASE b = a
    <3>1. /\ output[a] # <<>> /\ output[a] \in Seq(Nat) /\ chunk'[a] = Head(output[a])
          /\ output'[a] = Tail(output[a]) /\ pump'[a] = "took"
      BY <1>4 DEF PumpTake, HubTypes
    <3>2. /\ 1 \in 1 .. Len(output[a]) /\ chunk'[a] = output[a][1]
          /\ \A i \in 1 .. Len(output'[a]) :
               i + 1 \in 1 .. Len(output[a]) /\ output'[a][i] = output[a][i + 1]
      BY <3>1
    <3>3. frames[c][k][2] < chunk'[a] /\ frames[c][k][2] <= chunk'[a]
      <4>1. frames[c][k][2] < output[a][1]
        BY <2>2, <2>4, <3>2
      <4>2. frames[c][k][2] \in Nat /\ chunk'[a] \in Nat /\ output[a][1] \in Nat
        BY <1>t, <2>2, <3>2
      <4> QED
        BY ONLY <3>2, <4>1, <4>2
    <3>4. \A i \in 1 .. Len(output'[a]) : frames[c][k][2] < output'[a][i]
      BY <2>2, <2>4, <3>2
    <3> QED
      BY <2>1, <2>2, <2>4, <3>3, <3>4
  <2> QED
    BY <2>3, <2>4
<1>5. ASSUME NEW a \in Agents, PumpLook(a) \/ PumpAgain(a) \/ PumpStop(a)
      PROVE  Old(c, k, b)'
  <2>1. UNCHANGED <<frames, shifted, produced, output, arrays>>
    BY <1>5 DEF PumpLook, PumpAgain, PumpStop, agents, slices, sending, history
  <2>2. Old(c, k, b) /\ frames[c][k][1] = b /\ k \in 1 .. Len(frames[c])
    BY <1>0, <2>1
  <2>3. CASE b # a
    <3>1. /\ chunk'[b] = chunk[b] /\ pump'[b] = pump[b] /\ pos'[b] = pos[b] /\ view'[b] = view[b]
      <4>1. CASE PumpLook(a)
        BY <2>3, <4>1 DEF PumpLook, HubTypes
      <4>2. CASE PumpAgain(a)
        BY <2>3, <4>2 DEF PumpAgain, HubTypes
      <4>3. CASE PumpStop(a)
        BY <2>3, <4>3 DEF PumpStop, HubTypes
      <4> QED
        BY <1>5, <4>1, <4>2, <4>3
    <3> QED
      BY <2>1, <2>2, <3>1 DEF ToCome
  <2>4. CASE b = a
    <3>1. \/ pump[a] = "took" /\ pump'[a] = "sending" /\ chunk'[a] = chunk[a]
          \/ pump'[a] \notin {"took", "sending"}
      <4>1. CASE PumpLook(a)
        BY <4>1 DEF PumpLook, HubTypes
      <4>2. CASE PumpAgain(a)
        BY <4>2 DEF PumpAgain, HubTypes
      <4>3. CASE PumpStop(a)
        BY <4>3 DEF PumpStop, HubTypes
      <4> QED
        BY <1>5, <4>1, <4>2, <4>3
    <3> QED
      BY <2>1, <2>2, <2>4, <3>1
  <2> QED
    BY <2>3, <2>4
<1>6. ASSUME NEW a \in Agents, PumpSend(a)
      PROVE  Old(c, k, b)'
  <2> DEFINE d == ElementAt(arrays, view[a], pos[a])
  <2>1. UNCHANGED <<shifted, produced, output, arrays, pump, chunk, view>>
    BY <1>6 DEF PumpSend, agents, slices
  <2>2. /\ pump[a] = "sending" /\ pos[a] \in 1 .. view[a].len
        /\ pos' = [pos EXCEPT ![a] = pos[a] + 1]
    <3>1. /\ pump[a] = "sending" /\ pos[a] <= view[a].len
          /\ pos' = [pos EXCEPT ![a] = pos[a] + 1]
      BY <1>6 DEF PumpSend
    <3>2. pos[a] \in Nat \ {0} /\ view[a].len \in Nat
      BY DEF HubTypes
    <3> QED
      BY <3>1, <3>2
  <2>4. \A e \in Agents : \A f \in Clients : ToCome(e, f)' => ToCome(e, f)
    <3> SUFFICES ASSUME NEW e \in Agents, NEW f \in Clients, NEW i \in pos'[e] .. view[e].len,
                        ElementAt(arrays, view[e], i) = f
                 PROVE  i \in pos[e] .. view[e].len
      BY <2>1 DEF ToCome
    <3>1. pos[e] \in Nat /\ (pos'[e] = pos[e] \/ pos'[e] = pos[e] + 1)
      BY <2>2 DEF HubTypes
    <3>2. i \in Int /\ view[e].len \in Int
      BY DEF HubTypes
    <3> QED
      BY <3>1, <3>2
  <2>5. CASE k \in 1 .. Len(frames[c]) /\ frames'[c][k] = frames[c][k]
    BY <1>0, <2>1, <2>4, <2>5
  <2>6. CASE ~(k \in 1 .. Len(frames[c]) /\ frames'[c][k] = frames[c][k])
    <3>1. c = d /\ frames'[c] = Append(frames[c], <<a, chunk[a]>>)
      <4>1. frames'[c] = frames[c] \/ (c = d /\ frames'[c] = Append(frames[c], <<a, chunk[a]>>))
        <5>1. c \in Clients /\ HubTypes
          OBVIOUS
        <5> QED
          BY ONLY <1>6, <5>1, SentFrames
      <4> QED
        BY <2>6, <4>1
    <3>2. frames'[c][k] = <<a, chunk[a]>>
      <4>1. frames[c] \in Seq(Agents \X Nat)
        BY DEF HubTypes
      <4> QED
        BY <2>6, <3>1, <4>1
    <3>3. b = a /\ frames'[c][k][2] = chunk[a]
      BY <3>2
    <3>4. chunk[a] <= produced[a] /\ \A i \in 1 .. Len(output[a]) : chunk[a] < output[a][i]
      BY DEF ChunksInOrder
    <3>5. ~ToCome(a, c)'
      <4> SUFFICES ASSUME NEW i \in pos[a] + 1 .. view[a].len, ElementAt(arrays, view[a], i) = d
                   PROVE  FALSE
        <5>1. pos'[a] = pos[a] + 1
          BY <2>2 DEF HubTypes
        <5> QED
          BY <2>1, <3>1, <5>1 DEF ToCome
      <4>1. Steady(arrays, list, view[a], shifted) /\ d \notin shifted
        BY <2>1, <3>1 DEF HubSlices, SlicesInv
      <4>2. i \in 1 .. view[a].len /\ i # pos[a]
        BY <2>2
      <4> HIDE DEF d
      <4> QED
        BY <2>2, <4>1, <4>2 DEF d, Steady
    <3>6. pump[a] # "took" /\ chunk[a] <= chunk[a]
      BY <1>t, <2>2
    <3> QED
      BY <2>1, <3>3, <3>4, <3>5, <3>6
  <2> QED
    BY <2>5, <2>6
<1>7. ASSUME NEW d \in Clients, DoSubscribe(d)
      PROVE  Old(c, k, b)'
  <2>1. UNCHANGED <<frames, shifted, produced, output, pump, chunk, pos, view>>
    BY <1>7 DEF DoSubscribe, agents, pumps, sending, history
  <2>2. Old(c, k, b) /\ frames[c][k][1] = b /\ k \in 1 .. Len(frames[c])
    BY <1>0, <2>1
  <2>3. Unknown(d)
    BY <1>7, FirstCommand
  <2>4. c # d
    <3>1. frames[d] = <<>>
      BY <2>3 DEF Unknown
    <3> QED
      BY <2>2, <3>1
  <2>5. ToCome(b, c)' => ToCome(b, c)
    <3> SUFFICES ASSUME NEW i \in pos[b] .. view[b].len, ElementAt(arrays', view[b], i) = c
                 PROVE  ElementAt(arrays, view[b], i) = c
      BY <2>1 DEF ToCome
    <3>1. i \in 1 .. view[b].len
      BY DEF HubTypes
    <3> QED
      BY <1>7, <2>3, <2>4, <3>1, SubscribeSlices
  <2> QED
    BY <2>1, <2>2, <2>5
<1>8. ASSUME NEW d \in Clients, DoUnsubscribe(d)
      PROVE  Old(c, k, b)'
  <2>0. shifted \subseteq shifted' /\ MovedOnly(arrays', arrays, list, view, Agents, shifted')
    BY <1>8, UnsubscribeSlices
  <2>1. UNCHANGED <<frames, produced, output, pump, chunk, pos, view>>
    BY <1>8 DEF DoUnsubscribe, agents, pumps, sending
  <2>2. Old(c, k, b) /\ frames[c][k][1] = b /\ k \in 1 .. Len(frames[c])
    BY <1>0, <2>0, <2>1
  <2>3. ToCome(b, c)' => ToCome(b, c)
    <3> SUFFICES ASSUME NEW i \in pos[b] .. view[b].len, ElementAt(arrays', view[b], i) = c
                 PROVE  ElementAt(arrays, view[b], i) = c
      BY <2>1 DEF ToCome
    <3>1. i \in 1 .. view[b].len
      BY DEF HubTypes
    <3> QED
      BY <2>0, <3>1 DEF MovedOnly
  <2> QED
    BY <2>1, <2>2, <2>3
<1>9. ASSUME NEW d \in Clients, Backfill(d) \/ Unsubscribe(d)
      PROVE  Old(c, k, b)'
  <2>1. UNCHANGED <<shifted, produced, output, pump, chunk, pos, view, arrays>>
    BY <1>9 DEF Backfill, Unsubscribe, slices, agents, pumps
  <2>2. frames'[c] = frames[c] \/ frames'[c] = <<>>
    BY <1>9 DEF Backfill, Unsubscribe, HubTypes
  <2>3. frames'[c] = frames[c]
    BY <2>2
  <2> QED
    BY <1>0, <2>1, <2>3 DEF ToCome
<1>10. CASE Shutdown
  <2>1. UNCHANGED <<frames, shifted, produced, output, pump, chunk, pos, view, arrays>>
    BY <1>10 DEF Shutdown, pumps, sending, history
  <2> QED
    BY <1>0, <2>1 DEF ToCome
<1> QED
  BY <1>1, <1>2, <1>3, <1>4, <1>5, <1>6, <1>7, <1>8, <1>9, <1>10, HubSteps

LEMMA FramesOrderKept ==
  ASSUME HubTypes, HubSlices, HubCommands, FramesAreOld, FramesInOrder, Next
  PROVE  FramesInOrder'
<1> USE DEF HubTypes
<1>0. shifted \subseteq shifted'
  <2>1. ASSUME NEW c \in Clients, DoUnsubscribe(c) PROVE shifted \subseteq shifted'
    BY <2>1 DEF DoUnsubscribe
  <2>2. ASSUME NEW a \in Agents, DoRegisterAgent(a) \/ Output(a) \/ Pump(a) PROVE shifted' = shifted
    BY <2>2 DEF DoRegisterAgent, Output, Pump, PumpTake, PumpLook, PumpSend, PumpAgain, PumpStop, history
  <2>3. ASSUME NEW c \in Clients, DoSubscribe(c) \/ Backfill(c) \/ Unsubscribe(c) PROVE shifted' = shifted
    BY <2>3 DEF DoSubscribe, Backfill, Unsubscribe, history
  <2>4. ASSUME Still \/ Shutdown PROVE shifted' = shifted
    BY <2>4 DEF Still, Shutdown, history
  <2> QED
    BY <2>1, <2>2, <2>3, <2>4, HubSteps DEF Pump
<1>1. ASSUME \A c \in Clients : frames'[c] = frames[c] \/ frames'[c] = <<>>
      PROVE  FramesInOrder'
  <2> SUFFICES ASSUME NEW c \in Clients \ shifted',
                      NEW i \in DOMAIN frames'[c], NEW j \in DOMAIN frames'[c], i < j,
                      frames'[c][i][1] = frames'[c][j][1]
               PROVE  frames'[c][i][2] < frames'[c][j][2]
    BY DEF FramesInOrder
  <2>1. frames'[c] = frames[c]
    BY <1>1, DOMAIN <<>> = {}
  <2> QED
    BY <1>0, <2>1 DEF FramesInOrder
<1>2. ASSUME NEW a \in Agents, PumpSend(a)
      PROVE  FramesInOrder'
  <2> DEFINE d == ElementAt(arrays, view[a], pos[a])
             frame == <<a, chunk[a]>>
  <2>2. pump[a] = "sending" /\ pos[a] \in pos[a] .. view[a].len
    BY <1>2 DEF PumpSend
  <2>3. ToCome(a, d)
    BY <2>2 DEF ToCome
  <2> SUFFICES ASSUME NEW c \in Clients \ shifted,
                      NEW i \in DOMAIN frames'[c], NEW j \in DOMAIN frames'[c], i < j,
                      frames'[c][i][1] = frames'[c][j][1]
               PROVE  frames'[c][i][2] < frames'[c][j][2]
    BY <1>0 DEF FramesInOrder
  <2>4. /\ frames'[c] = frames[c] \/ (c = d /\ frames'[c] = Append(frames[c], frame))
        /\ frame \in Agents \X Nat /\ frames[c] \in Seq(Agents \X Nat)
    <3>1. c \in Clients /\ HubTypes
      OBVIOUS
    <3> QED
      BY ONLY <1>2, <3>1, SentFrames
  <2> HIDE DEF d, frame
  <2>5. DOMAIN frames[c] = 1 .. Len(frames[c]) /\ Len(frames[c]) \in Nat
    BY <2>4
  <2>6. \A m, n \in 1 .. Len(frames[c]) :
          m < n /\ frames[c][m][1] = frames[c][n][1] => frames[c][m][2] < frames[c][n][2]
    BY <2>5 DEF FramesInOrder
  <2>7. CASE frames'[c] = frames[c]
    BY <2>5, <2>6, <2>7
  <2>8. CASE c = d /\ frames'[c] = Append(frames[c], frame)
    <3>0. DOMAIN frames'[c] = 1 .. Len(frames'[c])
      BY <2>4, <2>8, AppendAt
    <3>a. i \in 1 .. Len(frames'[c]) /\ j \in 1 .. Len(frames'[c])
      BY <3>0
    <3>1. /\ \A n \in 1 .. Len(frames[c]) : frames'[c][n] = frames[c][n]
          /\ frames'[c][Len(frames[c]) + 1] = frame
          /\ i \in 1 .. Len(frames[c]) \/ i = Len(frames[c]) + 1
          /\ j \in 1 .. Len(frames[c]) \/ j = Len(frames[c]) + 1
      BY ONLY <2>4, <2>8, <3>a, AppendAt
    <3>2. i \in 1 .. Len(frames[c])
      BY <2>5, <3>1
    <3>3. CASE j \in 1 .. Len(frames[c])
      BY <2>6, <3>1, <3>2, <3>3
    <3>4. CASE j = Len(frames[c]) + 1
      <4>1. frames'[c][j] = frame /\ frames'[c][i] = frames[c][i]
        BY <3>1, <3>2, <3>4
      <4>2. frames[c][i][1] = a /\ frames'[c][j][2] = chunk[a]
        BY <4>1 DEF frame
      <4>3. frames[c][i][2] < chunk[a]
        BY <2>2, <2>3, <2>8, <3>2, <4>2 DEF FramesAreOld
      <4> QED
        BY <4>1, <4>2, <4>3
    <3> QED
      BY <3>1, <3>3, <3>4
  <2> QED
    BY <2>4, <2>7, <2>8
<1>3. ASSUME NEW a \in Agents, DoRegisterAgent(a) \/ Output(a)
      PROVE  frames' = frames
  BY <1>3 DEF DoRegisterAgent, Output, sending
<1>4. ASSUME NEW a \in Agents, PumpTake(a) \/ PumpLook(a) \/ PumpAgain(a) \/ PumpStop(a)
      PROVE  frames' = frames
  BY <1>4 DEF PumpTake, PumpLook, PumpAgain, PumpStop, sending
<1>5. ASSUME NEW c \in Clients, DoSubscribe(c) \/ DoUnsubscribe(c) \/ Backfill(c)
      PROVE  frames' = frames
  BY <1>5 DEF DoSubscribe, DoUnsubscribe, Backfill, sending
<1>6. ASSUME NEW c \in Clients, Unsubscribe(c)
      PROVE  FramesInOrder'
  <2>1. \A d \in Clients : frames'[d] = frames[d] \/ frames'[d] = <<>>
    BY <1>6 DEF Unsubscribe
  <2> QED
    BY <1>1, <2>1
<1>7. ASSUME Still \/ Shutdown
      PROVE  frames' = frames
  BY <1>7 DEF Still, Shutdown, sending
<1> QED
  BY <1>1, <1>2, <1>3, <1>4, <1>5, <1>6, <1>7, HubSteps

\* What a client lacks of what an agent's pump has taken is in the pump's hands.
LEMMA MissedKept ==
  ASSUME HubTypes, HubSlices, HubCommands, Listed, NothingIsMissed, Next
  PROVE  NothingIsMissed'
<1> DEFINE Has(frame, c) == frame \in backfill[c] \cup Framed(c) \cup dropped[c]
<1> SUFFICES ASSUME NEW c \in Clients, conn'[c] = "pumping", ~clientDone'[c],
                    c \notin early' \cup shifted',
                    NEW b \in Wants[c], NEW frame \in Buffered(b)'
             PROVE  Has(frame, c)' \/ OnTheWay(frame, c)'
  BY DEF NothingIsMissed
<1>b. b \in Agents
  BY HubAssumption
<1>f. frame[1] = b
  BY DEF Buffered
<1>0. ASSUME conn[c] = "pumping", ~clientDone[c], c \notin early \cup shifted, frame \in Buffered(b)
      PROVE  Has(frame, c) \/ OnTheWay(frame, c)
  BY <1>0 DEF NothingIsMissed
<1>u. ASSUME conn'[c] = conn[c], clientDone[c] => clientDone'[c], early' = early,
             shifted \subseteq shifted', buffer' = buffer
      PROVE  Has(frame, c) \/ OnTheWay(frame, c)
  BY <1>0, <1>u DEF Buffered
<1>h. ASSUME UNCHANGED <<backfill, frames, dropped>> PROVE Has(frame, c)' = Has(frame, c)
  BY <1>h DEF Framed
<1>1. CASE Still
  BY <1>0, <1>1 DEF Still, slices, pumps, history, Framed, OnTheWay, Buffered
<1>2. ASSUME NEW a \in Agents, DoRegisterAgent(a)
      PROVE  Has(frame, c)' \/ OnTheWay(frame, c)'
  <2>1. UNCHANGED <<slices, agentDone, produced, output, buffer, chunk, view, pos, sockets, sending, history>>
    BY <1>2 DEF DoRegisterAgent
  <2>2. pump[b] \in {"took", "sending"} => pump'[b] = pump[b]
    <3>1. pump[a] = "none"
      BY <1>2, FirstCommand
    <3> QED
      BY <1>b, <1>2, <3>1 DEF DoRegisterAgent, HubTypes
  <2> QED
    BY <1>f, <1>u, <1>h, <2>1, <2>2 DEF slices, sockets, sending, history, OnTheWay
<1>3. ASSUME NEW a \in Agents, Output(a)
      PROVE  Has(frame, c)' \/ OnTheWay(frame, c)'
  <2>1. UNCHANGED <<slices, buffer, pumps, sockets, sending, history>>
    BY <1>3 DEF Output
  <2> QED
    BY <1>u, <1>h, <2>1 DEF slices, pumps, sockets, sending, history, OnTheWay
<1>4. ASSUME NEW a \in Agents, PumpTake(a)
      PROVE  Has(frame, c)' \/ OnTheWay(frame, c)'
  <2>1. UNCHANGED <<slices, view, pos, sockets, sending, history>>
    BY <1>4 DEF PumpTake
  <2>2. CASE b # a
    <3>1. buffer'[b] = buffer[b] /\ chunk'[b] = chunk[b] /\ pump'[b] = pump[b]
      BY <1>b, <1>4, <2>2 DEF PumpTake, HubTypes
    <3>2. Has(frame, c) \/ OnTheWay(frame, c)
      BY <1>0, <2>1, <3>1 DEF sockets, history, Buffered
    <3> QED
      BY <1>f, <1>h, <2>1, <3>1, <3>2 DEF slices, sending, history, OnTheWay
  <2>3. CASE b = a
    <3>1. /\ pump[a] = "select" /\ pump'[a] = "took" /\ output[a] \in Seq(Nat) /\ output[a] # <<>>
          /\ chunk'[a] = Head(output[a]) /\ buffer[a] \in Seq(Nat)
          /\ buffer'[a] = Append(buffer[a], Head(output[a]))
      BY <1>4 DEF PumpTake, HubTypes
    <3>2. PICK i \in DOMAIN buffer'[a] : frame = <<a, buffer'[a][i]>>
      BY <2>3 DEF Buffered
    <3>3. CASE i \in DOMAIN buffer[a] /\ buffer'[a][i] = buffer[a][i]
      <4>1. frame \in Buffered(b)
        BY <2>3, <3>2, <3>3 DEF Buffered
      <4>2. Has(frame, c) \/ OnTheWay(frame, c)
        BY <1>0, <2>1, <4>1 DEF sockets, history
      <4>3. ~OnTheWay(frame, c)
        BY <1>f, <2>3, <3>1 DEF OnTheWay
      <4> QED
        BY <1>h, <2>1, <4>2, <4>3 DEF sending, history
    <3>4. CASE buffer'[a][i] = Head(output[a])
      <4>1. chunk'[a] = frame[2] /\ pump'[a] = "took"
        BY <3>1, <3>2, <3>4
      <4> QED
        BY <1>f, <2>3, <4>1 DEF OnTheWay
    <3>5. \/ i \in DOMAIN buffer[a] /\ buffer'[a][i] = buffer[a][i]
          \/ buffer'[a][i] = Head(output[a])
      <4>1. Head(output[a]) \in Nat
        BY <3>1
      <4>2. DOMAIN buffer'[a] = 1 .. Len(buffer'[a]) /\ DOMAIN buffer[a] = 1 .. Len(buffer[a])
        BY <3>1, <4>1
      <4> QED
        BY <3>1, <3>2, <4>1, <4>2, AppendAt
    <3> QED
      BY <3>3, <3>4, <3>5
  <2> QED
    BY <2>2, <2>3
<1>5. ASSUME NEW a \in Agents, PumpLook(a)
      PROVE  Has(frame, c)' \/ OnTheWay(frame, c)'
  <2>1. UNCHANGED <<slices, agents, chunk, sockets, sending, history>>
    BY <1>5 DEF PumpLook
  <2>2. Has(frame, c) \/ OnTheWay(frame, c)
    BY <1>u, <2>1 DEF agents, sockets, history
  <2>3. CASE b # a
    <3>1. pump'[b] = pump[b] /\ view'[b] = view[b] /\ pos'[b] = pos[b]
      BY <1>b, <1>5, <2>3 DEF PumpLook, HubTypes
    <3> QED
      BY <1>f, <1>h, <2>1, <2>2, <3>1 DEF slices, sending, history, OnTheWay
  <2>4. CASE b = a
    <3>1. /\ pump[a] = "took" /\ pump'[a] = "sending" /\ view'[a] = list /\ pos'[a] = 1
      BY <1>5 DEF PumpLook, HubTypes
    <3>2. c \in Subscribers
      BY <2>1 DEF Listed, sockets, history
    <3>3. \E i \in pos'[a] .. view'[a].len : ElementAt(arrays', view'[a], i) = c
      BY <2>1, <3>1, <3>2 DEF Subscribers, Members, slices
    <3> QED
      BY <1>f, <1>h, <2>1, <2>2, <2>4, <3>1, <3>3 DEF sending, history, OnTheWay
  <2> QED
    BY <2>3, <2>4
<1>6. ASSUME NEW a \in Agents, PumpSend(a)
      PROVE  Has(frame, c)' \/ OnTheWay(frame, c)'
  <2> DEFINE d == ElementAt(arrays, view[a], pos[a])
             sent == <<a, chunk[a]>>
  <2>1. UNCHANGED <<slices, agents, pump, chunk, view, sockets, backfill, early, shifted>>
    BY <1>6 DEF PumpSend
  <2>2. Has(frame, c) \/ OnTheWay(frame, c)
    BY <1>u, <2>1 DEF agents, sockets
  <2>3. /\ frames'[c] = frames[c] \/ frames'[c] = Append(frames[c], sent)
        /\ sent \in Agents \X Nat /\ frames[c] \in Seq(Agents \X Nat)
    BY <1>6, SentFrames
  <2>4. dropped[c] \subseteq dropped'[c]
    <3>1. dropped' = dropped \/ dropped' = [dropped EXCEPT ![d] = dropped[d] \cup {sent}]
      BY <1>6 DEF PumpSend
    <3> HIDE DEF d, sent
    <3>2. dropped \in [Clients -> SUBSET (Agents \X Nat)]
      BY DEF HubTypes
    <3>3. CASE dropped' = [dropped EXCEPT ![d] = dropped[d] \cup {sent}]
      BY <3>2, <3>3, PutAt
    <3> QED
      BY <3>1, <3>3
  <2>5. Framed(c) \subseteq Framed(c)' /\ (frames'[c] = Append(frames[c], sent) => sent \in Framed(c)')
    <3> HIDE DEF sent
    <3>1. CASE frames'[c] = frames[c]
      BY <2>3, <3>1 DEF Framed
    <3>2. CASE frames'[c] = Append(frames[c], sent)
      <4>1. /\ DOMAIN frames[c] = 1 .. Len(frames[c])
            /\ DOMAIN frames'[c] = 1 .. Len(frames[c]) + 1
        BY <2>3, <3>2, AppendAt
      <4>2. \A i \in DOMAIN frames[c] : i \in DOMAIN frames'[c] /\ frames'[c][i] = frames[c][i]
        BY <2>3, <3>2, <4>1, AppendAt
      <4>3. Len(frames[c]) + 1 \in DOMAIN frames'[c] /\ frames'[c][Len(frames[c]) + 1] = sent
        BY <2>3, <3>2, <4>1, AppendAt
      <4> QED
        BY <4>2, <4>3 DEF Framed
    <3> QED
      BY <2>3, <3>1, <3>2
  <2>6. Has(frame, c) => Has(frame, c)'
    BY <2>1, <2>4, <2>5
  <2>7. ASSUME OnTheWay(frame, c) PROVE Has(frame, c)' \/ OnTheWay(frame, c)'
    <3>1. CASE b # a
      <4>1. pos'[b] = pos[b]
        BY <1>b, <1>6, <3>1 DEF PumpSend, HubTypes
      <4> QED
        BY <1>f, <2>1, <2>7, <4>1 DEF slices, OnTheWay
    <3>2. CASE b = a
      <4>1. pump[a] = "sending" /\ pos[a] \in Nat /\ view[a].len \in Nat /\ pos'[a] = pos[a] + 1
        BY <1>6 DEF PumpSend, HubTypes
      <4>2. /\ chunk[a] = frame[2]
            /\ \E i \in pos[a] .. view[a].len : ElementAt(arrays, view[a], i) = c
        BY <1>f, <2>7, <3>2, <4>1 DEF OnTheWay
      <4>3. PICK i \in pos[a] .. view[a].len : ElementAt(arrays, view[a], i) = c
        BY <4>2
      <4>4. CASE i = pos[a]
        <5>1. c = d
          BY <4>3, <4>4
        <5>2. frame = sent
          BY <1>f, <3>2, <4>2 DEF Buffered
        <5>3. a \in Wants[c] /\ conn[c] # "over"
          BY <2>1, <3>2 DEF sockets
        <5>4. frames'[c] = Append(frames[c], sent) \/ sent \in dropped'[c]
          <6>1. \/ frames' = [frames EXCEPT ![d] = Append(frames[d], sent)]
                \/ dropped' = [dropped EXCEPT ![d] = dropped[d] \cup {sent}]
            BY <1>6, <5>1, <5>3 DEF PumpSend
          <6> HIDE DEF d, sent
          <6>2. c \in DOMAIN frames /\ c \in DOMAIN dropped
            BY DEF HubTypes
          <6> QED
            BY <5>1, <6>1, <6>2
        <5> HIDE DEF sent
        <5> QED
          BY <2>5, <5>2, <5>4
      <4>5. CASE i # pos[a]
        <5>1. i \in pos'[a] .. view[a].len
          BY <4>1, <4>5
        <5> QED
          BY <1>f, <2>1, <3>2, <4>1, <4>2, <4>3, <5>1 DEF slices, OnTheWay
      <4> QED
        BY <4>4, <4>5
    <3> QED
      BY <3>1, <3>2
  <2> HIDE DEF Has
  <2> QED
    BY <2>2, <2>6, <2>7
<1>7. ASSUME NEW a \in Agents, PumpAgain(a)
      PROVE  Has(frame, c)' \/ OnTheWay(frame, c)'
  <2>1. UNCHANGED <<slices, agents, sockets, sending, history>>
    BY <1>7 DEF PumpAgain
  <2>2. Has(frame, c) \/ OnTheWay(frame, c)
    BY <1>u, <2>1 DEF agents, sockets, history
  <2>3. CASE b # a
    <3>1. pump'[b] = pump[b] /\ view'[b] = view[b] /\ pos'[b] = pos[b] /\ chunk'[b] = chunk[b]
      BY <1>b, <1>7, <2>3 DEF PumpAgain, HubTypes
    <3> QED
      BY <1>f, <1>h, <2>1, <2>2, <3>1 DEF slices, sending, history, OnTheWay
  <2>4. CASE b = a
    <3>1. pump[a] = "sending" /\ pos[a] > view[a].len /\ pos[a] \in Nat /\ view[a].len \in Nat
      BY <1>7 DEF PumpAgain, HubTypes
    <3>2. ~OnTheWay(frame, c)
      BY <1>f, <2>4, <3>1 DEF OnTheWay
    <3> QED
      BY <1>h, <2>1, <2>2, <3>2 DEF sending, history
  <2> QED
    BY <2>3, <2>4
<1>8. ASSUME NEW a \in Agents, PumpStop(a)
      PROVE  Has(frame, c)' \/ OnTheWay(frame, c)'
  <2>1. UNCHANGED <<slices, agents, chunk, view, pos, sockets, sending, history>>
    BY <1>8 DEF PumpStop
  <2>2. pump[b] \in {"took", "sending"} => pump'[b] = pump[b]
    BY <1>b, <1>8 DEF PumpStop, HubTypes
  <2> QED
    BY <1>f, <1>u, <1>h, <2>1, <2>2 DEF slices, agents, sockets, sending, history, OnTheWay
<1>9. ASSUME NEW d \in Clients, DoSubscribe(d)
      PROVE  Has(frame, c)' \/ OnTheWay(frame, c)'
  <2>1. UNCHANGED <<agents, pumps, sockets, sending, history>>
    BY <1>9 DEF DoSubscribe
  <2>2. \A a \in Agents : \A i \in 1 .. view[a].len :
          \/ ElementAt(arrays', view[a], i) = ElementAt(arrays, view[a], i)
          \/ ElementAt(arrays, view[a], i) \in shifted
    BY <1>9, FirstCommand, SubscribeSlices
  <2>3. pos[b] \in Nat \ {0} /\ view[b].len \in Nat
    BY <1>b DEF HubTypes
  <2>4. \A i \in pos[b] .. view[b].len :
          ElementAt(arrays, view[b], i) = c => ElementAt(arrays', view[b], i) = c
    BY <1>b, <2>1, <2>2, <2>3 DEF history
  <2> QED
    BY <1>f, <1>u, <1>h, <2>1, <2>4 DEF agents, pumps, sockets, sending, history, OnTheWay
<1>10. ASSUME NEW d \in Clients, DoUnsubscribe(d)
       PROVE  Has(frame, c)' \/ OnTheWay(frame, c)'
  <2>1. UNCHANGED <<agents, pumps, sockets, sending, dropped, early>>
    BY <1>10 DEF DoUnsubscribe
  <2>2. shifted \subseteq shifted' /\ MovedOnly(arrays', arrays, list, view, Agents, shifted')
    BY <1>10, UnsubscribeSlices
  <2>3. pos[b] \in Nat \ {0} /\ view[b].len \in Nat
    BY <1>b DEF HubTypes
  <2>4. \A i \in pos[b] .. view[b].len :
          ElementAt(arrays, view[b], i) = c => ElementAt(arrays', view[b], i) = c
    BY <1>b, <2>2, <2>3 DEF MovedOnly
  <2> QED
    BY <1>f, <1>u, <1>h, <2>1, <2>2, <2>4 DEF agents, pumps, sockets, sending, OnTheWay
<1>11. ASSUME NEW d \in Clients, Backfill(d)
       PROVE  Has(frame, c)' \/ OnTheWay(frame, c)'
  <2>1. UNCHANGED <<slices, agents, pumps, clientDone, frames, dropped, shifted>>
    BY <1>11 DEF Backfill
  <2>2. CASE c = d
    <3>1. backfill'[c] = UNION {{<<a, buffer[a][i]>> : i \in DOMAIN buffer[a]} : a \in Wants[c]}
      BY <1>11, <2>2 DEF Backfill, HubTypes
    <3>2. frame \in Buffered(b)
      BY <2>1 DEF agents, Buffered
    <3>3. frame \in {<<b, buffer[b][i]>> : i \in DOMAIN buffer[b]}
      BY <3>2 DEF Buffered
    <3>4. frame \in backfill'[c]
      BY <3>1, <3>3
    <3> QED
      BY <3>4
  <2>3. CASE c # d
    <3>1. conn'[c] = conn[c] /\ backfill'[c] = backfill[c] /\ c \notin early
      BY <1>11, <2>3 DEF Backfill, HubTypes
    <3>2. Has(frame, c) \/ OnTheWay(frame, c)
      BY <1>0, <2>1, <3>1 DEF agents, Buffered
    <3> QED
      BY <2>1, <3>1, <3>2 DEF slices, agents, pumps, Framed, OnTheWay
  <2> QED
    BY <2>2, <2>3
<1>12. ASSUME NEW d \in Clients, Unsubscribe(d)
       PROVE  Has(frame, c)' \/ OnTheWay(frame, c)'
  <2>1. UNCHANGED <<slices, agents, pumps, clientDone, shifted>> /\ early' = early \ {d}
    BY <1>12 DEF Unsubscribe
  <2>2. c # d
    BY <1>12 DEF Unsubscribe, HubTypes
  <2>3. /\ conn'[c] = conn[c] /\ backfill'[c] = backfill[c] /\ frames'[c] = frames[c]
        /\ dropped'[c] = dropped[c]
    BY <1>12, <2>2 DEF Unsubscribe, HubTypes
  <2>4. Has(frame, c) \/ OnTheWay(frame, c)
    BY <1>0, <2>1, <2>2, <2>3 DEF agents, Buffered
  <2> QED
    BY <2>1, <2>3, <2>4 DEF slices, agents, pumps, Framed, OnTheWay
<1>13. CASE Shutdown
  <2>1. UNCHANGED <<arrays, buffer, pumps, conn, sending, history>>
    BY <1>13 DEF Shutdown
  <2>2. clientDone[c] => clientDone'[c]
    BY <1>13 DEF Shutdown, CleanupAll
  <2> QED
    BY <1>u, <1>h, <2>1, <2>2 DEF pumps, sending, history, OnTheWay
<1> QED
  BY <1>1, <1>2, <1>3, <1>4, <1>5, <1>6, <1>7, <1>8, <1>9, <1>10, <1>11, <1>12, <1>13, HubSteps
-----------------------------------------------------------------------------
(***************************************************************************)
(* StreamHub: what is shown is complete and in order                       *)
(***************************************************************************)
LEMMA HubStutters == HubInv /\ UNCHANGED vars => HubInv'
<1> SUFFICES ASSUME HubInv, UNCHANGED vars PROVE HubInv'
  OBVIOUS
<1> USE DEF vars, loop, slices, agents, pumps, sockets, sending, history
<1>1. HubTypes' /\ HubSlices'
  BY DEF HubInv, HubTypes, HubSlices
<1>2. HubCommands' /\ Listed'
  BY DEF HubInv, HubCommands, Listed, Unknown, Subscribers
<1>3. ChunksInOrder' /\ FramesAreOld'
  BY DEF HubInv, ChunksInOrder, FramesAreOld, ToCome
<1>4. FramesInOrder' /\ NothingIsMissed'
  BY DEF HubInv, FramesInOrder, NothingIsMissed, Buffered, Framed, OnTheWay
<1> QED
  BY <1>1, <1>2, <1>3, <1>4 DEF HubInv

\* The invariant all the others follow from, for any agents and clients and any capacities.
THEOREM HubInvariance == Spec => []HubInv
<1>1. HubInv /\ [Next]_vars => HubInv'
  <2>1. HubInv /\ Next => HubInv'
    BY TypesKept, SlicesKept, CommandsKept, ListedKept, ChunksKept, FramesOldKept, FramesOrderKept,
       MissedKept DEF HubInv
  <2> QED
    BY <2>1, HubStutters
<1> QED
  BY InitHub, <1>1, PTL DEF Spec

\* A client that stays has been sent what was buffered of its agents, in the backfill or
\* since, or it is on its way (hub.go:156-181, websocket.go:53-56).
THEOREM HubIsComplete == Spec => []NothingIsMissed
<1>1. HubInv => NothingIsMissed
  BY DEF HubInv
<1> QED
  BY <1>1, HubInvariance, PTL

\* The live frames of an agent reach a client in order, and none twice (hub.go:170-181).
THEOREM HubIsInOrder == Spec => []FramesInOrder
<1>1. HubInv => FramesInOrder
  BY DEF HubInv
<1> QED
  BY <1>1, HubInvariance, PTL

\* A connection that is over and still on the list, or about to be put there, has its removal
\* in the queue, behind its subscription.
RemovalIsComing ==
  \A c \in Clients : conn[c] = "over" =>
    /\ c \in Subscribers => \E j \in 1 .. Len(commands) : commands[j] = Unsubscribing(c)
    /\ \A i \in 1 .. Len(commands) : commands[i] = Subscribing(c) =>
         \E j \in 1 .. Len(commands) : i < j /\ commands[j] = Unsubscribing(c)

\* What a step does to the queue, and to who is over and listed.
LEMMA LeavingSteps ==
  ASSUME HubTypes, HubSlices, HubCommands, Next, NEW c \in Clients
  PROVE  \/ /\ UNCHANGED commands
            /\ conn'[c] = "over" => conn[c] = "over"
            /\ c \in Subscribers' => c \in Subscribers
         \/ /\ \E m \in Commands :
                 /\ commands' = Append(commands, m)
                 /\ conn'[c] = "over" => (conn[c] = "over" \/ m = Unsubscribing(c)) /\ m # Subscribing(c)
            /\ UNCHANGED Subscribers
         \/ /\ commands # <<>> /\ commands' = Tail(commands) /\ UNCHANGED conn
            /\ c \in Subscribers' => Head(commands) = Subscribing(c)
                                       \/ (c \in Subscribers /\ Head(commands) # Unsubscribing(c))
<1> DEFINE Same == /\ UNCHANGED commands
                   /\ conn'[c] = "over" => conn[c] = "over"
                   /\ c \in Subscribers' => c \in Subscribers
           Sends == /\ \E m \in Commands :
                         /\ commands' = Append(commands, m)
                         /\ conn'[c] = "over" =>
                              (conn[c] = "over" \/ m = Unsubscribing(c)) /\ m # Subscribing(c)
                    /\ UNCHANGED Subscribers
           Takes == /\ commands # <<>> /\ commands' = Tail(commands) /\ UNCHANGED conn
                    /\ c \in Subscribers' => Head(commands) = Subscribing(c)
                                               \/ (c \in Subscribers /\ Head(commands) # Unsubscribing(c))
<1> USE DEF HubTypes, Subscribing, Unsubscribing
<1>1. ASSUME NEW a \in Agents, RegisterAgent(a) \/ UnregisterAgent(a)
      PROVE  Sends
  <2>1. PICK m \in Commands : commands' = Append(commands, m) /\ m.cmd \in {"register", "unregister"}
    <3>1. CASE RegisterAgent(a)
      <4>1. [cmd |-> "register", who |-> a] \in Commands
        BY DEF Commands
      <4> QED
        BY <3>1, <4>1 DEF RegisterAgent, Send
    <3>2. CASE UnregisterAgent(a)
      <4>1. [cmd |-> "unregister", who |-> a] \in Commands
        BY DEF Commands
      <4> QED
        BY <3>2, <4>1 DEF UnregisterAgent, Send
    <3> QED
      BY <1>1, <3>1, <3>2
  <2>2. conn' = conn /\ arrays' = arrays /\ list' = list
    BY <1>1 DEF RegisterAgent, UnregisterAgent, slices, sockets
  <2> QED
    BY <2>1, <2>2 DEF Subscribers
<1>2. ASSUME NEW d \in Clients, Subscribe(d)
      PROVE  Sends
  <2>1. [cmd |-> "subscribe", who |-> d] \in Commands
    BY DEF Commands
  <2>2. /\ commands' = Append(commands, [cmd |-> "subscribe", who |-> d])
        /\ conn' = [conn EXCEPT ![d] = "subscribed"] /\ conn[d] = "none"
        /\ arrays' = arrays /\ list' = list
    BY <1>2 DEF Subscribe, Send, slices
  <2> QED
    BY <2>1, <2>2 DEF Subscribers
<1>3. ASSUME NEW d \in Clients, Unsubscribe(d)
      PROVE  Sends
  <2>1. [cmd |-> "unsubscribe", who |-> d] \in Commands
    BY DEF Commands
  <2>2. /\ commands' = Append(commands, [cmd |-> "unsubscribe", who |-> d])
        /\ conn' = [conn EXCEPT ![d] = "over"]
        /\ arrays' = arrays /\ list' = list
    BY <1>3 DEF Unsubscribe, Send, slices
  <2> QED
    BY <2>1, <2>2 DEF Subscribers
<1>4. ASSUME NEW a \in Agents, DoRegisterAgent(a) \/ DoUnregisterAgent(a)
      PROVE  Takes
  <2>1. /\ commands # <<>> /\ commands' = Tail(commands)
        /\ Head(commands).cmd \in {"register", "unregister"}
        /\ conn' = conn /\ arrays' = arrays /\ list' = list
    BY <1>4 DEF DoRegisterAgent, DoUnregisterAgent, Take, slices, sockets
  <2> QED
    BY <2>1 DEF Subscribers
<1>5. ASSUME NEW d \in Clients, DoSubscribe(d)
      PROVE  Takes
  <2>1. Subscribers' = Subscribers \cup {d}
    BY <1>5, FirstCommand, SubscribeSlices
  <2>2. /\ commands # <<>> /\ commands' = Tail(commands) /\ conn' = conn
        /\ Head(commands) = [cmd |-> "subscribe", who |-> d]
    BY <1>5 DEF DoSubscribe, Take, sockets
  <2> QED
    BY <2>1, <2>2
<1>6. ASSUME NEW d \in Clients, DoUnsubscribe(d)
      PROVE  Takes
  <2>1. Subscribers' = Subscribers \ {d}
    BY <1>6, UnsubscribeSlices
  <2>2. /\ commands # <<>> /\ commands' = Tail(commands) /\ conn' = conn
        /\ Head(commands) = [cmd |-> "unsubscribe", who |-> d]
    BY <1>6 DEF DoUnsubscribe, Take, sockets
  <2> QED
    BY <2>1, <2>2
<1>7. ASSUME NEW a \in Agents, Output(a) \/ Pump(a)
      PROVE  Same
  BY <1>7 DEF Output, Pump, PumpTake, PumpLook, PumpSend, PumpAgain, PumpStop, loop, slices, sockets,
              Subscribers
<1>8. ASSUME NEW d \in Clients,
             HubCloses(d) \/ Backfill(d) \/ WriterEnds(d) \/ Write(d) \/ Break(d) \/ Reader(d)
      PROVE  Same
  BY <1>8 DEF HubCloses, Backfill, WriterEnds, Write, Break, Reader, ReaderEnds, ReaderCloses,
              loop, slices, sockets, Subscribers
<1>9. CASE Shutdown
  <2>1. Subscribers' = {}
    <3>1. list' = NoSlice
      BY <1>9 DEF Shutdown, CleanupAll
    <3>2. 1 .. NoSlice.len = {}
      BY DEF NoSlice
    <3> QED
      BY <3>1, <3>2 DEF Subscribers, Members
  <2> QED
    BY <1>9, <2>1 DEF Shutdown
<1> QED
  BY <1>1, <1>2, <1>3, <1>4, <1>5, <1>6, <1>7, <1>8, <1>9 DEF Next, EventLoop, Handler

LEMMA RemovalKept ==
  ASSUME HubTypes, HubSlices, HubCommands, RemovalIsComing, Next
  PROVE  RemovalIsComing'
<1> SUFFICES ASSUME NEW c \in Clients, conn'[c] = "over"
             PROVE  /\ c \in Subscribers' =>
                         \E j \in 1 .. Len(commands') : commands'[j] = Unsubscribing(c)
                    /\ \A i \in 1 .. Len(commands') : commands'[i] = Subscribing(c) =>
                         \E j \in 1 .. Len(commands') : i < j /\ commands'[j] = Unsubscribing(c)
  BY DEF RemovalIsComing, Subscribing, Unsubscribing
<1>0. commands \in Seq(Commands) /\ Len(commands) \in Nat
  BY DEF HubTypes
<1>1. conn[c] = "over" =>
        /\ c \in Subscribers => \E j \in 1 .. Len(commands) : commands[j] = Unsubscribing(c)
        /\ \A i \in 1 .. Len(commands) : commands[i] = Subscribing(c) =>
             \E j \in 1 .. Len(commands) : i < j /\ commands[j] = Unsubscribing(c)
  BY DEF RemovalIsComing
<1>2. CASE UNCHANGED commands /\ conn[c] = "over" /\ (c \in Subscribers' => c \in Subscribers)
  BY <1>1, <1>2
<1>3. ASSUME NEW m \in Commands, commands' = Append(commands, m), UNCHANGED Subscribers,
             conn[c] = "over" \/ m = Unsubscribing(c), m # Subscribing(c)
      PROVE  /\ c \in Subscribers' =>
                  \E j \in 1 .. Len(commands') : commands'[j] = Unsubscribing(c)
             /\ \A i \in 1 .. Len(commands') : commands'[i] = Subscribing(c) =>
                  \E j \in 1 .. Len(commands') : i < j /\ commands'[j] = Unsubscribing(c)
  <2>1. /\ \A i \in 1 .. Len(commands) : i \in 1 .. Len(commands') /\ commands'[i] = commands[i]
        /\ Len(commands) + 1 \in 1 .. Len(commands') /\ commands'[Len(commands) + 1] = m
        /\ \A i \in 1 .. Len(commands') : i = Len(commands) + 1
             \/ (i \in 1 .. Len(commands) /\ i < Len(commands) + 1)
    BY <1>0, <1>3
  <2>2. CASE m = Unsubscribing(c)
    BY <1>3, <2>1, <2>2
  <2>3. CASE conn[c] = "over"
    BY <1>1, <1>3, <2>1, <2>3
  <2> QED
    BY <1>3, <2>2, <2>3
<1>4. CASE /\ commands # <<>> /\ commands' = Tail(commands) /\ UNCHANGED conn
           /\ c \in Subscribers' => Head(commands) = Subscribing(c)
                                      \/ (c \in Subscribers /\ Head(commands) # Unsubscribing(c))
  <2>1. /\ 1 \in 1 .. Len(commands) /\ Head(commands) = commands[1]
        /\ \A i \in 1 .. Len(commands') : i + 1 \in 1 .. Len(commands) /\ commands'[i] = commands[i + 1]
        /\ \A j \in 1 .. Len(commands) : j = 1 \/ (j - 1 \in 1 .. Len(commands') /\ commands'[j - 1] = commands[j])
    BY <1>0, <1>4
  <2>2. conn[c] = "over"
    BY <1>4
  <2>3. ASSUME c \in Subscribers'
        PROVE  \E j \in 1 .. Len(commands') : commands'[j] = Unsubscribing(c)
    <3>1. CASE Head(commands) = Subscribing(c)
      BY <1>1, <2>1, <2>2, <3>1
    <3>2. CASE c \in Subscribers /\ Head(commands) # Unsubscribing(c)
      BY <1>1, <2>1, <2>2, <3>2
    <3> QED
      BY <1>4, <2>3, <3>1, <3>2
  <2>4. ASSUME NEW i \in 1 .. Len(commands'), commands'[i] = Subscribing(c)
        PROVE  \E j \in 1 .. Len(commands') : i < j /\ commands'[j] = Unsubscribing(c)
    <3>1. PICK j \in 1 .. Len(commands) : i + 1 < j /\ commands[j] = Unsubscribing(c)
      BY <1>1, <2>1, <2>2, <2>4
    <3>2. j - 1 \in 1 .. Len(commands') /\ commands'[j - 1] = commands[j] /\ i < j - 1
      <4>1. j # 1 /\ i < j - 1
        BY <1>0, <3>1
      <4> QED
        BY <2>1, <4>1
    <3> QED
      BY <3>1, <3>2
  <2> QED
    BY <2>3, <2>4
<1> QED
  BY <1>2, <1>3, <1>4, LeavingSteps

\* The hub never keeps a connection that is gone: as long as one that is over is on the list,
\* or may yet be put there, its removal is in the queue of commands, behind the subscription,
\* however late the event loop is (hub.go:247-270, websocket.go:58-91).
THEOREM LeaversAreRemoved == Spec => []RemovalIsComing
<1>1. Init => RemovalIsComing
  BY DEF Init, RemovalIsComing
<1>2. HubInv /\ RemovalIsComing /\ [Next]_vars => RemovalIsComing'
  <2>1. CASE Next
    BY <2>1, RemovalKept DEF HubInv
  <2>2. CASE UNCHANGED vars
    BY <2>2 DEF vars, loop, slices, sockets, RemovalIsComing, Subscribers, Subscribing, Unsubscribing
  <2> QED
    BY <2>1, <2>2
<1> QED
  BY <1>1, <1>2, HubInvariance, PTL DEF Spec
-----------------------------------------------------------------------------
(***************************************************************************)
(* MessageStreams, for any posters and browsers, with the capacities, the  *)
(* limit and the numbers of messages and faults arbitrary                  *)
(***************************************************************************)
BusElements == Browsers \cup {Unused}

BusTypes ==
  /\ clock \in Nat
  /\ rows \in Seq(Nat)
  /\ post \in [Posters -> {"idle", "stamped", "inserted", "publishing"}]
  /\ message \in [Posters -> Nat]
  /\ busArrays \in Seq(Seq(BusElements))
  /\ copied \in [Posters -> [array : Nat, len : Nat]]
  /\ reached \in [Posters -> Nat \ {0}]
  /\ socket \in [Browsers -> {"none", "subscribed", "pumping", "leaving", "over"}]
  /\ gone \in [Browsers -> BOOLEAN]
  /\ channel \in [Browsers -> Seq(Nat)]
  /\ shown \in [Browsers -> SUBSET Nat]
  /\ lost \in [Browsers -> SUBSET Nat]

\* The slices of the bus, which only a handler that publishes has one of.
BusSlices ==
  /\ SlicesInv(busArrays, subs, copied, Posters, passedOver)
  /\ \A p \in Posters : post[p] # "publishing" => copied[p] = NoSlice /\ reached[p] = 1

\* A channel is on the list from the subscription to its end, and in no slice before.
BusMembers ==
  \A c \in Browsers :
    /\ socket[c] = "none" =>
         c \notin Listeners /\ \A p \in Posters : c \notin Members(busArrays, copied[p])
    /\ socket[c] \in {"subscribed", "pumping", "leaving"} => c \in Listeners

BusInv == BusTypes /\ BusSlices /\ BusMembers /\ StreamsAreComplete
-----------------------------------------------------------------------------
LEMMA BusStarts == BusInit => BusInv
<1> SUFFICES ASSUME BusInit PROVE BusInv
  OBVIOUS
<1> USE DEF BusInit
<1>0. subs = NoSlice /\ copied = [p \in Posters |-> NoSlice] /\ busArrays = <<>>
  OBVIOUS
<1>1. BusTypes
  BY <1>0 DEF BusTypes, NoSlice
<1>2. BusSlices
  BY <1>0 DEF BusSlices, SlicesInv, IsSlice, Distinct, Steady, NoSlice
<1>3. BusMembers
  BY <1>0 DEF BusMembers, Listeners, Members, NoSlice
<1>4. StreamsAreComplete
  BY DEF StreamsAreComplete
<1> QED
  BY <1>1, <1>2, <1>3, <1>4 DEF BusInv

LEMMA BusSteps ==
  ASSUME BusNext
  PROVE  \/ \E p \in Posters : \/ SendAgentMessage(p) \/ CreateAgentMessage(p)
                               \/ CreateAgentMessageFails(p) \/ Look(p) \/ Publish(p)
         \/ \E c \in Browsers : \/ BusSubscribe(c) \/ SendMessageBackfill(c)
                               \/ SendMessageBackfillFails(c) \/ WriteMessage(c) \/ GoAway(c)
                               \/ ReadPumpEnds(c) \/ WritePumpEnds(c) \/ BusUnsubscribe(c)
BY DEF BusNext, Poster, Connection

\* What a step makes of the slices, and who is in them afterwards.
LEMMA BusSubscribeSlices ==
  ASSUME BusTypes, BusSlices, BusMembers, NEW c \in Browsers, BusSubscribe(c)
  PROVE  /\ busArrays' \in Seq(Seq(BusElements))
         /\ SlicesInv(busArrays', subs', copied, Posters, passedOver)
         /\ Listeners' = Listeners \cup {c}
         /\ \A p \in Posters : \A i \in 1 .. copied[p].len :
              \/ ElementAt(busArrays', copied[p], i) = ElementAt(busArrays, copied[p], i)
              \/ ElementAt(busArrays', copied[p], i) = c /\ ElementAt(busArrays, copied[p], i) \in passedOver
<1>1. /\ busArrays' = AppendTo(busArrays, subs, c).arrays
      /\ subs' = AppendTo(busArrays, subs, c).slice
  BY DEF BusSubscribe
<1>2. busArrays \in Seq(Seq(BusElements)) /\ Unused \in BusElements /\ c \in BusElements
  BY DEF BusTypes, BusElements
<1>3. SlicesInv(busArrays, subs, copied, Posters, passedOver)
  BY DEF BusSlices
<1>4. c \notin Members(busArrays, subs) /\ \A p \in Posters : c \notin Members(busArrays, copied[p])
  BY DEF BusSubscribe, BusMembers, Listeners
<1>5. Listeners = Members(busArrays, subs) /\ Listeners' = Members(busArrays', subs')
  BY DEF Listeners, Members, ElementAt
<1> QED
  BY <1>1, <1>2, <1>3, <1>4, <1>5, AppendKeepsSlices

LEMMA BusUnsubscribeSlices ==
  ASSUME BusTypes, BusSlices, NEW c \in Browsers, BusUnsubscribe(c)
  PROVE  /\ busArrays' \in Seq(Seq(BusElements))
         /\ SlicesInv(busArrays', subs', copied, Posters, passedOver')
         /\ Listeners' = Listeners \ {c}
         /\ passedOver \subseteq passedOver'
         /\ MovedOnly(busArrays', busArrays, subs, copied, Posters, passedOver')
<1>1. /\ busArrays' = RemoveFrom(busArrays, subs, c).arrays
      /\ subs' = RemoveFrom(busArrays, subs, c).slice
  BY DEF BusUnsubscribe
<1>2. busArrays \in Seq(Seq(BusElements))
  BY DEF BusTypes
<1>3. SlicesInv(busArrays, subs, copied, Posters, passedOver)
  BY DEF BusSlices
<1>4. passedOver \subseteq passedOver'
  BY DEF BusUnsubscribe
<1>5. Covers(passedOver', busArrays, subs, copied, Posters)
  <2> SUFFICES ASSUME NEW p \in Posters, copied[p].len # 0, copied[p].array = subs.array
               PROVE  Members(busArrays, subs) \subseteq passedOver'
    BY DEF Covers
  <2>1. copied[p] # NoSlice
    BY DEF NoSlice
  <2>2. post[p] = "publishing"
    BY <2>1 DEF BusSlices
  <2> QED
    BY <2>2 DEF BusUnsubscribe, Listeners
<1>6. Listeners = Members(busArrays, subs) /\ Listeners' = Members(busArrays', subs')
  BY DEF Listeners, Members, ElementAt
<1> QED
  BY <1>1, <1>2, <1>3, <1>4, <1>5, <1>6, RemoveKeepsSlices

\* Answering gives the slice up.
LEMMA BusAnswer ==
  ASSUME BusTypes, NEW p \in Posters, Answer(p)
  PROVE  /\ post' \in [Posters -> {"idle", "stamped", "inserted", "publishing"}]
         /\ message' \in [Posters -> Nat]
         /\ copied' \in [Posters -> [array : Nat, len : Nat]]
         /\ reached' \in [Posters -> Nat \ {0}]
         /\ post'[p] = "idle" /\ copied'[p] = NoSlice /\ reached'[p] = 1
         /\ \A q \in Posters : q # p => /\ post'[q] = post[q] /\ message'[q] = message[q]
                                        /\ copied'[q] = copied[q] /\ reached'[q] = reached[q]
<1>1. NoSlice \in [array : Nat, len : Nat]
  BY DEF NoSlice
<1> QED
  BY <1>1 DEF BusTypes, Answer

LEMMA BusSlicesKept ==
  ASSUME BusTypes, BusSlices, BusMembers, BusNext
  PROVE  BusSlices'
<1>0. /\ SlicesInv(busArrays, subs, copied, Posters, passedOver)
      /\ \A p \in Posters : post[p] # "publishing" => copied[p] = NoSlice /\ reached[p] = 1
  BY DEF BusSlices
<1>1. ASSUME NEW p \in Posters, SendAgentMessage(p) \/ CreateAgentMessage(p)
      PROVE  BusSlices'
  <2>1. UNCHANGED <<copied, reached, busArrays, subs, passedOver>>
    BY <1>1 DEF SendAgentMessage, CreateAgentMessage, bus, busHistory
  <2>2. \A q \in Posters : post'[q] # "publishing" => post[q] # "publishing"
    BY <1>1 DEF SendAgentMessage, CreateAgentMessage, BusTypes
  <2> QED
    BY <1>0, <2>1, <2>2 DEF BusSlices
<1>2. ASSUME NEW p \in Posters,
             CreateAgentMessageFails(p) \/ Look(p) \/ Publish(p)
      PROVE  BusSlices'
  <2>1. UNCHANGED <<busArrays, subs, passedOver>>
    BY <1>2 DEF CreateAgentMessageFails, Look, Publish, bus, busHistory
  <2>2. \/ Answer(p)
        \/ copied' = [copied EXCEPT ![p] = subs] /\ post' = [post EXCEPT ![p] = "publishing"]
           /\ reached' = reached
        \/ copied' = copied /\ post' = post /\ post[p] = "publishing"
           /\ reached' = [reached EXCEPT ![p] = reached[p] + 1]
    BY <1>2 DEF CreateAgentMessageFails, Look, Publish
  <2>3. \A q \in Posters : copied'[q] = copied[q] \/ copied'[q] = subs \/ copied'[q] = NoSlice
    BY <2>2, BusAnswer DEF BusTypes
  <2>4. \A q \in Posters : post'[q] # "publishing" => copied'[q] = NoSlice /\ reached'[q] = 1
    <3>1. CASE Answer(p)
      BY <1>0, <3>1, BusAnswer
    <3>2. CASE ~Answer(p)
      BY <1>0, <2>2, <3>2 DEF BusTypes
    <3> QED
      BY <3>1, <3>2
  <2>5. SlicesInv(busArrays, subs, copied', Posters, passedOver)
    BY <1>0, <2>3, LookKeepsSlices
  <2> QED
    BY <2>1, <2>4, <2>5 DEF BusSlices
<1>3. ASSUME NEW c \in Browsers, BusSubscribe(c)
      PROVE  BusSlices'
  <2>1. SlicesInv(busArrays', subs', copied, Posters, passedOver)
    BY <1>3, BusSubscribeSlices
  <2> QED
    BY <1>0, <1>3, <2>1 DEF BusSubscribe, posting, busHistory, BusSlices
<1>4. ASSUME NEW c \in Browsers, BusUnsubscribe(c)
      PROVE  BusSlices'
  <2>1. SlicesInv(busArrays', subs', copied, Posters, passedOver')
    BY <1>4, BusUnsubscribeSlices
  <2> QED
    BY <1>0, <1>4, <2>1 DEF BusUnsubscribe, posting, BusSlices
<1>5. ASSUME NEW c \in Browsers,
             \/ SendMessageBackfill(c) \/ SendMessageBackfillFails(c) \/ WriteMessage(c)
             \/ GoAway(c) \/ ReadPumpEnds(c) \/ WritePumpEnds(c)
      PROVE  BusSlices'
  <2>1. UNCHANGED <<busArrays, subs, post, copied, reached, passedOver>>
    BY <1>5 DEF SendMessageBackfill, SendMessageBackfillFails, WriteMessage, GoAway,
                ReadPumpEnds, WritePumpEnds, bus, posting, busHistory
  <2> QED
    BY <1>0, <2>1 DEF BusSlices
<1> QED
  BY <1>1, <1>2, <1>3, <1>4, <1>5, BusSteps

LEMMA BusMembersKept ==
  ASSUME BusTypes, BusSlices, BusMembers, BusNext
  PROVE  BusMembers'
<1>s. Listeners = Members(busArrays, subs) /\ Listeners' = Members(busArrays', subs')
  BY DEF Listeners, Members, ElementAt
<1>1. ASSUME NEW p \in Posters,
             \/ SendAgentMessage(p) \/ CreateAgentMessage(p)
             \/ CreateAgentMessageFails(p) \/ Look(p) \/ Publish(p)
      PROVE  BusMembers'
  <2>1. UNCHANGED <<busArrays, subs, socket>>
    BY <1>1 DEF SendAgentMessage, CreateAgentMessage, CreateAgentMessageFails,
                Look, Publish, bus, connections
  <2>2. \A q \in Posters : copied'[q] = copied[q] \/ copied'[q] = subs \/ copied'[q] = NoSlice
    BY <1>1, BusAnswer DEF SendAgentMessage, CreateAgentMessage,
                CreateAgentMessageFails, Look, Publish, BusTypes
  <2>3. Members(busArrays, NoSlice) = {}
    BY DEF Members, NoSlice
  <2>4. ASSUME NEW c \in Browsers, c \notin Listeners,
               \A q \in Posters : c \notin Members(busArrays, copied[q]), NEW q \in Posters
        PROVE  c \notin Members(busArrays, copied'[q])
    BY <1>s, <2>2, <2>3, <2>4
  <2> QED
    BY <1>s, <2>1, <2>4 DEF BusMembers
<1>2. ASSUME NEW c \in Browsers, BusSubscribe(c)
      PROVE  BusMembers'
  <2>1. /\ copied' = copied /\ \A d \in Browsers : socket'[d] = IF d = c THEN "subscribed" ELSE socket[d]
    BY <1>2 DEF BusSubscribe, posting, BusTypes
  <2>2. /\ Listeners' = Listeners \cup {c}
        /\ \A p \in Posters : \A i \in 1 .. copied[p].len :
              \/ ElementAt(busArrays', copied[p], i) = ElementAt(busArrays, copied[p], i)
              \/ ElementAt(busArrays', copied[p], i) = c
    BY <1>2, BusSubscribeSlices
  <2>3. \A p \in Posters : Members(busArrays', copied[p]) \subseteq Members(busArrays, copied[p]) \cup {c}
    BY <2>2 DEF Members
  <2> QED
    BY <2>1, <2>2, <2>3 DEF BusMembers
<1>3. ASSUME NEW c \in Browsers, BusUnsubscribe(c)
      PROVE  BusMembers'
  <2>1. /\ copied' = copied /\ \A d \in Browsers : socket'[d] = IF d = c THEN "over" ELSE socket[d]
    BY <1>3 DEF BusUnsubscribe, posting, BusTypes
  <2>2. /\ Listeners' = Listeners \ {c}
        /\ MovedOnly(busArrays', busArrays, subs, copied, Posters, passedOver')
    BY <1>3, BusUnsubscribeSlices
  <2>3. \A p \in Posters : Members(busArrays', copied[p]) \subseteq Members(busArrays, copied[p]) \cup Listeners
    BY <1>s, <2>2 DEF Members, MovedOnly
  <2> QED
    BY <2>1, <2>2, <2>3 DEF BusMembers
<1>4. ASSUME NEW c \in Browsers,
             \/ SendMessageBackfill(c) \/ SendMessageBackfillFails(c) \/ WriteMessage(c)
             \/ GoAway(c) \/ ReadPumpEnds(c) \/ WritePumpEnds(c)
      PROVE  BusMembers'
  <2>1. UNCHANGED <<busArrays, subs, copied>>
    BY <1>4 DEF SendMessageBackfill, SendMessageBackfillFails, WriteMessage, GoAway,
                ReadPumpEnds, WritePumpEnds, bus, posting
  <2>2. \A d \in Browsers : socket'[d] = socket[d]
                           \/ /\ socket[d] \in {"subscribed", "pumping"}
                              /\ socket'[d] \in {"pumping", "leaving"}
    BY <1>4 DEF SendMessageBackfill, SendMessageBackfillFails, StartPumps, WriteMessage,
                GoAway, ReadPumpEnds, WritePumpEnds, BusTypes
  <2> QED
    BY <1>s, <2>1, <2>2 DEF BusMembers
<1> QED
  BY <1>1, <1>2, <1>3, <1>4, BusSteps

\* As long as the messages are within its limit, the backfill is all of them.
LEMMA BackfillIsAll ==
  ASSUME rows \in Seq(Nat), Len(rows) <= BackfillLimit
  PROVE  ListAgentMessages = ToSet(rows)
<1> DEFINE S == ToSet(rows)
           n == Len(rows)
<1>1. n \in Nat /\ BackfillLimit \in Nat \ {0} /\ S \subseteq Nat
  BY MessageStreamsAssumption DEF ToSet
<1>2. rows \in Surjection(1 .. n, S)
  BY DEF ToSet, Surjection
<1>3. IsFiniteSet(1 .. n) /\ Cardinality(1 .. n) = n
  <2>1. 1 \in Int /\ n \in Int /\ (1 > n => n = 0) /\ n - 1 + 1 = n
    BY <1>1
  <2> HIDE DEF n
  <2> QED
    BY <2>1, FS_Interval
<1>4. IsFiniteSet(S) /\ Cardinality(S) <= n
  BY <1>2, <1>3, FS_Surjection
<1>5. ASSUME NEW m \in S PROVE Cardinality({older \in S : older < m}) < BackfillLimit
  <2> DEFINE T == {older \in S : older < m}
  <2>1. T \in SUBSET S /\ T # S
    BY <1>1, <1>5
  <2> HIDE DEF S, T, n
  <2>2. Cardinality(T) <= Cardinality(S) /\ Cardinality(T) # Cardinality(S) /\ IsFiniteSet(T)
    BY <1>4, <2>1, FS_Subset
  <2>3. Cardinality(T) \in Nat /\ Cardinality(S) \in Nat
    BY <1>4, <2>2, FS_CardinalityType
  <2>4. Cardinality(T) < BackfillLimit
    <3>1. n <= BackfillLimit
      BY DEF n
    <3> QED
      BY <1>1, <1>4, <2>2, <2>3, <3>1
  <2> QED
    BY <2>4 DEF T
<1> QED
  BY <1>5 DEF ListAgentMessages

LEMMA BusTypesKept ==
  ASSUME BusTypes, BusSlices, BusMembers, BusNext
  PROVE  BusTypes'
<1> USE DEF BusTypes, table, posting, bus, connections, busHistory
<1>0. subs \in [array : Nat, len : Nat]
  BY DEF BusSlices, SlicesInv, IsSlice
<1>r. ListAgentMessages \subseteq Nat /\ ToSet(rows) \subseteq Nat
  BY DEF ListAgentMessages, ToSet
<1>1. ASSUME NEW p \in Posters, SendAgentMessage(p) \/ CreateAgentMessage(p)
      PROVE  BusTypes'
  <2>1. clock' \in Nat /\ rows' \in Seq(Nat)
    <3>1. clock' = clock \/ clock' = clock + 1
      BY <1>1 DEF SendAgentMessage, CreateAgentMessage
    <3>2. rows' = rows \/ rows' = Append(rows, message[p])
      BY <1>1 DEF SendAgentMessage, CreateAgentMessage
    <3>3. message[p] \in Nat /\ clock \in Nat /\ rows \in Seq(Nat)
      OBVIOUS
    <3>4. clock' \in Nat
      BY ONLY <3>1, <3>3
    <3>5. rows' \in Seq(Nat)
      BY ONLY <3>2, <3>3
    <3> QED
      BY <3>4, <3>5
  <2>2. message' \in [Posters -> Nat]
    BY <1>1, <2>1 DEF SendAgentMessage, CreateAgentMessage
  <2>3. post' \in [Posters -> {"idle", "stamped", "inserted", "publishing"}]
    BY <1>1 DEF SendAgentMessage, CreateAgentMessage
  <2>4. UNCHANGED <<busArrays, copied, reached, socket, gone, channel, shown, lost>>
    BY <1>1 DEF SendAgentMessage, CreateAgentMessage
  <2> QED
    BY <2>1, <2>2, <2>3, <2>4
<1>2. ASSUME NEW p \in Posters, CreateAgentMessageFails(p) \/ Look(p)
      PROVE  BusTypes'
  <2>1. UNCHANGED <<clock, rows, busArrays, socket, gone, channel, shown, lost>>
    BY <1>2 DEF CreateAgentMessageFails, Look
  <2>2. CASE Answer(p)
    BY <2>1, <2>2, BusAnswer
  <2>3. CASE ~Answer(p)
    BY <1>0, <1>2, <2>1, <2>3 DEF CreateAgentMessageFails, Look
  <2> QED
    BY <2>2, <2>3
<1>3. ASSUME NEW p \in Posters, Publish(p)
      PROVE  BusTypes'
  <2> DEFINE c == ElementAt(busArrays, copied[p], reached[p])
  <2>1. UNCHANGED <<clock, rows, busArrays, socket, gone, shown>>
    BY <1>3 DEF Publish
  <2>2. /\ post' \in [Posters -> {"idle", "stamped", "inserted", "publishing"}]
        /\ message' \in [Posters -> Nat]
        /\ copied' \in [Posters -> [array : Nat, len : Nat]]
        /\ reached' \in [Posters -> Nat \ {0}]
    <3>1. CASE Answer(p)
      BY <3>1, BusAnswer
    <3>2. CASE ~Answer(p)
      <4>1. reached' = [reached EXCEPT ![p] = reached[p] + 1] /\ UNCHANGED <<post, message, copied>>
        BY <1>3, <3>2 DEF Publish
      <4>2. reached[p] + 1 \in Nat \ {0}
        OBVIOUS
      <4> QED
        BY <4>1, <4>2
    <3> QED
      BY <3>1, <3>2
  <2>3. /\ channel' = channel \/ channel' = [channel EXCEPT ![c] = Append(channel[c], message[p])]
        /\ lost' = lost \/ lost' = [lost EXCEPT ![c] = lost[c] \cup {message[p]}]
    BY <1>3 DEF Publish
  <2> HIDE DEF c
  <2>4. channel' \in [Browsers -> Seq(Nat)] /\ lost' \in [Browsers -> SUBSET Nat]
    <3>1. message[p] \in Nat
      OBVIOUS
    <3>2. CASE c \in Browsers
      <4>1. Append(channel[c], message[p]) \in Seq(Nat) /\ lost[c] \cup {message[p]} \in SUBSET Nat
        BY <3>1, <3>2
      <4>2. channel \in [Browsers -> Seq(Nat)] /\ lost \in [Browsers -> SUBSET Nat]
        OBVIOUS
      <4> QED
        BY ONLY <2>3, <3>2, <4>1, <4>2
    <3>3. CASE c \notin Browsers
      BY <2>3, <3>3
    <3> QED
      BY <3>2, <3>3
  <2> QED
    BY <2>1, <2>2, <2>4
<1>4. ASSUME NEW c \in Browsers, BusSubscribe(c) \/ BusUnsubscribe(c)
      PROVE  BusTypes'
  <2>1. busArrays' \in Seq(Seq(BusElements))
    BY <1>4, BusSubscribeSlices, BusUnsubscribeSlices
  <2>2. UNCHANGED <<clock, rows, post, message, copied, reached, gone>>
    BY <1>4 DEF BusSubscribe, BusUnsubscribe
  <2>3. socket' \in [Browsers -> {"none", "subscribed", "pumping", "leaving", "over"}]
    BY <1>4 DEF BusSubscribe, BusUnsubscribe
  <2>4. /\ channel' \in [Browsers -> Seq(Nat)]
        /\ shown' \in [Browsers -> SUBSET Nat] /\ lost' \in [Browsers -> SUBSET Nat]
    <3>1. CASE BusSubscribe(c)
      BY <3>1 DEF BusSubscribe
    <3>2. CASE BusUnsubscribe(c)
      <4>1. <<>> \in Seq(Nat) /\ {} \in SUBSET Nat
        OBVIOUS
      <4>2. /\ channel' = [channel EXCEPT ![c] = <<>>]
            /\ shown' = [shown EXCEPT ![c] = {}] /\ lost' = [lost EXCEPT ![c] = {}]
        BY <3>2 DEF BusUnsubscribe
      <4> QED
        BY <4>1, <4>2
    <3> QED
      BY <1>4, <3>1, <3>2
  <2> QED
    BY <2>1, <2>2, <2>3, <2>4
<1>5. ASSUME NEW c \in Browsers, SendMessageBackfill(c) \/ SendMessageBackfillFails(c)
      PROVE  BusTypes'
  <2>1. UNCHANGED <<clock, rows, post, message, busArrays, copied, reached, gone, channel>>
    BY <1>5 DEF SendMessageBackfill, SendMessageBackfillFails
  <2>2. socket' \in [Browsers -> {"none", "subscribed", "pumping", "leaving", "over"}]
    BY <1>5 DEF SendMessageBackfill, SendMessageBackfillFails, StartPumps
  <2>3. shown' \in [Browsers -> SUBSET Nat] /\ lost' \in [Browsers -> SUBSET Nat]
    BY <1>r, <1>5 DEF SendMessageBackfill, SendMessageBackfillFails
  <2> QED
    BY <2>1, <2>2, <2>3
<1>6. ASSUME NEW c \in Browsers, WriteMessage(c)
      PROVE  BusTypes'
  <2>1. UNCHANGED <<clock, rows, post, message, busArrays, copied, reached, gone, lost>>
    BY <1>6 DEF WriteMessage
  <2>2. Head(channel[c]) \in Nat /\ Tail(channel[c]) \in Seq(Nat)
    BY <1>6 DEF WriteMessage
  <2>3. socket' \in [Browsers -> {"none", "subscribed", "pumping", "leaving", "over"}]
    BY <1>6 DEF WriteMessage
  <2>4. channel' \in [Browsers -> Seq(Nat)] /\ shown' \in [Browsers -> SUBSET Nat]
    BY <1>6, <2>2 DEF WriteMessage
  <2> QED
    BY <2>1, <2>3, <2>4
<1>7. ASSUME NEW c \in Browsers, GoAway(c) \/ ReadPumpEnds(c) \/ WritePumpEnds(c)
      PROVE  BusTypes'
  <2>1. UNCHANGED <<clock, rows, post, message, busArrays, copied, reached, channel, shown, lost>>
    BY <1>7 DEF GoAway, ReadPumpEnds, WritePumpEnds
  <2>2. socket' \in [Browsers -> {"none", "subscribed", "pumping", "leaving", "over"}]
    BY <1>7 DEF GoAway, ReadPumpEnds, WritePumpEnds
  <2>3. gone' \in [Browsers -> BOOLEAN]
    BY <1>7 DEF GoAway, ReadPumpEnds, WritePumpEnds
  <2> QED
    BY <2>1, <2>2, <2>3
<1> QED
  BY <1>1, <1>2, <1>3, <1>4, <1>5, <1>6, <1>7, BusSteps

LEMMA TailAt ==
  ASSUME NEW s \in Seq(Nat), s # <<>>, NEW i \in DOMAIN s
  PROVE  s[i] = Head(s) \/ (i - 1 \in DOMAIN Tail(s) /\ Tail(s)[i - 1] = s[i])
<1>1. /\ DOMAIN s = 1 .. Len(s) /\ Len(s) \in Nat /\ Head(s) = s[1]
      /\ DOMAIN Tail(s) = 1 .. Len(s) - 1
      /\ \A j \in 1 .. Len(s) - 1 : Tail(s)[j] = s[j + 1]
  OBVIOUS
<1>2. CASE i # 1
  BY <1>1, <1>2
<1> QED
  BY <1>1, <1>2

\* What a browser lacks of the messages is on its way to it.
LEMMA BusCompleteKept ==
  ASSUME BusInv, BusNext
  PROVE  StreamsAreComplete'
<1> DEFINE Has(m, c) == m \in shown[c] \cup ToSet(channel[c]) \cup lost[c]
<1> USE DEF BusInv, table, posting, bus, connections, busHistory
<1> SUFFICES ASSUME NEW c \in Browsers, socket'[c] = "pumping", ~gone'[c], c \notin passedOver',
                    Len(rows') <= BackfillLimit, NEW m \in ToSet(rows')
             PROVE  Has(m, c)' \/ UnderWay(m, c)'
  BY DEF StreamsAreComplete
<1>0. ASSUME socket[c] = "pumping", ~gone[c], c \notin passedOver, Len(rows) <= BackfillLimit,
             m \in ToSet(rows)
      PROVE  Has(m, c) \/ UnderWay(m, c)
  BY <1>0 DEF StreamsAreComplete
<1>h. ASSUME UNCHANGED <<channel, shown, lost>> PROVE Has(m, c)' = Has(m, c)
  BY <1>h DEF ToSet
\* A handler that has the message keeps it, and its slice as far as c is in it.
<1>k. ASSUME NEW q \in Posters,
             message[q] = m,
             \/ post[q] = "inserted"
             \/ post[q] = "publishing"
                /\ \E i \in reached[q] .. copied[q].len : ElementAt(busArrays, copied[q], i) = c,
             message'[q] = message[q], post'[q] = post[q], reached'[q] = reached[q], copied'[q] = copied[q],
             \A i \in reached[q] .. copied[q].len :
               ElementAt(busArrays, copied[q], i) = c => ElementAt(busArrays', copied[q], i) = c
      PROVE  UnderWay(m, c)'
  BY <1>k DEF UnderWay, ElementAt
<1>w. UnderWay(m, c) =
        \E q \in Posters :
          /\ message[q] = m
          /\ \/ post[q] = "inserted"
             \/ /\ post[q] = "publishing"
                /\ \E i \in reached[q] .. copied[q].len : ElementAt(busArrays, copied[q], i) = c
  BY DEF UnderWay, ElementAt
<1>1. ASSUME NEW p \in Posters, SendAgentMessage(p)
      PROVE  Has(m, c)' \/ UnderWay(m, c)'
  <2>1. UNCHANGED <<rows, copied, reached, busArrays, socket, gone, channel, shown, lost, passedOver>>
    BY <1>1 DEF SendAgentMessage
  <2>2. Has(m, c) \/ UnderWay(m, c)
    BY <1>0, <2>1
  <2>3. \A q \in Posters : post[q] \in {"inserted", "publishing"} =>
          message'[q] = message[q] /\ post'[q] = post[q]
    BY <1>1 DEF SendAgentMessage, BusTypes
  <2> QED
    BY <1>h, <1>k, <1>w, <2>1, <2>2, <2>3
<1>2. ASSUME NEW p \in Posters, CreateAgentMessage(p)
      PROVE  Has(m, c)' \/ UnderWay(m, c)'
  <2>1. /\ UNCHANGED <<message, copied, reached, busArrays, socket, gone, channel, shown, lost, passedOver>>
        /\ rows' = Append(rows, message[p]) /\ rows \in Seq(Nat) /\ message[p] \in Nat
        /\ post[p] = "stamped" /\ post' = [post EXCEPT ![p] = "inserted"]
    BY <1>2 DEF CreateAgentMessage, BusTypes
  <2>2. \A q \in Posters : post'[q] = IF q = p THEN "inserted" ELSE post[q]
    BY <2>1 DEF BusTypes
  <2>3. m = message[p] \/ m \in ToSet(rows)
    BY <2>1, AppendAt DEF ToSet
  <2>4. CASE m = message[p]
    BY <2>1, <2>2, <2>4 DEF UnderWay
  <2>5. CASE m \in ToSet(rows)
    <3>1. Len(rows) <= BackfillLimit
      <4>1. Len(rows') = Len(rows) + 1 /\ Len(rows) \in Nat /\ BackfillLimit \in Nat
        BY <2>1, MessageStreamsAssumption
      <4> QED
        BY <4>1
    <3>2. Has(m, c) \/ UnderWay(m, c)
      BY <1>0, <2>1, <2>5, <3>1
    <3>3. \A q \in Posters : post[q] \in {"inserted", "publishing"} => post'[q] = post[q]
      BY <2>1, <2>2
    <3> QED
      BY <1>h, <1>k, <1>w, <2>1, <3>2, <3>3
  <2> QED
    BY <2>3, <2>4, <2>5
<1>3. ASSUME NEW p \in Posters, CreateAgentMessageFails(p)
      PROVE  Has(m, c)' \/ UnderWay(m, c)'
  <2>1. /\ UNCHANGED <<rows, busArrays, socket, gone, channel, shown, lost, passedOver>>
        /\ post[p] = "stamped" /\ Answer(p)
    BY <1>3 DEF CreateAgentMessageFails
  <2>2. Has(m, c) \/ UnderWay(m, c)
    BY <1>0, <2>1
  <2>3. \A q \in Posters : post[q] \in {"inserted", "publishing"} =>
          message'[q] = message[q] /\ post'[q] = post[q] /\ reached'[q] = reached[q] /\ copied'[q] = copied[q]
    BY <2>1, BusAnswer
  <2> QED
    BY <1>h, <1>k, <1>w, <2>1, <2>2, <2>3
<1>4. ASSUME NEW p \in Posters, Look(p)
      PROVE  Has(m, c)' \/ UnderWay(m, c)'
  <2>1. /\ UNCHANGED <<rows, busArrays, subs, socket, gone, channel, shown, lost, passedOver>>
        /\ post[p] = "inserted"
    BY <1>4 DEF Look
  <2>2. Has(m, c) \/ UnderWay(m, c)
    BY <1>0, <2>1
  <2>3. c \in Members(busArrays, subs)
    BY <2>1 DEF BusMembers, Listeners
  <2>4. subs # NoSlice
    BY <2>3 DEF Members, NoSlice
  <2>5. /\ copied' = [copied EXCEPT ![p] = subs] /\ post' = [post EXCEPT ![p] = "publishing"]
        /\ UNCHANGED <<message, reached>> /\ reached[p] = 1
    BY <1>4, <2>1, <2>4 DEF Look, BusSlices
  <2>6. \A q \in Posters : q # p =>
          message'[q] = message[q] /\ post'[q] = post[q] /\ reached'[q] = reached[q] /\ copied'[q] = copied[q]
    BY <2>5 DEF BusTypes
  <2>7. post'[p] = "publishing" /\ copied'[p] = subs /\ reached'[p] = 1 /\ message'[p] = message[p]
    BY <2>5 DEF BusTypes
  <2>8. CASE message[p] = m
    <3>1. \E i \in 1 .. subs.len : ElementAt(busArrays', subs, i) = c
      BY <2>1, <2>3 DEF Members
    <3> QED
      BY <2>7, <2>8, <3>1 DEF UnderWay, ElementAt
  <2>9. CASE message[p] # m
    BY <1>h, <1>k, <1>w, <2>1, <2>2, <2>6, <2>9
  <2> QED
    BY <2>8, <2>9
<1>5. ASSUME NEW p \in Posters, Publish(p)
      PROVE  Has(m, c)' \/ UnderWay(m, c)'
  <2> DEFINE d == ElementAt(busArrays, copied[p], reached[p])
  <2>1. UNCHANGED <<rows, busArrays, socket, gone, shown, passedOver>> /\ post[p] = "publishing"
    BY <1>5 DEF Publish
  <2>2. Has(m, c) \/ UnderWay(m, c)
    BY <1>0, <2>1
  <2>3. \/ d # c /\ (channel'[c] = channel[c] /\ lost'[c] = lost[c])
        \/ d = c /\ channel'[c] = Append(channel[c], message[p]) /\ lost'[c] = lost[c]
        \/ d = c /\ lost'[c] = lost[c] \cup {message[p]} /\ channel'[c] = channel[c]
    <3>1. \/ socket[d] = "over" /\ UNCHANGED <<channel, lost>>
          \/ channel' = [channel EXCEPT ![d] = Append(channel[d], message[p])] /\ UNCHANGED lost
          \/ lost' = [lost EXCEPT ![d] = lost[d] \cup {message[p]}] /\ UNCHANGED channel
      BY <1>5 DEF Publish, ElementAt
    <3>2. socket[c] # "over"
      BY <2>1
    <3> HIDE DEF d
    <3>3. channel \in [Browsers -> Seq(Nat)] /\ lost \in [Browsers -> SUBSET Nat]
      BY DEF BusTypes
    <3> QED
      BY ONLY c \in Browsers, <3>1, <3>2, <3>3
  <2>4. channel[c] \in Seq(Nat) /\ message[p] \in Nat
    BY DEF BusTypes
  <2>5. ToSet(channel[c]) \subseteq ToSet(channel'[c])
        /\ (channel'[c] = Append(channel[c], message[p]) => message[p] \in ToSet(channel'[c]))
    <3>1. CASE channel'[c] = channel[c]
      BY <3>1, <2>4, AppendAt DEF ToSet
    <3>2. CASE channel'[c] = Append(channel[c], message[p])
      <4>1. /\ DOMAIN channel[c] = 1 .. Len(channel[c])
            /\ DOMAIN channel'[c] = 1 .. Len(channel[c]) + 1
        BY <2>4, <3>2, AppendAt
      <4>2. \A i \in DOMAIN channel[c] : i \in DOMAIN channel'[c] /\ channel'[c][i] = channel[c][i]
        BY <2>4, <3>2, <4>1, AppendAt
      <4>3. Len(channel[c]) + 1 \in DOMAIN channel'[c] /\ channel'[c][Len(channel[c]) + 1] = message[p]
        BY <2>4, <3>2, <4>1, AppendAt
      <4> QED
        BY <4>2, <4>3 DEF ToSet
    <3> QED
      BY <2>3, <3>1, <3>2
  <2>6. Has(m, c) => Has(m, c)'
    BY <2>1, <2>3, <2>5
  <2>7. d = c /\ message[p] = m => Has(m, c)'
    BY <2>3, <2>5
  <2>8. \A q \in Posters : q # p =>
          message'[q] = message[q] /\ post'[q] = post[q] /\ reached'[q] = reached[q] /\ copied'[q] = copied[q]
    <3>1. CASE Answer(p)
      BY <3>1, BusAnswer
    <3>2. CASE ~Answer(p)
      BY <1>5, <3>2 DEF Publish, BusTypes
    <3> QED
      BY <3>1, <3>2
  <2>9. ASSUME UnderWay(m, c) PROVE Has(m, c)' \/ UnderWay(m, c)'
    <3>1. PICK q \in Posters :
            /\ message[q] = m
            /\ \/ post[q] = "inserted"
               \/ /\ post[q] = "publishing"
                  /\ \E i \in reached[q] .. copied[q].len : ElementAt(busArrays, copied[q], i) = c
      BY <1>w, <2>9
    <3>2. CASE q # p
      BY <1>k, <2>1, <2>8, <3>1, <3>2
    <3>3. CASE q = p
      <4>1. PICK i \in reached[p] .. copied[p].len : ElementAt(busArrays, copied[p], i) = c
        BY <2>1, <3>1, <3>3
      <4>2. CASE i = reached[p]
        BY <2>7, <3>1, <3>3, <4>1, <4>2
      <4>3. CASE i # reached[p]
        <5>1. reached[p] \in Nat /\ copied[p].len \in Nat
          BY DEF BusTypes
        <5>2. reached[p] < copied[p].len /\ i \in reached[p] + 1 .. copied[p].len
          BY <4>1, <4>3, <5>1
        <5>3. reached' = [reached EXCEPT ![p] = reached[p] + 1] /\ UNCHANGED <<post, message, copied>>
          BY <1>5, <5>2 DEF Publish
        <5>4. reached'[p] = reached[p] + 1
          BY <5>3 DEF BusTypes
        <5> QED
          BY <2>1, <3>1, <3>3, <4>1, <5>2, <5>3, <5>4 DEF UnderWay, ElementAt
      <4> QED
        BY <4>2, <4>3
    <3> QED
      BY <3>2, <3>3
  <2> HIDE DEF Has
  <2> QED
    BY <2>2, <2>6, <2>9
<1>6. ASSUME NEW d \in Browsers, BusSubscribe(d)
      PROVE  Has(m, c)' \/ UnderWay(m, c)'
  <2>1. UNCHANGED <<rows, post, message, copied, reached, gone, channel, shown, lost, passedOver>>
    BY <1>6 DEF BusSubscribe
  <2>2. socket'[c] = socket[c]
    BY <1>6 DEF BusSubscribe, BusTypes
  <2>3. Has(m, c) \/ UnderWay(m, c)
    BY <1>0, <2>1, <2>2
  <2>4. \A p \in Posters : \A i \in 1 .. copied[p].len :
          \/ ElementAt(busArrays', copied[p], i) = ElementAt(busArrays, copied[p], i)
          \/ ElementAt(busArrays, copied[p], i) \in passedOver
    BY <1>6, BusSubscribeSlices
  <2>5. \A q \in Posters : reached[q] \in Nat \ {0} /\ copied[q].len \in Nat
    BY DEF BusTypes
  <2>6. \A q \in Posters : \A i \in reached[q] .. copied[q].len :
          ElementAt(busArrays, copied[q], i) = c => ElementAt(busArrays', copied[q], i) = c
    BY <2>1, <2>4, <2>5
  <2> QED
    BY <1>h, <1>k, <1>w, <2>1, <2>3, <2>6
<1>7. ASSUME NEW d \in Browsers, BusUnsubscribe(d)
      PROVE  Has(m, c)' \/ UnderWay(m, c)'
  <2>1. UNCHANGED <<rows, post, message, copied, reached, gone>>
    BY <1>7 DEF BusUnsubscribe
  <2>2. c # d
    BY <1>7 DEF BusUnsubscribe, BusTypes
  <2>3. socket'[c] = socket[c] /\ channel'[c] = channel[c] /\ shown'[c] = shown[c] /\ lost'[c] = lost[c]
    BY <1>7, <2>2 DEF BusUnsubscribe, BusTypes
  <2>4. passedOver \subseteq passedOver' /\ MovedOnly(busArrays', busArrays, subs, copied, Posters, passedOver')
    BY <1>7, BusUnsubscribeSlices
  <2>5. Has(m, c) \/ UnderWay(m, c)
    BY <1>0, <2>1, <2>3, <2>4
  <2>6. \A q \in Posters : reached[q] \in Nat \ {0} /\ copied[q].len \in Nat
    BY DEF BusTypes
  <2>7. \A q \in Posters : \A i \in reached[q] .. copied[q].len :
          ElementAt(busArrays, copied[q], i) = c => ElementAt(busArrays', copied[q], i) = c
    BY <2>4, <2>6 DEF MovedOnly
  <2>8. Has(m, c)' = Has(m, c)
    BY <2>3
  <2> QED
    BY <1>k, <1>w, <2>1, <2>5, <2>7, <2>8
<1>8. ASSUME NEW d \in Browsers, SendMessageBackfill(d) \/ SendMessageBackfillFails(d)
      PROVE  Has(m, c)' \/ UnderWay(m, c)'
  <2>1. UNCHANGED <<rows, post, message, copied, reached, busArrays, gone, channel, passedOver>>
    BY <1>8 DEF SendMessageBackfill, SendMessageBackfillFails
  <2>2. CASE c = d
    <3>1. ListAgentMessages = ToSet(rows)
      BY <2>1, BackfillIsAll DEF BusTypes
    <3>2. shown'[c] = ListAgentMessages \/ lost'[c] = lost[c] \cup ToSet(rows)
      BY <1>8, <2>1, <2>2 DEF SendMessageBackfill, SendMessageBackfillFails, BusTypes
    <3> QED
      BY <2>1, <3>1, <3>2
  <2>3. CASE c # d
    <3>1. socket'[c] = socket[c] /\ shown'[c] = shown[c] /\ lost'[c] = lost[c]
      BY <1>8, <2>3 DEF SendMessageBackfill, SendMessageBackfillFails, StartPumps,
                        BusTypes
    <3>2. Has(m, c) \/ UnderWay(m, c)
      BY <1>0, <2>1, <3>1
    <3>3. Has(m, c)' = Has(m, c)
      BY <2>1, <3>1
    <3> QED
      BY <1>k, <1>w, <2>1, <3>2, <3>3
  <2> QED
    BY <2>2, <2>3
<1>9. ASSUME NEW d \in Browsers, WriteMessage(d)
      PROVE  Has(m, c)' \/ UnderWay(m, c)'
  <2>1. UNCHANGED <<rows, post, message, copied, reached, busArrays, gone, lost, passedOver>>
    BY <1>9 DEF WriteMessage
  <2>2. socket[c] = "pumping"
    BY <1>9 DEF WriteMessage, BusTypes
  <2>3. Has(m, c) \/ UnderWay(m, c)
    BY <1>0, <2>1, <2>2
  <2>4. Has(m, c) => Has(m, c)'
    <3>1. CASE c = d
      <4>1. /\ channel'[c] = Tail(channel[c]) /\ shown'[c] = shown[c] \cup {Head(channel[c])}
            /\ channel[c] \in Seq(Nat) /\ channel[c] # <<>>
        BY <1>9, <2>1, <3>1 DEF WriteMessage, BusTypes
      <4> DEFINE s == channel[c]
      <4>3. \A i \in DOMAIN s : s[i] = Head(s) \/ (i - 1 \in DOMAIN Tail(s) /\ Tail(s)[i - 1] = s[i])
        <5>1. s \in Seq(Nat) /\ s # <<>>
          BY <4>1
        <5> HIDE DEF s
        <5> QED
          BY ONLY <5>1, TailAt
      <4>2. \A x \in ToSet(channel[c]) : x = Head(channel[c]) \/ x \in ToSet(channel'[c])
        BY <4>1, <4>3 DEF ToSet
      <4> QED
        BY <2>1, <4>1, <4>2
    <3>2. CASE c # d
      <4>1. channel'[c] = channel[c] /\ shown'[c] = shown[c]
        BY <1>9, <3>2 DEF WriteMessage, BusTypes
      <4> QED
        BY <2>1, <4>1
    <3> QED
      BY <3>1, <3>2
  <2> HIDE DEF Has
  <2> QED
    BY <1>k, <1>w, <2>1, <2>3, <2>4
<1>10. ASSUME NEW d \in Browsers, GoAway(d) \/ ReadPumpEnds(d) \/ WritePumpEnds(d)
       PROVE  Has(m, c)' \/ UnderWay(m, c)'
  <2>1. UNCHANGED <<rows, post, message, copied, reached, busArrays, channel, shown, lost, passedOver>>
    BY <1>10 DEF GoAway, ReadPumpEnds, WritePumpEnds
  <2>2. socket[c] = "pumping"
    BY <1>10 DEF GoAway, ReadPumpEnds, WritePumpEnds, BusTypes
  <2>3. ~gone[c]
    <3>1. gone' = gone \/ gone' = [gone EXCEPT ![d] = TRUE]
      BY <1>10 DEF GoAway, ReadPumpEnds, WritePumpEnds
    <3> QED
      BY <3>1 DEF BusTypes
  <2>4. Has(m, c) \/ UnderWay(m, c)
    BY <1>0, <2>1, <2>2, <2>3
  <2> QED
    BY <1>h, <1>k, <1>w, <2>1, <2>4
<1> QED
  BY <1>1, <1>2, <1>3, <1>4, <1>5, <1>6, <1>7, <1>8, <1>9, <1>10, BusSteps

LEMMA BusStutters == BusInv /\ UNCHANGED busVars => BusInv'
<1> SUFFICES ASSUME BusInv, UNCHANGED busVars PROVE BusInv'
  OBVIOUS
<1> USE DEF busVars, table, posting, bus, connections, busHistory
<1>1. BusTypes' /\ BusSlices'
  BY DEF BusInv, BusTypes, BusSlices
<1>2. BusMembers'
  BY DEF BusInv, BusMembers, Listeners, Members, ElementAt
<1>3. StreamsAreComplete'
  BY DEF BusInv, StreamsAreComplete, UnderWay, ElementAt, ToSet
<1> QED
  BY <1>1, <1>2, <1>3 DEF BusInv

\* The slices, the list and what each browser has or will get, for any number of handlers,
\* connections, messages and faults.
THEOREM BusInvariance == BusSpec => []BusInv
<1>1. BusInv /\ [BusNext]_busVars => BusInv'
  <2>1. BusInv /\ BusNext => BusInv'
    BY BusTypesKept, BusSlicesKept, BusMembersKept, BusCompleteKept DEF BusInv
  <2> QED
    BY <2>1, BusStutters
<1> QED
  BY BusStarts, <1>1, PTL DEF BusSpec

\* A browser whose connection stands has been shown every message of the task, has it in its
\* channel, or it is on its way (ws_messages.go:42-47, teams.go:285-307).
THEOREM StreamsComplete == BusSpec => []StreamsAreComplete
<1>1. BusInv => StreamsAreComplete
  BY DEF BusInv
<1> QED
  BY <1>1, BusInvariance, PTL
-----------------------------------------------------------------------------
\* A channel is on the list of the bus exactly while its connection is: one that has left does
\* not come back, although a slice of the same array may still hold it.
ListIsExact ==
  \A c \in Browsers : c \in Listeners <=> socket[c] \in {"subscribed", "pumping", "leaving"}

LEMMA ListKept ==
  ASSUME BusTypes, BusSlices, BusMembers, ListIsExact, BusNext
  PROVE  ListIsExact'
<1>1. ASSUME NEW p \in Posters,
             \/ SendAgentMessage(p) \/ CreateAgentMessage(p)
             \/ CreateAgentMessageFails(p) \/ Look(p) \/ Publish(p)
      PROVE  ListIsExact'
  <2>1. UNCHANGED <<Listeners, socket>>
    BY <1>1 DEF SendAgentMessage, CreateAgentMessage, CreateAgentMessageFails,
                Look, Publish, bus, connections, Listeners, Members, ElementAt
  <2> QED
    BY <2>1 DEF ListIsExact
<1>2. ASSUME NEW c \in Browsers, BusSubscribe(c)
      PROVE  ListIsExact'
  <2>1. Listeners' = Listeners \cup {c} /\ socket' = [socket EXCEPT ![c] = "subscribed"]
    BY <1>2, BusSubscribeSlices DEF BusSubscribe
  <2> QED
    BY <2>1 DEF ListIsExact, BusTypes
<1>3. ASSUME NEW c \in Browsers, BusUnsubscribe(c)
      PROVE  ListIsExact'
  <2>1. Listeners' = Listeners \ {c} /\ socket' = [socket EXCEPT ![c] = "over"]
    BY <1>3, BusUnsubscribeSlices DEF BusUnsubscribe
  <2> QED
    BY <2>1 DEF ListIsExact, BusTypes
<1>4. ASSUME NEW c \in Browsers,
             \/ SendMessageBackfill(c) \/ SendMessageBackfillFails(c) \/ WriteMessage(c)
             \/ GoAway(c) \/ ReadPumpEnds(c) \/ WritePumpEnds(c)
      PROVE  ListIsExact'
  <2>1. UNCHANGED Listeners
    BY <1>4 DEF SendMessageBackfill, SendMessageBackfillFails, WriteMessage, GoAway,
                ReadPumpEnds, WritePumpEnds, bus, Listeners, Members, ElementAt
  <2>2. \A d \in Browsers : socket'[d] = socket[d]
                           \/ /\ socket[d] \in {"subscribed", "pumping"}
                              /\ socket'[d] \in {"pumping", "leaving"}
    BY <1>4 DEF SendMessageBackfill, SendMessageBackfillFails, StartPumps, WriteMessage,
                GoAway, ReadPumpEnds, WritePumpEnds, BusTypes
  <2> QED
    BY <2>1, <2>2 DEF ListIsExact
<1> QED
  BY <1>1, <1>2, <1>3, <1>4, BusSteps

\* What Unsubscribe takes off the list stays off, whoever publishes or leaves at the same time
\* (msgbus.go:47-63): the safety half of BrokenStreamsLeave, and nobody else is taken off.
THEOREM ListedWhileConnected == BusSpec => []ListIsExact
<1>1. BusInit => ListIsExact
  BY DEF BusInit, ListIsExact, Listeners, Members, NoSlice
<1>2. BusInv /\ ListIsExact /\ [BusNext]_busVars => ListIsExact'
  <2> SUFFICES ASSUME BusInv, ListIsExact, [BusNext]_busVars
               PROVE  ListIsExact'
    OBVIOUS
  <2>1. CASE BusNext
    BY <2>1, ListKept DEF BusInv
  <2>2. CASE UNCHANGED busVars
    BY <2>2 DEF busVars, bus, connections, ListIsExact, Listeners, Members, ElementAt
  <2> QED
    BY <2>1, <2>2
<1> QED
  BY <1>1, <1>2, BusInvariance, PTL DEF BusSpec
-----------------------------------------------------------------------------
(***************************************************************************)
(* RingBuffer for every size, all chunks and any number of bytes written   *)
(***************************************************************************)
\* The remainders the code takes are of sums below twice the size.
LEMMA RingWraps ==
  ASSUME NEW n \in Nat \ {0}, NEW x \in 0 .. 2 * n - 1
  PROVE  x % n = IF x < n THEN x ELSE x - n
<1>1. CASE x < n
  BY <1>1, SMT
<1>2. CASE x >= n
  BY <1>2, SMT
<1> QED
  BY <1>1, <1>2

LEMMA RingStarts == NewRingBuffer => RingInv
BY RingBufferAssumption DEF NewRingBuffer, RingInv, Slots, Holds

\* The invariant as facts about the counters and about each slot.
LEMMA RingCounters ==
  ASSUME RingInv
  PROVE  /\ size \in Nat \ {0} /\ size \in Int /\ writePos \in 0 .. size - 1 /\ writePos \in Int
         /\ written \in Nat /\ written \in Int /\ written >= writePos
         /\ written < size => writePos = written
BY RingBufferAssumption DEF RingInv, Slots

LEMMA RingHeld ==
  ASSUME RingInv, NEW p \in Slots
  PROVE  /\ p < writePos /\ written - writePos + p >= 0 => data[p] = written - writePos + p
         /\ p >= writePos /\ written - writePos + p - size >= 0
              => data[p] = written - writePos + p - size
         /\ data[p] = IF Holds(p) < 0 THEN -1 ELSE Holds(p)
<1>1. data[p] = IF Holds(p) < 0 THEN -1 ELSE Holds(p)
  BY DEF RingInv
<1>2. p \in Int /\ size \in Int
  BY RingBufferAssumption DEF Slots
<1> QED
  BY <1>1, <1>2, RingCounters DEF Holds

LEMMA RingWritePart ==
  ASSUME RingInv, NEW n \in Nat, WritePart(n)
  PROVE  RingInv'
<1>0. n < size /\ written' = written + n /\ writePos' = (writePos + n) % size
  BY DEF WritePart
<1>1. writePos' = IF writePos + n < size THEN writePos + n ELSE writePos + n - size
  <2>1. writePos + n \in 0 .. 2 * size - 1
    BY <1>0, RingCounters
  <2>2. (writePos + n) % size
          = IF writePos + n < size THEN writePos + n ELSE writePos + n - size
    BY <2>1, RingCounters, RingWraps
  <2> QED
    BY <1>0, <2>2
<1>2. /\ writePos' \in Slots /\ written' \in Nat /\ written' >= writePos'
      /\ written' < size => writePos' = written'
  BY <1>0, <1>1, RingCounters DEF Slots
<1>3. ASSUME NEW p \in Slots
      PROVE  data'[p] = IF Holds(p)' < 0 THEN -1 ELSE Holds(p)'
  <2>0. p \in 0 .. size - 1 /\ p \in Int
    BY RingCounters DEF Slots
  <2>1. data'[p] = IF Place(p) < n THEN written + Place(p) ELSE data[p]
    BY DEF WritePart
  <2>2. Holds(p)' = (written + n) - writePos' + p - IF p < writePos' THEN 0 ELSE size
    BY <1>0 DEF Holds
  <2>3. CASE Place(p) < n
    <3>1. Holds(p)' = written + Place(p)
      <4>1. CASE p >= writePos
        <5>0. Place(p) = p - writePos /\ n \in Int
          BY <4>1 DEF Place
        <5>1. CASE writePos + n < size
          <6>1. writePos' = writePos + n /\ p < writePos'
            BY <1>1, <2>0, <2>3, <5>0, <5>1, RingCounters
          <6> QED
            BY <2>0, <2>2, <5>0, <6>1, RingCounters
        <5>2. CASE ~ writePos + n < size
          <6>1. writePos' = writePos + n - size /\ p >= writePos'
            BY <1>0, <1>1, <2>0, <4>1, <5>0, <5>2, RingCounters
          <6> QED
            BY <2>0, <2>2, <5>0, <6>1, RingCounters
        <5> QED
          BY <5>1, <5>2
      <4>2. CASE p < writePos
        BY <1>1, <1>2, <2>0, <2>2, <2>3, <4>2, RingCounters DEF Place, Slots
      <4> QED
        BY <2>0, <4>1, <4>2, RingCounters
    <3>2. written + Place(p) >= 0
      BY <2>0, RingCounters DEF Place
    <3>3. written + Place(p) \in Int
      BY <2>0, RingCounters DEF Place
    <3> QED
      BY <2>1, <2>3, <3>1, <3>2, <3>3
  <2>4. CASE ~ Place(p) < n
    <3>1. Holds(p)' = Holds(p)
      <4>1. CASE p >= writePos
        BY <1>1, <1>2, <2>0, <2>2, <2>4, <4>1, RingCounters DEF Place, Slots, Holds
      <4>2. CASE p < writePos
        BY <1>1, <1>2, <2>0, <2>2, <2>4, <4>2, RingCounters DEF Place, Slots, Holds
      <4> QED
        BY <2>0, <4>1, <4>2, RingCounters
    <3> QED
      BY <2>1, <2>4, <3>1, RingHeld
  <2> QED
    BY <2>3, <2>4
<1>4. data' = [p \in Slots |-> data'[p]]
  BY DEF WritePart
<1>5. data' = [p \in Slots |-> IF Holds(p)' < 0 THEN -1 ELSE Holds(p)']
  BY <1>3, <1>4
<1> QED
  BY <1>2, <1>5 DEF RingInv, Slots, Holds

LEMMA RingWriteTail ==
  ASSUME RingInv, NEW n \in Nat, WriteTail(n)
  PROVE  RingInv'
BY RingBufferAssumption DEF RingInv, WriteTail, Slots, Holds

\* What every slot holds, after any sequence of writes.
THEOREM RingInvariant == RingSpec => []RingInv
<1>1. RingInv /\ [WriteChunk]_ringVars => RingInv'
  <2>1. CASE WriteChunk
    BY <2>1, RingWritePart, RingWriteTail, RingBufferAssumption DEF WriteChunk
  <2>2. CASE UNCHANGED ringVars
    BY <2>2 DEF ringVars, RingInv, Slots, Holds
  <2> QED
    BY <2>1, <2>2
<1>2. QED
  BY RingStarts, <1>1, PTL DEF RingSpec
-----------------------------------------------------------------------------
LEMMA RingSliceIs ==
  ASSUME RingInv, NEW from \in Nat, NEW n \in Nat, from + n <= size
  PROVE  /\ Slice(from, n) \in Seq(Int) /\ Len(Slice(from, n)) = n
         /\ \A i \in 1 .. n : Slice(from, n)[i] = data[from + i - 1]
<1>1. \A i \in 1 .. n : data[from + i - 1] \in Int
  BY RingBufferAssumption DEF RingInv, Slots, Holds
<1> QED
  BY <1>1 DEF Slice

\* Two parts of the slots, the first up to their end and the second from their
\* start, hold n bytes in a row.
LEMMA RingTwoParts ==
  ASSUME RingInv, NEW from \in Slots, NEW n \in Nat, size - from <= n, n <= size,
         NEW first \in Nat,
         \A i \in 1 .. size - from : data[from + i - 1] = first + i - 1,
         \A i \in 1 .. n - (size - from) : data[i - 1] = first + (size - from) + i - 1
  PROVE  Slice(from, size - from) \o Slice(0, n - (size - from))
           = [i \in 1 .. n |-> first + i - 1]
<1> DEFINE m == size - from
           s == Slice(from, m)
           t == Slice(0, n - m)
<1> USE RingBufferAssumption
<1>1. m \in Nat /\ n - m \in Nat /\ from \in Nat /\ from + m <= size /\ 0 + (n - m) <= size
  BY DEF Slots
<1>2. s \in Seq(Int) /\ Len(s) = m /\ \A i \in 1 .. m : s[i] = first + i - 1
  BY <1>1, RingSliceIs
<1>3. t \in Seq(Int) /\ Len(t) = n - m /\ \A i \in 1 .. n - m : t[i] = first + m + i - 1
  <2>1. \A i \in 1 .. n - m : t[i] = data[0 + i - 1]
    BY <1>1, RingSliceIs
  <2>2. t \in Seq(Int) /\ Len(t) = n - m
    BY <1>1, RingSliceIs
  <2>3. ASSUME NEW i \in 1 .. n - m
        PROVE  t[i] = first + m + i - 1
    <3>1. t[i] = data[0 + i - 1] /\ 0 + i - 1 = i - 1
      BY <1>1, <2>1
    <3>2. data[i - 1] = first + m + i - 1
      OBVIOUS
    <3> QED
      BY <3>1, <3>2
  <2> QED
    BY <2>2, <2>3
<1> HIDE DEF m, s, t
<1>4. s \o t = [i \in 1 .. n |-> (s \o t)[i]]
  <2>1. s \o t \in Seq(Int) /\ Len(s \o t) = m + (n - m)
    BY <1>1, <1>2, <1>3
  <2>2. m + (n - m) = n
    BY <1>1
  <2>3. \A q \in Seq(Int) : q = [i \in 1 .. Len(q) |-> q[i]]
    OBVIOUS
  <2> QED
    BY <2>1, <2>2, <2>3
<1>5. ASSUME NEW i \in 1 .. n
      PROVE  (s \o t)[i] = first + i - 1
  <2>1. (s \o t)[i] = IF i <= m THEN s[i] ELSE t[i - m]
    BY <1>1, <1>2, <1>3
  <2>2. CASE i <= m
    BY <1>1, <1>2, <2>1, <2>2
  <2>3. CASE ~ i <= m
    <3>1. i - m \in 1 .. n - m
      BY <1>1, <2>3
    <3>2. t[i - m] = first + m + (i - m) - 1
      BY <1>3, <3>1
    <3> QED
      BY <1>1, <2>1, <2>3, <3>2
  <2> QED
    BY <2>2, <2>3
<1>6. s \o t = [i \in 1 .. n |-> first + i - 1]
  BY <1>4, <1>5
<1> QED
  BY <1>6 DEF m, s, t
-----------------------------------------------------------------------------
\* ReadAll returns all that is kept, oldest first, unless the buffer has just been
\* filled to its end (buffer.go:62-88).
THEOREM ReadAllComplete == RingSpec => []ReadAllReturnsAll
<1>1. RingInv => ReadAllReturnsAll
  <2> SUFFICES ASSUME RingInv, written # size
               PROVE  ReadAll = Newest(Stored)
    BY DEF ReadAllReturnsAll
  <2> USE RingBufferAssumption DEF Newest, Since, Stored
  <2>1. CASE written = 0
    BY <2>1 DEF ReadAll
  <2>2. CASE written # 0 /\ written < size
    <3>1. writePos = written /\ writePos \in Nat
      BY <2>2 DEF RingInv
    <3>2. \A i \in 1 .. written : data[i - 1] = i - 1
      BY <2>2, <3>1 DEF RingInv, Slots, Holds
    <3>3. ReadAll = [i \in 1 .. written |-> data[i - 1]]
      <4>1. ReadAll = Slice(0, written)
        BY <2>2, <3>1 DEF ReadAll, RingInv
      <4>2. \A i \in 1 .. written : 0 + i - 1 = i - 1
        BY <3>1
      <4> QED
        BY <4>1, <4>2 DEF Slice
    <3>4. Newest(Stored) = [i \in 1 .. written |-> i - 1]
      <4>1. Stored = written /\ written - written = 0 /\ written - 0 = written
        BY <2>2, <3>1 DEF Stored
      <4>2. \A i \in 1 .. written : 0 + i - 1 = i - 1
        BY <3>1
      <4> QED
        BY <4>1, <4>2 DEF Newest, Since
    <3> QED
      BY <3>2, <3>3, <3>4
  <2>3. CASE written > size
    <3> DEFINE first == written - size
    <3>1. /\ writePos \in Slots /\ writePos \in Nat /\ first \in Nat
          /\ size - writePos <= size /\ size - (size - writePos) = writePos
      BY <2>3 DEF RingInv, Slots
    <3>2. \A i \in 1 .. size - writePos : data[writePos + i - 1] = first + i - 1
      BY <2>3 DEF RingInv, Slots, Holds
    <3>3. \A i \in 1 .. size - (size - writePos) :
            data[i - 1] = first + (size - writePos) + i - 1
      <4> SUFFICES ASSUME NEW i \in 1 .. writePos
                   PROVE  data[i - 1] = first + (size - writePos) + i - 1
        BY <3>1
      <4>1. i - 1 \in Slots /\ i - 1 < writePos /\ i \in Int
        BY RingCounters DEF Slots
      <4>2. written - writePos + (i - 1) >= 0
        BY <4>1, RingCounters DEF Slots
      <4>3. data[i - 1] = written - writePos + (i - 1)
        BY <4>1, <4>2, RingHeld
      <4> QED
        BY <4>1, <4>3, RingCounters
    <3> HIDE DEF first
    <3>4. Slice(writePos, size - writePos) \o Slice(0, writePos)
            = [i \in 1 .. size |-> first + i - 1]
      <4>1. size \in Nat /\ size - writePos <= size /\ size <= size
        BY <3>1
      <4>2. Slice(writePos, size - writePos) \o Slice(0, size - (size - writePos))
              = [i \in 1 .. size |-> first + i - 1]
        BY <3>1, <3>2, <3>3, <4>1, RingTwoParts
      <4> QED
        BY <3>1, <4>2
    <3>5. ReadAll = Slice(writePos, size - writePos) \o Slice(0, writePos)
      BY <2>3, RingCounters DEF ReadAll
    <3>6. Newest(Stored) = [i \in 1 .. size |-> first + i - 1]
      <4>1. Stored = size /\ written - size = first /\ written - first = size
        BY <2>3, RingCounters DEF first
      <4> QED
        BY <4>1
    <3> QED
      BY <3>4, <3>5, <3>6
  <2> QED
    BY <2>1, <2>2, <2>3 DEF RingInv
<1>2. QED
  BY RingInvariant, <1>1, PTL

\* ReadFrom returns what was written from an offset on, as far as it is kept
\* (buffer.go:91-128).
THEOREM ReadFromComplete == RingSpec => []ReadFromReturnsRest
<1>1. RingInv => ReadFromReturnsRest
  <2> SUFFICES ASSUME RingInv, NEW offset \in 0 .. written
               PROVE  ReadFrom(offset)
                        = Since(IF offset < written - Stored THEN written - Stored ELSE offset)
    BY DEF ReadFromReturnsRest
  <2> DEFINE first == IF offset < Earliest THEN Earliest ELSE offset
             available == written - first
             start == (writePos - (available % size) + size) % size
  <2> USE RingBufferAssumption
  <2>0. written \in Nat /\ writePos \in Slots /\ writePos \in Nat /\ written >= writePos
    BY DEF RingInv, Slots
  <2>1. Earliest = written - Stored
    BY <2>0 DEF Earliest, Stored
  <2>2. Since(first) = [i \in 1 .. available |-> first + i - 1]
    BY DEF Since
  <2>3. CASE offset >= written
    <3>1. first = written
      BY <2>0, <2>3 DEF Earliest
    <3> QED
      BY <2>0, <2>1, <2>2, <2>3, <3>1 DEF ReadFrom
  <2>4. CASE offset < written
    <3>1. /\ first \in Nat /\ available \in 1 .. size
          /\ first >= Earliest /\ first < written
      BY <2>0, <2>4 DEF Earliest
    <3>2. start = IF writePos < available THEN writePos - available + size
                  ELSE writePos - available
      <4>1. available % size = IF available < size THEN available ELSE 0
        BY <3>1, RingWraps
      <4> DEFINE x == writePos - (available % size) + size
      <4>2. x = IF available < size THEN writePos - available + size ELSE writePos + size
        BY <2>0, <3>1, <4>1 DEF Slots
      <4>3. start = x % size
        BY DEF start
      <4> HIDE DEF x, start, available
      <4>4. x \in 0 .. 2 * size - 1 /\ size \in Nat \ {0}
        BY <2>0, <3>1, <4>2 DEF Slots
      <4>5. x % size = IF x < size THEN x ELSE x - size
        BY <4>4, RingWraps
      <4>6. start = IF x < size THEN x ELSE x - size
        BY <4>3, <4>5
      <4> QED
        BY <2>0, <3>1, <4>2, <4>4, <4>6 DEF Slots
    <3>3. start \in Slots /\ start \in Nat
      BY <2>0, <3>1, <3>2 DEF Slots
    <3> HIDE DEF start, first, available
    <3>a. /\ available = written - first /\ Earliest <= first /\ available \in Int
          /\ first \in Int /\ start \in Int /\ size \in Int
          /\ written - first <= size
      BY <2>0, <3>1, <3>3 DEF available
    <3>4. \A i \in 1 .. available :
            i <= size - start => data[start + i - 1] = first + i - 1
      <4> SUFFICES ASSUME NEW i \in 1 .. available, i <= size - start
                   PROVE  data[start + i - 1] = first + i - 1
        OBVIOUS
      <4>1. start + i - 1 \in Slots /\ i \in Int /\ start + i - 1 \in Int
        BY <3>1, <3>3, <3>a DEF Slots
      <4>2. CASE writePos < available
        <5>1. start + i - 1 >= writePos /\ start = writePos - available + size
          BY <2>0, <3>2, <3>1, <3>a, <4>1, <4>2
        <5>2. written - writePos + (start + i - 1) - size = first + i - 1
          BY <2>0, <3>a, <4>1, <5>1
        <5> QED
          BY <3>1, <3>a, <4>1, <5>1, <5>2, RingHeld
      <4>3. CASE ~ writePos < available
        <5>1. start + i - 1 < writePos /\ start = writePos - available
          BY <2>0, <3>2, <3>1, <3>a, <4>1, <4>3
        <5>2. written - writePos + (start + i - 1) = first + i - 1
          BY <2>0, <3>a, <4>1, <5>1
        <5> QED
          BY <3>1, <3>a, <4>1, <5>1, <5>2, RingHeld
      <4> QED
        BY <4>2, <4>3
    <3>5. \A i \in 1 .. available - (size - start) :
            data[i - 1] = first + (size - start) + i - 1
      <4> SUFFICES ASSUME NEW i \in 1 .. available - (size - start)
                   PROVE  data[i - 1] = first + (size - start) + i - 1
        OBVIOUS
      <4>1. i \in Int /\ i >= 1 /\ i <= available - (size - start)
        BY <3>3, <3>a
      <4>2. start = writePos - available + size
        BY <2>0, <3>2, <3>1, <3>3, <3>a, <4>1 DEF Slots
      <4>3. i - 1 \in Slots /\ i - 1 < writePos
        BY <2>0, <3>a, <4>1, <4>2 DEF Slots
      <4>4. written - writePos + (i - 1) = first + (size - start) + i - 1
        BY <2>0, <3>a, <4>1, <4>2
      <4>5. written - writePos + (i - 1) >= 0
        BY <2>0, <4>1
      <4> QED
        BY <4>3, <4>4, <4>5, RingHeld
    <3>6. ReadFrom(offset)
            = IF size - start >= available THEN Slice(start, available)
              ELSE Slice(start, size - start) \o Slice(0, available - (size - start))
      BY <2>0, <2>4 DEF ReadFrom, start, available, first
    <3>7. CASE size - start >= available
      <4>1. ReadFrom(offset) = [i \in 1 .. available |-> data[start + i - 1]]
        BY <3>6, <3>7 DEF Slice
      <4>2. \A i \in 1 .. available : i <= size - start
        BY <3>a, <3>7
      <4>3. ReadFrom(offset) = [i \in 1 .. available |-> first + i - 1]
        BY <3>4, <4>1, <4>2
      <4> QED
        BY <2>1, <2>2, <4>3 DEF first
    <3>8. CASE ~ size - start >= available
      <4>1. \A i \in 1 .. size - start : data[start + i - 1] = first + i - 1
        BY <3>1, <3>3, <3>4, <3>8 DEF Slots
      <4>2. available \in Nat /\ size - start <= available /\ available <= size
        BY <3>1, <3>3, <3>8
      <4>3. Slice(start, size - start) \o Slice(0, available - (size - start))
              = [i \in 1 .. available |-> first + i - 1]
        BY <3>1, <3>3, <3>5, <4>1, <4>2, RingTwoParts
      <4> QED
        BY <2>1, <2>2, <3>6, <3>8, <4>3 DEF first
    <3> QED
      BY <3>7, <3>8
  <2> QED
    BY <2>3, <2>4, <2>0
<1>2. QED
  BY RingInvariant, <1>1, PTL
=============================================================================
