-------------------------- MODULE AlgorithmProofs --------------------------
(* What works on flat memory: the merge sort of MergeSort keeps its runs   *)
(* sorted and loses nothing, the word-wise operations of BitSet are those  *)
(* on sets, and the Collector frees only what cannot be reached, and all   *)
(* of it that no word of the stack points into.                            *)
EXTENDS MergeSort, BitSet, Collector, Sequences, FunctionTheorems, FiniteSetTheorems,
        WellFoundedInduction, TLAPS

-----------------------------------------------------------------------------
(* Multiples. *)

LEMMA Division ==
  ASSUME NEW a \in Int, NEW n \in Nat \ {0}
  PROVE  /\ a % n \in 0 .. n - 1 /\ a \div n \in Int
         /\ a = n * (a \div n) + (a % n)
OBVIOUS

LEMMA Quotient ==
  ASSUME NEW n \in Nat \ {0}, NEW q \in Int, NEW d \in 0 .. n - 1
  PROVE  (n * q + d) % n = d /\ (n * q + d) \div n = q
OBVIOUS

LEMMA NextMultiple ==
  ASSUME NEW n \in Nat \ {0}, NEW a \in Int, NEW b \in Int,
         a % n = 0, b % n = 0, a < b
  PROVE  a + n <= b
<1> DEFINE x == a \div n
           y == b \div n
<1>1. x \in Int /\ y \in Int /\ a = n * x /\ b = n * y
  BY Division
<1> HIDE DEF x, y
<1>2. n * (x + 1) = a + n
  BY <1>1
<1>3. x < y
  <2> SUFFICES ASSUME y <= x PROVE FALSE
    BY <1>1
  <2>1. n * (x - y) >= 0 /\ n * (x - y) = a - b
    BY <1>1
  <2> QED BY <2>1
<1>4. n * (y - (x + 1)) >= 0 /\ n * (y - (x + 1)) = b - (a + n)
  BY <1>1, <1>3
<1> QED BY <1>4

LEMMA RunStarts ==
  ASSUME NEW n \in Nat \ {0}, NEW a \in Int, a % (2 * n) = 0
  PROVE  a % n = 0 /\ (a + n) % n = 0 /\ (a + 2 * n) % (2 * n) = 0
<1>1. PICK q \in Int : a = 2 * n * q
  <2>1. 2 * n \in Nat \ {0}
    OBVIOUS
  <2> DEFINE m == 2 * n
  <2>2. m \in Nat \ {0} /\ a % m = 0
    BY <2>1
  <2> HIDE DEF m
  <2>3. a \div m \in Int /\ a = m * (a \div m)
    BY <2>2, Division
  <2> QED BY <2>3 DEF m
<1>2. a = n * (2 * q) + 0 /\ a + n = n * (2 * q + 1) + 0
  BY <1>1
<1>3. a + 2 * n = (2 * n) * (q + 1) + 0
  BY <1>1
<1>4. a % n = 0 /\ (a + n) % n = 0
  <2>1. (n * (2 * q) + 0) % n = 0 /\ (n * (2 * q + 1) + 0) % n = 0
    BY <1>1, Quotient
  <2> QED BY <1>2, <2>1
<1>5. ((2 * n) * (q + 1) + 0) % (2 * n) = 0
  <2> DEFINE m == 2 * n
  <2>1. m \in Nat \ {0}
    OBVIOUS
  <2> HIDE DEF m
  <2>2. (m * (q + 1) + 0) % m = 0
    BY <1>1, <2>1, Quotient
  <2> QED BY <2>2 DEF m
<1> QED BY <1>3, <1>4, <1>5

-----------------------------------------------------------------------------
(* The merge sort. *)

Element == SortKey \X Nat

Shape ==
    /\ _len \in Nat
    /\ array \in [0 .. _len - 1 -> Element]
    /\ in \in [0 .. _len - 1 -> Element]
    /\ DOMAIN out = 0 .. _len - 1 /\ out = [n \in 0 .. _len - 1 |-> out[n]]
    /\ step \in Nat \ {0} /\ sorting \in BOOLEAN

(* Where the loops are: p counts what has been read of both runs. *)
Place ==
    /\ ~sorting => step >= _len
    /\ step < _len =>
          /\ i \in 0 .. _len - 1 /\ i % (2 * step) = 0
          /\ l \in i .. lmax
          /\ r \in Nat /\ i + step <= r /\ (r <= rmax \/ r = i + step)
          /\ p = l + (r - (i + step))

SortIInv == Shape /\ Place /\ SortInv

LEMMA OrderIsTotal ==
  /\ \A a, b \in Element : Precedes(a, b) => ~Precedes(b, a)
  /\ \A a, b, c \in Element :
        ~Precedes(a, b) /\ ~Precedes(b, c) => ~Precedes(a, c)
  /\ \A a \in Element : ~Precedes(a, a)
<1>1. \A a \in Element : a[1] \in Int
  BY SortKeyAssumption DEF Element
<1> QED BY <1>1 DEF Precedes

LEMMA MergingFits ==
  ASSUME SortIInv, step < _len
  PROVE  /\ _len \in Nat /\ step \in Nat \ {0} /\ i \in Nat /\ i < _len
         /\ l \in Nat /\ r \in Nat /\ p \in Nat /\ lmax \in Nat /\ rmax \in Nat
         /\ i <= l /\ l <= lmax /\ lmax <= i + step /\ lmax <= _len
         /\ rmax <= i + 2 * step /\ rmax <= _len
         /\ lmax = i + step \/ (lmax = _len /\ rmax = _len /\ r = i + step)
         /\ rmax = i + 2 * step \/ rmax = _len
         /\ i + step <= r /\ (r <= rmax \/ r = i + step)
         /\ p = l + (r - (i + step)) /\ i <= p
         /\ l < lmax \/ r < rmax => p < _len /\ p < i + 2 * step
<1>1. /\ _len \in Nat /\ step \in Nat \ {0} /\ i \in 0 .. _len - 1
      /\ l \in i .. lmax /\ r \in Nat /\ i + step <= r
      /\ r <= rmax \/ r = i + step
      /\ p = l + (r - (i + step))
  BY DEF SortIInv, Shape, Place
<1>2. /\ lmax = IF i + step > _len THEN _len ELSE i + step
      /\ rmax = IF i + 2 * step > _len THEN _len ELSE i + 2 * step
  BY DEF lmax, rmax, Clipped
<1> QED BY <1>1, <1>2

(* What may be taken: an element of one of the runs that nothing unread    *)
(* precedes.                                                               *)
Read == 0 .. l - 1 \cup i + step .. r - 1
Unread == l .. lmax - 1 \cup r .. rmax - 1

Takes(k) ==
    /\ k \in Unread /\ \A n \in Unread : ~Precedes(in[n], in[k])
    /\ out' = [out EXCEPT ![p] = in[k]] /\ p' = p + 1
    /\ Read' = Read \cup {k} /\ Unread' = Unread \ {k}
    /\ l' \in i .. lmax /\ r' \in Nat /\ i + step <= r'
    /\ r' <= rmax \/ r' = i + step
    /\ l' + r' = l + r + 1
    /\ UNCHANGED <<array, in, step, i, sorting>>

(* A run of the buffer that is read is sorted. *)
LEMMA RunIn ==
  ASSUME SortIInv, NEW start \in Nat, start % step = 0, start <= _len,
         NEW m \in Nat, NEW n \in Nat,
         start <= m, m < n, n < start + step, n < _len
  PROVE  ~Precedes(in[n], in[m])
<1>1. _len \in Nat /\ step \in Nat \ {0}
  BY DEF SortIInv, Shape
<1>2. SortedIn(in, start, IF start + step > _len THEN _len - 1
                                                ELSE start + step - 1)
  BY <1>1 DEF SortIInv, SortInv, RunsSorted
<1> QED BY <1>1, <1>2 DEF SortedIn

LEMMA RunsRead ==
  ASSUME SortIInv, step < _len
  PROVE  /\ \A m, n \in l .. lmax - 1 : m < n => ~Precedes(in[n], in[m])
         /\ \A m, n \in r .. rmax - 1 : m < n => ~Precedes(in[n], in[m])
<1> USE MergingFits
<1>1. i % (2 * step) = 0
  BY DEF SortIInv, Place
<1>2. i \in Nat /\ i <= _len /\ step \in Nat \ {0}
  OBVIOUS
<1>5. i % step = 0 /\ (i + step) % step = 0
  BY <1>1, <1>2, RunStarts
<1>3. ASSUME NEW m \in l .. lmax - 1, NEW n \in l .. lmax - 1, m < n
      PROVE  ~Precedes(in[n], in[m])
  <2>1. m \in Nat /\ n \in Nat /\ i <= m /\ n < i + step /\ n < _len
    BY <1>3
  <2> QED BY <1>2, <1>3, <1>5, <2>1, RunIn
<1>4. ASSUME NEW m \in r .. rmax - 1, NEW n \in r .. rmax - 1, m < n
      PROVE  ~Precedes(in[n], in[m])
  <2>1. /\ m \in Nat /\ n \in Nat /\ i + step <= m /\ n < _len
        /\ n < (i + step) + step /\ i + step \in Nat /\ i + step <= _len
    BY <1>4
  <2> QED BY <1>2, <1>4, <1>5, <2>1, RunIn
<1> QED BY <1>3, <1>4

LEMMA UnreadTypes ==
  ASSUME SortIInv, step < _len
  PROVE  /\ \A n \in Unread : n \in 0 .. _len - 1 /\ in[n] \in Element
         /\ Unread \cap Read = {}
<1> USE MergingFits
<1>1. in \in [0 .. _len - 1 -> Element]
  BY DEF SortIInv, Shape
<1>2. \A n \in Unread : n \in 0 .. _len - 1
  BY DEF Unread
<1>3. Unread \cap Read = {}
  BY DEF Unread, Read
<1> QED BY <1>1, <1>2, <1>3

LEMMA LeftTakes ==
  ASSUME SortIInv, TakeLeft
  PROVE  Takes(l)
<1>1. step < _len /\ l < lmax
  BY DEF TakeLeft
<1>2. /\ out' = [out EXCEPT ![p] = in[l]] /\ p' = p + 1 /\ l' = l + 1 /\ r' = r
      /\ UNCHANGED <<array, in, step, i, r, sorting>>
  BY DEF TakeLeft
<1>3. lmax' = lmax /\ rmax' = rmax
  BY <1>2 DEF lmax, rmax, Clipped, _len
<1> USE <1>1, MergingFits
<1>4. l \in Unread
  BY DEF Unread
<1>5. ASSUME NEW n \in Unread
      PROVE  ~Precedes(in[n], in[l])
  <2>1. in[n] \in Element /\ in[l] \in Element
    BY <1>4, <1>5, UnreadTypes
  <2>2. CASE n = l
    BY <2>1, <2>2, OrderIsTotal
  <2>3. CASE n \in l .. lmax - 1 /\ l < n
    BY <2>3, RunsRead
  <2>4. CASE n \in r .. rmax - 1
    <3>1. Precedes(in[l], in[r]) /\ r \in Unread
      BY <2>4 DEF TakeLeft, Unread
    <3>2. in[r] \in Element
      BY <3>1, UnreadTypes
    <3>3. ~Precedes(in[r], in[l])
      BY <2>1, <3>1, <3>2, OrderIsTotal
    <3>4. CASE n = r
      BY <3>3, <3>4
    <3>5. CASE r < n
      <4>1. ~Precedes(in[n], in[r])
        BY <2>4, <3>5, RunsRead
      <4> QED BY <2>1, <3>2, <3>3, <4>1, OrderIsTotal
    <3> QED BY <2>4, <3>4, <3>5
  <2> QED BY <1>5, <2>2, <2>3, <2>4 DEF Unread
<1>6. Read' = Read \cup {l} /\ Unread' = Unread \ {l}
  BY <1>2, <1>3 DEF Read, Unread
<1> QED BY <1>2, <1>4, <1>5, <1>6 DEF Takes

LEMMA RightTakes ==
  ASSUME SortIInv, TakeRight
  PROVE  Takes(r)
<1>1. step < _len /\ r < rmax
  BY DEF TakeRight
<1>2. /\ out' = [out EXCEPT ![p] = in[r]] /\ p' = p + 1 /\ r' = r + 1 /\ l' = l
      /\ UNCHANGED <<array, in, step, i, l, sorting>>
  BY DEF TakeRight
<1>3. lmax' = lmax /\ rmax' = rmax
  BY <1>2 DEF lmax, rmax, Clipped, _len
<1> USE <1>1, MergingFits
<1>4. r \in Unread
  BY DEF Unread
<1>5. ASSUME NEW n \in Unread
      PROVE  ~Precedes(in[n], in[r])
  <2>1. in[n] \in Element /\ in[r] \in Element
    BY <1>4, <1>5, UnreadTypes
  <2>2. CASE n = r
    BY <2>1, <2>2, OrderIsTotal
  <2>3. CASE n \in r .. rmax - 1 /\ r < n
    BY <2>3, RunsRead
  <2>4. CASE n \in l .. lmax - 1
    <3>1. ~Precedes(in[l], in[r]) /\ l \in Unread
      BY <2>4 DEF TakeRight, Unread
    <3>2. in[l] \in Element
      BY <3>1, UnreadTypes
    <3>3. CASE n = l
      BY <3>1, <3>3
    <3>4. CASE l < n
      <4>1. ~Precedes(in[n], in[l])
        BY <2>4, <3>4, RunsRead
      <4> QED BY <2>1, <3>1, <3>2, <4>1, OrderIsTotal
    <3> QED BY <2>4, <3>3, <3>4
  <2> QED BY <1>5, <2>2, <2>3, <2>4 DEF Unread
<1>6. Read' = Read \cup {r} /\ Unread' = Unread \ {r}
  BY <1>2, <1>3 DEF Read, Unread
<1> QED BY <1>2, <1>4, <1>5, <1>6 DEF Takes

(* After a take the runs written so far are sorted, and hold what has been *)
(* read.                                                                   *)
LEMMA TakeKeepsPlace ==
  ASSUME SortIInv, step < _len, NEW k, Takes(k)
  PROVE  (Shape /\ Place)'
<1>1. k \in 0 .. _len - 1 /\ in[k] \in Element
  BY UnreadTypes DEF Takes
<1>2. _len' = _len /\ lmax' = lmax /\ rmax' = rmax
  BY DEF Takes, lmax, rmax, Clipped, _len
<1>3. Shape'
  <2>1. /\ Shape /\ out' = [out EXCEPT ![p] = in[k]]
        /\ UNCHANGED <<array, in, step, sorting>>
    BY DEF SortIInv, Takes
  <2>2. DOMAIN out' = DOMAIN out /\ out' = [n \in DOMAIN out |-> out'[n]]
    BY <2>1
  <2> QED BY <1>2, <2>1, <2>2 DEF Shape
<1>4. Place'
  <2>1. /\ l' \in i .. lmax /\ r' \in Nat /\ i + step <= r' /\ p' = p + 1
        /\ r' <= rmax \/ r' = i + step
        /\ l' + r' = l + r + 1
        /\ UNCHANGED <<array, in, step, i, sorting>>
    BY <1>2 DEF Takes
  <2>2. p' = l' + (r' - (i + step))
    BY <2>1, MergingFits
  <2> QED BY <1>2, <2>1, <2>2 DEF Place, SortIInv
<1> QED BY <1>3, <1>4

LEMMA TakeKeepsRuns ==
  ASSUME SortIInv, step < _len, NEW k, Takes(k)
  PROVE  RunsSorted(out', 2 * step, p + 1)
<1> DEFINE appended == [out EXCEPT ![p] = in[k]]
           length == 2 * step
<1>1. /\ _len \in Nat /\ length \in Nat \ {0} /\ i \in Nat /\ p \in Nat
      /\ i <= p /\ p < i + length /\ p < _len
  BY MergingFits DEF Takes, Unread
<1>2. i % length = 0 /\ DOMAIN out = 0 .. _len - 1
  BY DEF SortIInv, Shape, Place
<1>3. sorting
  BY MergingFits DEF SortIInv, Shape, Place
<1>4. RunsSorted(out, length, p)
  BY <1>3 DEF SortIInv, SortInv
<1>5. \A m \in i .. p - 1 : ~Precedes(in[k], out[m])
  BY <1>3 DEF SortIInv, SortInv, Takes, Unread
<1>6. out' = appended /\ appended[p] = in[k] /\ \A n \in 0 .. p - 1 : appended[n] = out[n]
  BY <1>1, <1>2 DEF Takes
<1> HIDE DEF appended, length
<1>7. ASSUME NEW start \in 0 .. p + 1, start % length = 0
      PROVE  SortedIn(appended, start, IF start + length > p + 1 THEN p
                                                                 ELSE start + length - 1)
  <2>1. start + length <= i \/ start = i \/ start >= i + length
    <3>1. start \in Int /\ i \in Int /\ length \in Nat \ {0}
      BY <1>1, <1>7
    <3>2. start < i => start + length <= i
      BY <1>2, <1>7, <3>1, NextMultiple
    <3>3. i < start => i + length <= start
      BY <1>2, <1>7, <3>1, NextMultiple
    <3> QED BY <3>1, <3>2, <3>3
  <2>2. CASE start + length <= i
    <3>1. SortedIn(out, start, start + length - 1)
      BY <1>1, <1>4, <1>7, <2>2 DEF RunsSorted
    <3>2. \A n \in start .. start + length - 1 : appended[n] = out[n]
      BY <1>1, <1>6, <1>7, <2>2
    <3> QED BY <1>1, <1>7, <2>2, <3>1, <3>2 DEF SortedIn
  <2>3. CASE start = i
    <3>1. SortedIn(out, i, p - 1)
      BY <1>1, <1>4, <1>7, <2>3 DEF RunsSorted
    <3>2. ASSUME NEW m \in i .. p, NEW n \in i .. p, m < n
          PROVE  ~Precedes(appended[n], appended[m])
      <4>1. appended[m] = out[m] /\ m \in i .. p - 1
        BY <1>1, <1>6, <3>2
      <4>2. CASE n = p
        BY <1>5, <1>6, <4>1, <4>2
      <4>3. CASE n # p
        <5>1. appended[n] = out[n] /\ n \in i .. p - 1
          BY <1>1, <1>6, <3>2, <4>3
        <5> QED BY <3>1, <3>2, <4>1, <5>1 DEF SortedIn
      <4> QED BY <4>2, <4>3
    <3>3. (IF start + length > p + 1 THEN p ELSE start + length - 1) = p
      BY <1>1, <2>3
    <3> QED BY <2>3, <3>2, <3>3 DEF SortedIn
  <2>4. CASE start >= i + length
    BY <1>1, <1>7, <2>4 DEF SortedIn
  <2> QED BY <2>1, <2>2, <2>3, <2>4
<1>8. RunsSorted(appended, length, p + 1)
  <2>1. PICK end \in Nat : end = p + 1
    BY <1>1
  <2>2. end - 1 = p
    BY <1>1, <2>1
  <2>3. RunsSorted(appended, length, end)
    BY <1>7, <2>1, <2>2 DEF RunsSorted
  <2> QED BY <2>1, <2>3
<1> QED BY <1>6, <1>8 DEF length

LEMMA TakeKeepsSort ==
  ASSUME SortIInv, step < _len, NEW k, Takes(k)
  PROVE  SortIInv'
<1>1. Shape' /\ Place'
  BY TakeKeepsPlace
<1>2. /\ _len' = _len /\ lmax' = lmax /\ rmax' = rmax
      /\ UNCHANGED <<array, in, step, i, sorting>> /\ p' = p + 1
  BY DEF Takes, lmax, rmax, Clipped, _len
<1>3. p \in Nat /\ p < _len /\ sorting /\ k \in 0 .. _len - 1 /\ in[k] \in Element
  <2>1. k \in Unread
    BY DEF Takes
  <2>2. k \in 0 .. _len - 1 /\ in[k] \in Element
    BY <2>1, UnreadTypes
  <2>3. p \in Nat /\ p < _len
    BY <2>1, MergingFits DEF Unread
  <2>4. sorting
    BY DEF SortIInv, Shape, Place
  <2> QED BY <2>2, <2>3, <2>4
<1>4. DOMAIN out = 0 .. _len - 1 /\ _len \in Nat
  BY DEF SortIInv, Shape
<1>5. out' = [out EXCEPT ![p] = in[k]]
  BY DEF Takes
<1>6. out'[p] = in[k] /\ \A n \in 0 .. p - 1 : out'[n] = out[n]
  BY <1>3, <1>4, <1>5
<1>7. Range(in') = Range(array') /\ RunsSorted(in', step', _len')
  BY <1>2 DEF SortIInv, SortInv
<1>8. p' <= _len' /\ l' <= lmax'
  BY <1>2, <1>3, MergingFits DEF Takes
<1>9. Image(out', 0 .. p' - 1) = Image(in', Read')
  <2>1. Image(out, 0 .. p - 1) = Image(in, Read)
    BY <1>3 DEF SortIInv, SortInv, Read
  <2>2. 0 .. p' - 1 = 0 .. p - 1 \cup {p}
    BY <1>2, <1>3
  <2>3. Read' = Read \cup {k}
    BY DEF Takes
  <2>4. Image(out', 0 .. p' - 1) = Image(out, 0 .. p - 1) \cup {in[k]}
    BY <1>6, <2>2 DEF Image
  <2>5. Image(in', Read') = Image(in, Read) \cup {in[k]}
    BY <1>2, <2>3 DEF Image
  <2> QED BY <2>1, <2>4, <2>5
<1>10. RunsSorted(out', 2 * step', p')
  BY <1>2, TakeKeepsRuns
<1>11. ASSUME NEW m \in i' .. p' - 1, NEW n \in Unread'
       PROVE  ~Precedes(in'[n], out'[m])
  <2>1. n \in Unread /\ in' = in
    BY <1>2, <1>11 DEF Takes
  <2>2. CASE m = p
    BY <1>6, <2>1, <2>2 DEF Takes
  <2>3. CASE m # p
    <3>1. m \in i .. p - 1 /\ m \in 0 .. p - 1
      BY <1>2, <1>3, <1>11, <2>3, MergingFits
    <3>2. ~Precedes(in[n], out[m])
      BY <1>3, <2>1, <3>1 DEF SortIInv, SortInv, Unread
    <3> QED BY <1>6, <2>1, <3>1, <3>2
  <2> QED BY <2>2, <2>3
<1>12. SortInv'
  BY <1>7, <1>8, <1>9, <1>10, <1>11 DEF SortInv, Read, Unread
<1> QED BY <1>1, <1>12 DEF SortIInv

(* When both runs are used up, the pair has been merged. *)
LEMMA PairMerged ==
  ASSUME SortIInv, PairDone
  PROVE  /\ p = rmax /\ Read = 0 .. rmax - 1
         /\ RunsSorted(out, 2 * step, rmax)
         /\ Image(out, 0 .. rmax - 1) = Image(in, 0 .. rmax - 1)
<1>1. step < _len /\ l >= lmax /\ r >= rmax
  BY DEF PairDone
<1>2. sorting
  BY <1>1 DEF SortIInv, Shape, Place
<1>3. p = rmax /\ l = lmax
  BY <1>1, MergingFits
<1>4. Read = 0 .. rmax - 1
  BY <1>1, <1>3, MergingFits DEF Read
<1>5. Image(out, 0 .. p - 1) = Image(in, Read) /\ RunsSorted(out, 2 * step, p)
  BY <1>1, <1>2 DEF SortIInv, SortInv, Read
<1> QED BY <1>3, <1>4, <1>5

LEMMA NextPairKeepsSort ==
  ASSUME SortIInv, NextPair
  PROVE  SortIInv'
<1>1. /\ PairDone /\ step < _len /\ i + 2 * step < _len
      /\ i' = i + 2 * step /\ p' = i + 2 * step /\ l' = i + 2 * step
      /\ r' = i + 2 * step + step
      /\ UNCHANGED <<array, in, out, step, sorting>> /\ _len' = _len
  BY DEF NextPair, PairDone, StartPair, _len
<1>2. /\ step \in Nat \ {0} /\ i \in Nat /\ _len \in Nat /\ i % (2 * step) = 0
      /\ rmax = i + 2 * step
  BY <1>1, MergingFits DEF SortIInv, Place
<1>3. i' % (2 * step') = 0
  BY <1>1, <1>2, RunStarts
<1>4. Shape'
  BY <1>1 DEF Shape, SortIInv
<1>5. lmax' \in Nat /\ lmax' >= i'
  BY <1>1, <1>2 DEF lmax, Clipped
<1>6. Place'
  <2>1. i' \in 0 .. _len' - 1 /\ l' \in i' .. lmax'
    BY <1>1, <1>2, <1>5
  <2>2. r' \in Nat /\ r' = i' + step' /\ p' = l' + (r' - (i' + step'))
    BY <1>1, <1>2
  <2>3. i' + step' <= r'
    BY <1>1, <1>2
  <2>4. ~sorting' => step' >= _len'
    BY <1>1 DEF SortIInv, Place
  <2> QED BY <1>3, <2>1, <2>2, <2>3, <2>4 DEF Place
<1>7. Image(out', 0 .. p' - 1) = Image(in', Read')
  <2>1. Read' = 0 .. rmax - 1
    BY <1>1, <1>2 DEF Read
  <2> QED BY <1>1, <1>2, <2>1, PairMerged
<1>8. RunsSorted(out', 2 * step', p')
  BY <1>1, <1>2, PairMerged
<1>9. i' .. p' - 1 = {}
  BY <1>1, <1>2
<1>10. Range(in') = Range(array') /\ RunsSorted(in', step', _len')
  BY <1>1 DEF SortIInv, SortInv
<1>11. p' <= _len' /\ l' <= lmax'
  BY <1>1, <1>2, <1>5
<1>12. SortInv'
  BY <1>7, <1>8, <1>9, <1>10, <1>11 DEF SortInv, Read
<1> QED BY <1>4, <1>6, <1>12 DEF SortIInv

LEMMA RangeIsImage ==
  ASSUME NEW f, DOMAIN f = 0 .. _len - 1
  PROVE  Range(f) = Image(f, 0 .. _len - 1)
BY DEF Range, Image

LEMMA NextPassKeepsSort ==
  ASSUME SortIInv, NextPass
  PROVE  SortIInv'
<1>1. /\ PairDone /\ step < _len /\ i + 2 * step >= _len
      /\ in' = out /\ out' = in /\ step' = 2 * step
      /\ i' = 0 /\ p' = 0 /\ l' = 0 /\ r' = 0 + 2 * step
      /\ UNCHANGED <<array, sorting>> /\ _len' = _len
  BY DEF NextPass, PairDone, StartPair, _len
<1>2. step \in Nat \ {0} /\ _len \in Nat /\ rmax = _len /\ step' \in Nat \ {0}
  <2>1. step \in Nat \ {0} /\ _len \in Nat /\ rmax = _len
    BY <1>1, MergingFits
  <2>2. step' \in Nat \ {0}
    BY <1>1, <2>1
  <2> QED BY <2>1, <2>2
<1>15. PICK length \in Nat \ {0} : 2 * step' = length
  <2>1. 2 * (2 * step) \in Nat \ {0} /\ 2 * step' = 2 * (2 * step)
    BY <1>1, <1>2
  <2> QED BY <2>1
<1>3. /\ array \in [0 .. _len - 1 -> Element] /\ in \in [0 .. _len - 1 -> Element]
      /\ DOMAIN out = 0 .. _len - 1 /\ out = [n \in 0 .. _len - 1 |-> out[n]]
      /\ sorting \in BOOLEAN
  BY DEF SortIInv, Shape
<1>4. Image(out, 0 .. _len - 1) = Image(in, 0 .. _len - 1)
  BY <1>1, <1>2, PairMerged
<1>5. out \in [0 .. _len - 1 -> Element]
  <2>1. ASSUME NEW n \in 0 .. _len - 1
        PROVE  out[n] \in Element
    <3>1. out[n] \in Image(in, 0 .. _len - 1)
      BY <1>4 DEF Image
    <3> QED BY <1>3, <3>1 DEF Image
  <2> QED BY <1>3, <2>1
<1>6. Shape'
  <2>1. DOMAIN in = 0 .. _len - 1 /\ in = [n \in 0 .. _len - 1 |-> in[n]]
    BY <1>3
  <2> QED BY <1>1, <1>2, <1>3, <1>5, <2>1 DEF Shape
<1>7. lmax' \in Nat
  BY <1>1, <1>2 DEF lmax, Clipped
<1>8. Place'
  <2>1. step' < _len' => i' \in 0 .. _len' - 1 /\ l' \in i' .. lmax'
    BY <1>1, <1>2, <1>7
  <2>2. r' \in Nat /\ r' = i' + step' /\ i' + step' <= r'
        /\ p' = l' + (r' - (i' + step'))
    BY <1>1, <1>2
  <2>3. i' % (2 * step') = 0
    <3>1. (length * 0 + 0) % length = 0 /\ length * 0 + 0 = 0
      BY Quotient
    <3> QED BY <1>1, <1>15, <3>1
  <2>4. sorting
    BY <1>1 DEF SortIInv, Shape, Place
  <2> QED BY <1>1, <2>1, <2>2, <2>3, <2>4 DEF Place
<1>9. Range(in') = Range(array')
  <2>1. Range(out) = Range(in)
    BY <1>3, <1>4, RangeIsImage
  <2> QED BY <1>1, <2>1 DEF SortIInv, SortInv
<1>10. RunsSorted(in', step', _len')
  BY <1>1, <1>2, PairMerged
<1>11. Image(out', 0 .. p' - 1) = Image(in', Read')
  <2>1. 0 .. p' - 1 = {} /\ Read' = {}
    BY <1>1, <1>2 DEF Read
  <2> QED BY <2>1 DEF Image
<1>12. RunsSorted(out', 2 * step', p')
  <2>1. p' = 0
    BY <1>1
  <2>2. ASSUME NEW start \in 0 .. 0
        PROVE  SortedIn(out', start, IF start + length > 0 THEN 0 - 1
                                     ELSE start + length - 1)
    <3>1. start = 0 /\ start + length > 0 /\ start .. 0 - 1 = {}
      OBVIOUS
    <3> QED BY <3>1 DEF SortedIn
  <2>3. RunsSorted(out', length, 0)
    BY <2>2 DEF RunsSorted
  <2> QED BY <1>15, <2>1, <2>3
<1>13. i' .. p' - 1 = {} /\ p' <= _len' /\ l' <= lmax'
  BY <1>1, <1>2, <1>7
<1>14. SortInv'
  BY <1>9, <1>10, <1>11, <1>12, <1>13 DEF SortInv, Read
<1> QED BY <1>6, <1>8, <1>14 DEF SortIInv

(* One run is left: it is the array. *)
LEMMA SortedAtEnd ==
  ASSUME SortIInv, PutBack
  PROVE  /\ SortedIn(array', 0, _len - 1)
         /\ DOMAIN array' = DOMAIN array
         /\ Range(array') = Range(array)
<1>1. array' = in /\ step >= _len
  BY DEF PutBack
<1>2. /\ _len \in Nat /\ step \in Nat \ {0} /\ DOMAIN in = 0 .. _len - 1
      /\ DOMAIN array = 0 .. _len - 1
  BY DEF SortIInv, Shape
<1>3. RunsSorted(in, step, _len) /\ Range(in) = Range(array)
  BY DEF SortIInv, SortInv
<1>4. 0 % step = 0
  <2>1. (step * 0 + 0) % step = 0
    BY <1>2, Quotient
  <2> QED BY <1>2, <2>1
<1>5. SortedIn(in, 0, IF 0 + step > _len THEN _len - 1 ELSE 0 + step - 1)
  BY <1>2, <1>3, <1>4 DEF RunsSorted
<1>6. (IF 0 + step > _len THEN _len - 1 ELSE 0 + step - 1) = _len - 1
  BY <1>1, <1>2
<1> QED BY <1>1, <1>2, <1>3, <1>5, <1>6

LEMMA PutBackKeepsSort ==
  ASSUME SortIInv, PutBack
  PROVE  SortIInv'
<1>1. /\ array' = in /\ step >= _len /\ sorting' = FALSE
      /\ UNCHANGED <<in, out, step, i, p, l, r>>
  BY DEF PutBack
<1>2. Shape
  BY DEF SortIInv
<1>3. _len' = _len
  <2>1. DOMAIN array' = DOMAIN array
    BY SortedAtEnd
  <2> QED BY <2>1 DEF _len
<1>4. Shape'
  <2>1. sorting' \in BOOLEAN /\ in' = in /\ out' = out /\ step' = step
    BY <1>1
  <2> QED BY <1>1, <1>2, <1>3, <2>1 DEF Shape
<1>6. Place'
  <2>1. step \in Nat /\ _len \in Nat /\ step' = step
    BY <1>1, <1>2 DEF Shape
  <2>2. ~(step' < _len') /\ step' >= _len'
    BY <1>1, <1>3, <2>1
  <2> QED BY <2>2 DEF Place
<1>5. SortInv'
  BY <1>1, <1>3 DEF SortIInv, SortInv
<1> QED BY <1>4, <1>5, <1>6 DEF SortIInv

LEMMA SortInitial == SortInit => SortIInv
<1> SUFFICES ASSUME SortInit PROVE SortIInv
  OBVIOUS
<1>1. PICK total \in 0 .. MaxLen : \E keys \in [0 .. total - 1 -> SortKey] :
        array = [n \in 0 .. total - 1 |-> <<keys[n], n>>]
  BY DEF SortInit, Arrays
<1>2. /\ in = array /\ out = [n \in DOMAIN array |-> Unset] /\ step = 1 /\ i = 0
      /\ p = 0 /\ l = 0 /\ r = 1 /\ sorting = TRUE
  BY DEF SortInit
<1>3. total \in Nat /\ DOMAIN array = 0 .. total - 1
  BY <1>1, MaxLenAssumption
<1>4. _len = total
  <2>1. Cardinality(0 .. total - 1) = total
    BY <1>3, FS_Interval
  <2> QED BY <1>3, <2>1 DEF _len
<1>5. array \in [0 .. total - 1 -> Element]
  BY <1>1, <1>3 DEF Element
<1>6. Shape
  BY <1>2, <1>3, <1>4, <1>5 DEF Shape
<1>7. Place
  BY <1>2, <1>3, <1>4 DEF Place, lmax, rmax, Clipped
<1>8. RunsSorted(in, step, _len)
  BY <1>2, <1>3, <1>4 DEF RunsSorted, SortedIn
<1>9. /\ p <= _len /\ l <= lmax /\ i .. p - 1 = {}
      /\ 0 .. p - 1 = {} /\ Read = {}
  BY <1>2, <1>3, <1>4 DEF Read, lmax, Clipped
<1>10. Image(out, 0 .. p - 1) = Image(in, Read)
  BY <1>9 DEF Image
<1>11. RunsSorted(out, 2 * step, p)
  BY <1>2 DEF RunsSorted, SortedIn
<1>12. SortInv
  BY <1>2, <1>8, <1>9, <1>10, <1>11 DEF SortInv, Read
<1> QED BY <1>6, <1>7, <1>12 DEF SortIInv

LEMMA SortStep == SortIInv /\ [SortNext]_sortVars => SortIInv'
<1> SUFFICES ASSUME SortIInv, [SortNext]_sortVars PROVE SortIInv'
  OBVIOUS
<1>1. CASE TakeLeft
  BY <1>1, LeftTakes, TakeKeepsSort DEF TakeLeft
<1>2. CASE TakeRight
  BY <1>2, RightTakes, TakeKeepsSort DEF TakeRight
<1>3. CASE NextPair
  BY <1>3, NextPairKeepsSort
<1>4. CASE NextPass
  BY <1>4, NextPassKeepsSort
<1>5. CASE PutBack
  BY <1>5, PutBackKeepsSort
<1>6. CASE UNCHANGED sortVars
  BY <1>6 DEF sortVars, SortIInv, Shape, Place, SortInv, lmax, rmax, Clipped, _len
<1> QED BY <1>1, <1>2, <1>3, <1>4, <1>5, <1>6 DEF SortNext

(* Every turn of the loops of sort_in_place (arr.h) keeps the runs sorted  *)
(* and the elements together, and stays inside the array.                  *)
THEOREM SortInvCorrect == SortSpec => []SortInv
<1>1. SortIInv => SortInv
  BY DEF SortIInv
<1> QED BY <1>1, SortInitial, SortStep, PTL DEF SortSpec

(* sort_in_place (arr.h) sorts an array of any length, and keeps all of    *)
(* its elements.                                                           *)
THEOREM SortsArrayCorrect == SortSpec => SortsArray
<1>1. SortIInv /\ [SortNext]_sortVars
        => [PutBack => /\ SortedIn(array', 0, _len - 1)
                       /\ DOMAIN array' = DOMAIN array
                       /\ Range(array') = Range(array)]_sortVars
  BY SortedAtEnd
<1> QED BY <1>1, SortInitial, SortStep, PTL DEF SortSpec, SortsArray

-----------------------------------------------------------------------------
(* Bit sets: where an element is. *)

LEMMA Locate ==
  ASSUME NEW w \in Nat, NEW j \in Word
  PROVE  /\ w * WordBits + j \in Nat
         /\ (w * WordBits + j) \div WordBits = w
         /\ (w * WordBits + j) % WordBits = j
<1>1. WordBits \in Nat \ {0} /\ j \in 0 .. WordBits - 1
  BY WordBitsAssumption DEF Word
<1>2. w * WordBits = WordBits * w /\ w * WordBits \in Nat
  BY <1>1
<1>3. (WordBits * w + j) % WordBits = j /\ (WordBits * w + j) \div WordBits = w
  BY <1>1, Quotient
<1> QED BY <1>1, <1>2, <1>3

LEMMA Located ==
  ASSUME NEW k \in Nat
  PROVE  /\ k \div WordBits \in Nat /\ k % WordBits \in Word
         /\ (k \div WordBits) * WordBits + (k % WordBits) = k
<1>1. WordBits \in Nat \ {0}
  BY WordBitsAssumption
<1>2. /\ k % WordBits \in 0 .. WordBits - 1 /\ k \div WordBits \in Int
      /\ k = WordBits * (k \div WordBits) + (k % WordBits)
  BY <1>1, Division
<1> DEFINE q == k \div WordBits
           d == k % WordBits
<1>3. d \in 0 .. WordBits - 1 /\ q \in Int /\ k = WordBits * q + d
  BY <1>2
<1> HIDE DEF q, d
<1>4. q >= 0
  <2> SUFFICES ASSUME q < 0 PROVE FALSE
    BY <1>3
  <2>1. WordBits * (0 - 1 - q) >= 0
    BY <1>1, <1>3
  <2>2. WordBits * (0 - 1 - q) = 0 - WordBits - WordBits * q
    BY <1>1, <1>3
  <2> QED BY <1>1, <1>3, <2>1, <2>2
<1>5. q * WordBits = WordBits * q
  BY <1>1, <1>3
<1> QED BY <1>3, <1>4, <1>5 DEF q, d, Word

(* The words hold the bits, and the last one has less than a word to spare. *)
LEMMA MemSize ==
  ASSUME NEW n \in Nat
  PROVE  /\ MEMSIZE(n) \in Nat /\ n <= MEMSIZE(n) * WordBits
         /\ MEMSIZE(n) * WordBits < n + WordBits
<1>1. WordBits \in Nat \ {0} /\ n + WordBits - 1 \in Nat
  BY WordBitsAssumption
<1> DEFINE k == n + WordBits - 1
           q == k \div WordBits
           d == k % WordBits
<1>2. q \in Nat /\ d \in Word /\ q * WordBits + d = k
  <2>1. k \in Nat
    BY <1>1
  <2> HIDE DEF k
  <2> QED BY <2>1, Located
<1>3. MEMSIZE(n) = q
  BY DEF MEMSIZE
<1> HIDE DEF q, d
<1>4. q * WordBits \in Nat
  BY <1>1, <1>2
<1> QED BY <1>1, <1>2, <1>3, <1>4 DEF k, Word

LEMMA Factor ==
  ASSUME NEW a \in Nat, NEW b \in Nat, NEW n \in Nat \ {0}
  PROVE  a * n < b * n <=> a < b
<1>1. a * n \in Nat /\ b * n \in Nat
  OBVIOUS
<1>2. ASSUME a < b PROVE a * n < b * n
  <2>1. (b - a) * n >= n /\ (b - a) * n = b * n - a * n
    BY <1>2
  <2> QED BY <1>1, <2>1
<1>3. ASSUME b <= a PROVE b * n <= a * n
  <2>1. (a - b) * n >= 0 /\ (a - b) * n = a * n - b * n
    BY <1>3
  <2> QED BY <1>1, <2>1
<1> QED BY <1>1, <1>2, <1>3

(* An element below n has its word among those of n bits. *)
LEMMA WordExists ==
  ASSUME NEW n \in Nat, NEW k \in Nat, k < n
  PROVE  k \div WordBits \in 0 .. MEMSIZE(n) - 1
<1> DEFINE w == k \div WordBits
<1>1. WordBits \in Nat \ {0}
  BY WordBitsAssumption
<1>2. w \in Nat /\ k % WordBits \in Word /\ w * WordBits + (k % WordBits) = k
  BY Located
<1> DEFINE d == k % WordBits
<1>3. d \in Nat /\ w * WordBits + d = k
  BY <1>1, <1>2 DEF Word
<1> HIDE DEF w, d
<1>4. MEMSIZE(n) \in Nat /\ n <= MEMSIZE(n) * WordBits
  BY MemSize
<1>5. w * WordBits \in Nat /\ MEMSIZE(n) * WordBits \in Nat
  BY <1>1, <1>2, <1>4
<1>6. w * WordBits < MEMSIZE(n) * WordBits
  BY <1>3, <1>4, <1>5
<1>7. w < MEMSIZE(n)
  BY <1>1, <1>2, <1>4, <1>6, Factor
<1> QED BY <1>2, <1>4, <1>7 DEF w

LEMMA MoreWords ==
  ASSUME NEW m \in Nat, NEW n \in Nat, m <= n
  PROVE  MEMSIZE(m) <= MEMSIZE(n)
<1>1. WordBits \in Nat \ {0}
  BY WordBitsAssumption
<1>2. /\ MEMSIZE(m) \in Nat /\ MEMSIZE(m) * WordBits < m + WordBits
      /\ MEMSIZE(n) \in Nat /\ n <= MEMSIZE(n) * WordBits
  BY MemSize
<1> DEFINE a == MEMSIZE(m)
           b == MEMSIZE(n)
<1>3. a \in Nat /\ a * WordBits < m + WordBits /\ b \in Nat /\ n <= b * WordBits
  BY <1>2
<1> HIDE DEF a, b
<1>4. (b + 1) * WordBits = b * WordBits + WordBits /\ b * WordBits \in Nat
      /\ a * WordBits \in Nat
  BY <1>1, <1>3
<1>5. a * WordBits < (b + 1) * WordBits
  BY <1>1, <1>3, <1>4
<1>6. a < b + 1
  BY <1>1, <1>3, <1>5, Factor
<1> QED BY <1>3, <1>6 DEF a, b

(* A set in its words: exactly those it needs, and no bit past the last    *)
(* element.                                                                *)
WellFormed(b) ==
    /\ b = [bits |-> b.bits, data |-> b.data] /\ b.bits \in Nat
    /\ b.data \in [0 .. MEMSIZE(b.bits) - 1 -> SUBSET Word]
    /\ \A w \in 0 .. MEMSIZE(b.bits) - 1 : \A j \in b.data[w] :
          w * WordBits + j < b.bits

LEMMA Members ==
  ASSUME NEW b, WellFormed(b)
  PROVE  /\ b.bits \in Nat /\ Words(b) = 0 .. MEMSIZE(b.bits) - 1
         /\ \A k \in 0 .. b.bits - 1 :
               /\ k \div WordBits \in Words(b) /\ k \div WordBits \in Nat
               /\ k % WordBits \in Word
         /\ \A w \in Words(b) :
               /\ w \in Nat /\ b.data[w] \subseteq Word
               /\ \A j \in b.data[w] : w * WordBits + j \in Elements(b)
<1>1. /\ b.bits \in Nat /\ Words(b) = 0 .. MEMSIZE(b.bits) - 1
      /\ \A w \in Words(b) : w \in Nat /\ b.data[w] \subseteq Word
  BY MemSize DEF WellFormed, Words
<1>2. ASSUME NEW k \in 0 .. b.bits - 1
      PROVE  /\ k \div WordBits \in Words(b) /\ k \div WordBits \in Nat
             /\ k % WordBits \in Word
  <2>1. k \in Nat /\ k < b.bits
    BY <1>1
  <2> QED BY <1>1, <2>1, WordExists, Located
<1>3. ASSUME NEW w \in Words(b), NEW j \in b.data[w]
      PROVE  w * WordBits + j \in Elements(b)
  <2> DEFINE k == w * WordBits + j
  <2>1. w \in Nat /\ j \in Word /\ k < b.bits
    BY <1>1, <1>3 DEF WellFormed
  <2>2. k \in Nat /\ k \div WordBits = w /\ k % WordBits = j
    BY <2>1, Locate
  <2> HIDE DEF k
  <2>3. k \in Elements(b)
    BY <1>1, <1>3, <2>1, <2>2 DEF Elements, test
  <2> QED BY <2>3 DEF k
<1> QED BY <1>1, <1>2, <1>3

LEMMA CountIsSize ==
  ASSUME NEW b, WellFormed(b)
  PROVE  count(b) = Cardinality(Elements(b))
<1> DEFINE S == Elements(b)
           P == {q \in Words(b) \X Word : q[2] \in b.data[q[1]]}
           f == [k \in S |-> <<k \div WordBits, k % WordBits>>]
<1>1. S \subseteq 0 .. b.bits - 1 /\ \A k \in S : k % WordBits \in b.data[k \div WordBits]
  BY DEF Elements, test
<1>2. b.bits \in Nat
  BY Members
<1>3. IsFiniteSet(S)
  <2>1. IsFiniteSet(0 .. b.bits - 1)
    BY <1>2, FS_Interval
  <2> QED BY <1>1, <2>1, FS_Subset
<1>4. ASSUME NEW k \in S
      PROVE  f[k] \in P
  BY <1>1, <1>4, Members
<1>5. ASSUME NEW k \in S, NEW m \in S, f[k] = f[m]
      PROVE  k = m
  <2>1. k \in Nat /\ m \in Nat
    BY <1>1, <1>2, <1>5
  <2>2. k \div WordBits = m \div WordBits /\ k % WordBits = m % WordBits
    BY <1>5
  <2> QED BY <2>1, <2>2, Located
<1>6. ASSUME NEW q \in P
      PROVE  \E k \in S : f[k] = q
  <2>1. PICK w \in Words(b), j \in Word : q = <<w, j>> /\ j \in b.data[w]
    BY <1>6
  <2> DEFINE k == w * WordBits + j
  <2>2. k \in S /\ w \in Nat
    BY <2>1, Members
  <2>3. k \div WordBits = w /\ k % WordBits = j
    BY <2>1, <2>2, Locate
  <2> HIDE DEF k
  <2> QED BY <2>1, <2>2, <2>3
<1> HIDE DEF S, P
<1>7. f \in Bijection(S, P)
  <2>1. f \in [S -> P]
    BY <1>4
  <2> HIDE DEF f
  <2>2. IsInjective(f)
    BY <1>5, <2>1 DEF IsInjective
  <2>3. f \in Injection(S, P) /\ f \in Surjection(S, P)
    BY <1>6, <2>1, <2>2 DEF Injection, Surjection
  <2> QED BY <2>3 DEF Bijection
<1>8. Cardinality(P) = Cardinality(S)
  BY <1>3, <1>7, FS_Bijection DEF ExistsBijection
<1> QED BY <1>8 DEF count, P, S

LEMMA NewBits ==
  ASSUME NEW n \in Nat
  PROVE  WellFormed(new(n)) /\ new(n).bits = n
BY DEF WellFormed, new

LEMMA ExpandKeeps ==
  ASSUME NEW b, WellFormed(b), NEW n \in Nat
  PROVE  /\ WellFormed(expand(b, n)) /\ Elements(expand(b, n)) = Elements(b)
         /\ expand(b, n).bits = IF n > b.bits THEN n ELSE b.bits
<1>1. CASE ~(n > b.bits)
  BY <1>1 DEF expand
<1>2. CASE n > b.bits
  <2> DEFINE e == resize(b, n)
  <2>1. expand(b, n) = e
    BY <1>2 DEF expand
  <2>2. /\ e.bits = n /\ e.data \in [0 .. MEMSIZE(n) - 1 -> SUBSET Word]
        /\ e = [bits |-> e.bits, data |-> e.data]
        /\ \A w \in 0 .. MEMSIZE(n) - 1 :
              e.data[w] = IF w \in Words(b) THEN b.data[w] ELSE {}
    BY Members DEF resize
  <2>3. Words(b) = 0 .. MEMSIZE(b.bits) - 1 /\ b.bits \in Nat
    BY Members
  <2>4. Words(b) \subseteq 0 .. MEMSIZE(n) - 1
    <3>1. MEMSIZE(b.bits) <= MEMSIZE(n)
      BY <1>2, <2>3, MoreWords
    <3>2. MEMSIZE(b.bits) \in Nat /\ MEMSIZE(n) \in Nat
      BY <2>3, MemSize
    <3> QED BY <2>3, <3>1, <3>2
  <2> HIDE DEF e
  <2>5. WellFormed(e)
    <3>1. ASSUME NEW w \in 0 .. MEMSIZE(n) - 1, NEW j \in e.data[w]
          PROVE  w * WordBits + j < n
      <4>1. w \in Words(b) /\ j \in b.data[w]
        BY <2>2, <3>1
      <4>2. w * WordBits + j \in 0 .. b.bits - 1
        BY <4>1, Members DEF Elements
      <4> QED BY <1>2, <2>3, <4>2
    <3> QED BY <2>2, <3>1 DEF WellFormed
  <2>6. Elements(e) = Elements(b)
    <3>1. ASSUME NEW k \in Elements(b)
          PROVE  k \in Elements(e)
      <4>1. k \in 0 .. b.bits - 1 /\ k % WordBits \in b.data[k \div WordBits]
        BY DEF Elements, test
      <4>2. k \div WordBits \in Words(b)
        BY <4>1, Members
      <4>3. k \in 0 .. n - 1
        BY <1>2, <2>3, <4>1
      <4> QED BY <2>2, <2>4, <4>1, <4>2, <4>3 DEF Elements, test
    <3>2. ASSUME NEW k \in Elements(e)
          PROVE  k \in Elements(b)
      <4> DEFINE w == k \div WordBits
                 j == k % WordBits
      <4>1. k \in 0 .. n - 1 /\ j \in e.data[w]
        BY <2>2 DEF Elements, test
      <4>2. w \in 0 .. MEMSIZE(n) - 1 /\ w * WordBits + j = k
        <5>1. k \in Nat /\ k < n
          BY <4>1
        <5> QED BY <5>1, WordExists, Located
      <4> HIDE DEF w, j
      <4>3. w \in Words(b) /\ j \in b.data[w]
        BY <2>2, <4>1, <4>2
      <4> QED BY <4>2, <4>3, Members
    <3> QED BY <3>1, <3>2
  <2> QED BY <1>2, <2>1, <2>2, <2>5, <2>6
<1> QED BY <1>1, <1>2

(* An operation on words that keeps to the elements is one on sets: each   *)
(* element is in the new word exactly if it is in the new set.             *)
LEMMA WordWise ==
  ASSUME NEW b, WellFormed(b), NEW F, F \in [Words(b) -> SUBSET Word],
         NEW E, E \subseteq 0 .. b.bits - 1,
         \A w \in Words(b) : \A j \in Word :
            j \in F[w] <=> w * WordBits + j \in E
  PROVE  LET c == [b EXCEPT !.data = F] IN
         WellFormed(c) /\ Elements(c) = E /\ c.bits = b.bits
<1> DEFINE c == [b EXCEPT !.data = F]
<1>5. c = [bits |-> c.bits, data |-> c.data] /\ c.bits = b.bits /\ c.data = F
  <2>1. PICK B, D : b = [bits |-> B, data |-> D]
    BY DEF WellFormed
  <2> QED BY <2>1
<1> HIDE DEF c
<1>1. Words(b) = 0 .. MEMSIZE(b.bits) - 1 /\ b.bits \in Nat
  BY Members
<1>2. WellFormed(c)
  <2>1. ASSUME NEW w \in Words(b), NEW j \in c.data[w]
        PROVE  w * WordBits + j < b.bits
    <3>1. j \in Word /\ w * WordBits + j \in 0 .. b.bits - 1
      BY <1>5, <2>1
    <3> QED BY <1>1, <3>1
  <2> QED BY <1>1, <1>5, <2>1 DEF WellFormed
<1>3. ASSUME NEW k \in 0 .. b.bits - 1
      PROVE  test(c, k) <=> k \in E
  <2> DEFINE w == k \div WordBits
             j == k % WordBits
  <2>1. k \in Nat
    BY <1>1
  <2>2. w \in Words(b) /\ j \in Word /\ w * WordBits + j = k
    BY <1>3, <2>1, Members, Located
  <2>3. test(c, k) <=> j \in c.data[w]
    BY DEF test
  <2> HIDE DEF w, j
  <2> QED BY <1>5, <2>2, <2>3
<1>4. Elements(c) = E
  BY <1>3, <1>5 DEF Elements
<1> QED BY <1>2, <1>4, <1>5 DEF c

LEMMA NewData ==
  ASSUME NEW b, b = [bits |-> b.bits, data |-> b.data], NEW F
  PROVE  [b EXCEPT !.data = F] = [bits |-> b.bits, data |-> F]
OBVIOUS

LEMMA InWords ==
  ASSUME NEW b, WellFormed(b), NEW w \in Words(b), NEW j \in Word
  PROVE  j \in b.data[w] <=> w * WordBits + j \in Elements(b)
<1> DEFINE k == w * WordBits + j
<1>1. w \in Nat
  BY Members
<1>2. k \in Nat /\ k \div WordBits = w /\ k % WordBits = j
  BY <1>1, Locate
<1>3. j \in b.data[w] => k \in Elements(b)
  BY Members
<1> HIDE DEF k
<1>4. k \in Elements(b) => j \in b.data[w]
  BY <1>2 DEF Elements, test
<1> QED BY <1>3, <1>4 DEF k

(* The argument has the words that the loop reads, and reaches no further  *)
(* than the receiver after expand.                                         *)
LEMMA ExpandFits ==
  ASSUME NEW b, WellFormed(b), NEW that, WellFormed(that), Fits(b, that)
  PROVE  LET e == expand(b, that.bits) IN
         /\ WellFormed(e) /\ Elements(e) = Elements(b)
         /\ e = [bits |-> e.bits, data |-> e.data]
         /\ e.data \in [Words(e) -> SUBSET Word]
         /\ that.bits <= e.bits /\ e.bits \in {b.bits, that.bits}
         /\ Words(e) \subseteq Words(that)
         /\ Elements(b) \subseteq 0 .. e.bits - 1
         /\ Elements(that) \subseteq 0 .. e.bits - 1
<1> DEFINE e == expand(b, that.bits)
<1>1. that.bits \in Nat /\ b.bits \in Nat
  BY Members
<1>2. /\ WellFormed(e) /\ Elements(e) = Elements(b)
      /\ e.bits = IF that.bits > b.bits THEN that.bits ELSE b.bits
  BY <1>1, ExpandKeeps
<1>3. Words(e) \subseteq Words(that)
  <2>1. CASE b.bits < that.bits
    BY <1>1, <1>2, <2>1, Members
  <2>2. CASE ~(b.bits < that.bits)
    <3>1. e = b
      BY <1>1, <2>2 DEF expand
    <3> QED BY <2>2, <3>1 DEF Fits
  <2> QED BY <2>1, <2>2
<1> HIDE DEF e
<1>4. /\ e = [bits |-> e.bits, data |-> e.data]
      /\ e.data \in [Words(e) -> SUBSET Word]
  BY <1>2 DEF WellFormed, Words
<1>5. Elements(b) \subseteq 0 .. e.bits - 1 /\ Elements(that) \subseteq 0 .. e.bits - 1
  BY <1>1, <1>2 DEF Elements
<1>6. that.bits <= e.bits /\ e.bits \in {b.bits, that.bits}
  BY <1>1, <1>2
<1> QED BY <1>2, <1>3, <1>4, <1>5, <1>6 DEF e

LEMMA OperationsRight ==
  ASSUME NEW b, WellFormed(b), NEW that, WellFormed(that), Fits(b, that)
  PROVE  /\ WellFormed(unionWords(b, that)) /\ WellFormed(intersectWords(b, that))
         /\ WellFormed(diffWords(b, that))
         /\ Elements(unionWords(b, that)) = Elements(b) \cup Elements(that)
         /\ Elements(intersectWords(b, that)) = Elements(b) \cap Elements(that)
         /\ Elements(diffWords(b, that)) = Elements(b) \ Elements(that)
         /\ unionWords(b, that).bits \in {b.bits, that.bits}
         /\ intersectWords(b, that).bits \in {b.bits, that.bits}
         /\ diffWords(b, that).bits \in {b.bits, that.bits}
<1> DEFINE e == expand(b, that.bits)
           U == [w \in Words(e) |-> e.data[w] \cup that.data[w]]
           I == [w \in Words(e) |-> e.data[w] \cap that.data[w]]
           D == [w \in Words(e) |-> e.data[w] \ that.data[w]]
<1>1. /\ WellFormed(e) /\ Elements(e) = Elements(b)
      /\ e.data \in [Words(e) -> SUBSET Word]
      /\ that.bits <= e.bits /\ e.bits \in {b.bits, that.bits}
      /\ Words(e) \subseteq Words(that)
      /\ Elements(b) \subseteq 0 .. e.bits - 1
      /\ Elements(that) \subseteq 0 .. e.bits - 1
  BY ExpandFits
<1>2. /\ unionWords(b, that) = [e EXCEPT !.data = U]
      /\ intersectWords(b, that) = [e EXCEPT !.data = I]
      /\ diffWords(b, that) = [e EXCEPT !.data = D]
  BY DEF unionWords, intersectWords, diffWords
<1> HIDE DEF e
<1>3. \A w \in Words(e) : w \in Words(that) /\ that.data[w] \subseteq Word
  BY <1>1, Members
<1>4. \A w \in Words(e) : \A j \in Word :
        /\ j \in e.data[w] <=> w * WordBits + j \in Elements(b)
        /\ j \in that.data[w] <=> w * WordBits + j \in Elements(that)
  BY <1>1, <1>3, InWords
<1>6. /\ U \in [Words(e) -> SUBSET Word] /\ I \in [Words(e) -> SUBSET Word]
      /\ D \in [Words(e) -> SUBSET Word]
  BY <1>1, <1>3
<1>7. LET c == [e EXCEPT !.data = U] IN
      WellFormed(c) /\ Elements(c) = Elements(b) \cup Elements(that) /\ c.bits = e.bits
  <2> DEFINE E == Elements(b) \cup Elements(that)
  <2>1. E \subseteq 0 .. e.bits - 1
    BY <1>1
  <2>2. \A w \in Words(e) : \A j \in Word :
          j \in U[w] <=> w * WordBits + j \in E
    BY <1>4
  <2> HIDE DEF E, U
  <2>3. LET c == [e EXCEPT !.data = U] IN
        WellFormed(c) /\ Elements(c) = E /\ c.bits = e.bits
    BY <1>1, <1>6, <2>1, <2>2, WordWise
  <2> QED BY <2>3 DEF E
<1>8. LET c == [e EXCEPT !.data = I] IN
      WellFormed(c) /\ Elements(c) = Elements(b) \cap Elements(that) /\ c.bits = e.bits
  <2> DEFINE E == Elements(b) \cap Elements(that)
  <2>1. E \subseteq 0 .. e.bits - 1
    BY <1>1
  <2>2. \A w \in Words(e) : \A j \in Word :
          j \in I[w] <=> w * WordBits + j \in E
    BY <1>4
  <2> HIDE DEF E, I
  <2>3. LET c == [e EXCEPT !.data = I] IN
        WellFormed(c) /\ Elements(c) = E /\ c.bits = e.bits
    BY <1>1, <1>6, <2>1, <2>2, WordWise
  <2> QED BY <2>3 DEF E
<1>9. LET c == [e EXCEPT !.data = D] IN
      WellFormed(c) /\ Elements(c) = Elements(b) \ Elements(that) /\ c.bits = e.bits
  <2> DEFINE E == Elements(b) \ Elements(that)
  <2>1. E \subseteq 0 .. e.bits - 1
    BY <1>1
  <2>2. \A w \in Words(e) : \A j \in Word :
          j \in D[w] <=> w * WordBits + j \in E
    BY <1>4
  <2> HIDE DEF E, D
  <2>3. LET c == [e EXCEPT !.data = D] IN
        WellFormed(c) /\ Elements(c) = E /\ c.bits = e.bits
    BY <1>1, <1>6, <2>1, <2>2, WordWise
  <2> QED BY <2>3 DEF E
<1> HIDE DEF U, I, D
<1> QED BY <1>1, <1>2, <1>7, <1>8, <1>9

LEMMA SetKeeps ==
  ASSUME NEW b, WellFormed(b), NEW k \in 0 .. b.bits - 1
  PROVE  /\ WellFormed(setBit(b, k)) /\ setBit(b, k).bits = b.bits
         /\ WellFormed(clear(b, k)) /\ clear(b, k).bits = b.bits
<1> DEFINE v == k \div WordBits
           m == k % WordBits
           Add == [b.data EXCEPT ![v] = @ \cup {m}]
           Del == [b.data EXCEPT ![v] = @ \ {m}]
<1>1. /\ b.bits \in Nat /\ v \in Words(b) /\ m \in Word /\ k \in Nat
      /\ b.data \in [Words(b) -> SUBSET Word]
  BY Members DEF WellFormed, Words
<1>2. v * WordBits + m = k
  BY <1>1, Located
<1>3. setBit(b, k) = [b EXCEPT !.data = Add] /\ clear(b, k) = [b EXCEPT !.data = Del]
  BY DEF setBit, clear, WellFormed
<1> HIDE DEF v, m
<1>4. Add \in [Words(b) -> SUBSET Word] /\ Del \in [Words(b) -> SUBSET Word]
  BY <1>1
<1>5. ASSUME NEW w \in Words(b), NEW j \in Word
      PROVE  w * WordBits + j = k <=> w = v /\ j = m
  <2>1. w \in Nat
    BY Members
  <2>2. w * WordBits + j = k => w = v /\ j = m
    BY <2>1, Locate DEF v, m
  <2> QED BY <1>2, <2>2
<1>6. ASSUME NEW w \in Words(b), NEW j \in Word
      PROVE  /\ j \in Add[w] <=> w * WordBits + j \in Elements(b) \cup {k}
             /\ j \in Del[w] <=> w * WordBits + j \in Elements(b) \ {k}
  <2>1. j \in b.data[w] <=> w * WordBits + j \in Elements(b)
    BY InWords
  <2>2. /\ j \in Add[w] <=> j \in b.data[w] \/ (w = v /\ j = m)
        /\ j \in Del[w] <=> j \in b.data[w] /\ ~(w = v /\ j = m)
    BY <1>1
  <2> QED BY <1>5, <2>1, <2>2
<1>7. Elements(b) \cup {k} \subseteq 0 .. b.bits - 1 /\ Elements(b) \ {k} \subseteq 0 .. b.bits - 1
  BY DEF Elements
<1> HIDE DEF Add, Del
<1>8. LET c == [b EXCEPT !.data = Add] IN WellFormed(c) /\ c.bits = b.bits
  <2> DEFINE E == Elements(b) \cup {k}
  <2>1. /\ E \subseteq 0 .. b.bits - 1
        /\ \A w \in Words(b) : \A j \in Word : j \in Add[w] <=> w * WordBits + j \in E
    BY <1>6, <1>7
  <2> HIDE DEF E
  <2> QED BY <1>4, <2>1, WordWise
<1>9. LET c == [b EXCEPT !.data = Del] IN WellFormed(c) /\ c.bits = b.bits
  <2> DEFINE E == Elements(b) \ {k}
  <2>1. /\ E \subseteq 0 .. b.bits - 1
        /\ \A w \in Words(b) : \A j \in Word : j \in Del[w] <=> w * WordBits + j \in E
    BY <1>6, <1>7
  <2> HIDE DEF E
  <2> QED BY <1>4, <2>1, WordWise
<1> QED BY <1>3, <1>8, <1>9

(* Where the last word is full, and how many of its bits count if it is    *)
(* not (complementWords, BitSet::complement_in_place).                     *)
LEMMA LastWord ==
  ASSUME NEW n \in Nat
  PROVE  /\ n % WordBits = 0 => MEMSIZE(n) * WordBits = n
         /\ n % WordBits # 0 =>
              /\ MEMSIZE(n) - 1 \in Nat
              /\ (MEMSIZE(n) - 1) * WordBits + (n % WordBits) = n
<1> DEFINE q == n \div WordBits
           d == n % WordBits
           M == MEMSIZE(n)
<1>1. WordBits \in Nat \ {0}
  BY WordBitsAssumption
<1>2. q \in Nat /\ d \in 0 .. WordBits - 1 /\ q * WordBits + d = n
  BY Located DEF Word
<1>3. M \in Nat /\ n <= M * WordBits /\ M * WordBits < n + WordBits
  BY MemSize
<1> HIDE DEF q, d, M
<1>4. /\ (q + 1) * WordBits = q * WordBits + WordBits /\ q * WordBits \in Nat
      /\ (q + 2) * WordBits = q * WordBits + WordBits + WordBits
      /\ M * WordBits \in Nat
      /\ (M + 1) * WordBits = M * WordBits + WordBits
  BY <1>1, <1>2, <1>3
<1>5. ASSUME d = 0 PROVE M * WordBits = n
  <2>1. M * WordBits < (q + 1) * WordBits /\ q * WordBits < (M + 1) * WordBits
    BY <1>1, <1>2, <1>3, <1>4, <1>5
  <2>2. M < q + 1 /\ q < M + 1
    BY <1>1, <1>2, <1>3, <2>1, Factor
  <2>3. M = q
    BY <1>2, <1>3, <2>2
  <2> QED BY <1>2, <1>4, <1>5, <2>3
<1>6. ASSUME d # 0 PROVE M - 1 \in Nat /\ (M - 1) * WordBits + d = n
  <2>1. M * WordBits < (q + 2) * WordBits /\ q * WordBits < M * WordBits
    BY <1>1, <1>2, <1>3, <1>4, <1>6
  <2>2. M < q + 2 /\ q < M
    BY <1>1, <1>2, <1>3, <2>1, Factor
  <2>3. M - 1 = q
    BY <1>2, <1>3, <2>2
  <2> QED BY <1>2, <1>6, <2>3
<1>7. /\ d = 0 => M * WordBits = n
      /\ d # 0 => M - 1 \in Nat /\ (M - 1) * WordBits + d = n
  BY <1>5, <1>6
<1> QED BY <1>7 DEF d, M

LEMMA ComplementRight ==
  ASSUME NEW b, WellFormed(b)
  PROVE  /\ WellFormed(complementWords(b)) /\ complementWords(b).bits = b.bits
         /\ Elements(complementWords(b)) = (0 .. b.bits - 1) \ Elements(b)
<1> DEFINE n == b.bits % WordBits
           last == MEMSIZE(b.bits) - 1
           Flip == [w \in Words(b) |-> Word \ b.data[w]]
           Mask == [Flip EXCEPT ![last] = @ \cap 0 .. n - 1]
           E == (0 .. b.bits - 1) \ Elements(b)
<1>1. /\ b.bits \in Nat /\ Words(b) = 0 .. MEMSIZE(b.bits) - 1
      /\ MEMSIZE(b.bits) \in Nat
  BY Members, MemSize
<1>2. b = [bits |-> b.bits, data |-> b.data]
  BY DEF WellFormed
<1>3. complementWords(b) = [b EXCEPT !.data = IF n = 0 THEN Flip ELSE Mask]
  <2> DEFINE c == [bits |-> b.bits, data |-> Flip]
  <2>1. [b EXCEPT !.data = Flip] = c
    BY <1>2, NewData
  <2>2. complementWords(b) = IF n = 0 THEN c ELSE [c EXCEPT !.data[last] = @ \cap 0 .. n - 1]
    BY <2>1 DEF complementWords
  <2>3. [c EXCEPT !.data[last] = @ \cap 0 .. n - 1] = [bits |-> b.bits, data |-> Mask]
    <3> HIDE DEF Flip
    <3>1. PICK e : e = c
      OBVIOUS
    <3> HIDE DEF last, n
    <3>2. /\ e = [bits |-> e.bits, data |-> e.data] /\ e.bits = b.bits
          /\ e.data = Flip
      BY <3>1
    <3>3. [e EXCEPT !.data[last] = @ \cap 0 .. n - 1]
            = [e EXCEPT !.data = [e.data EXCEPT ![last] = @ \cap 0 .. n - 1]]
      BY <3>2
    <3>4. [e EXCEPT !.data = [e.data EXCEPT ![last] = @ \cap 0 .. n - 1]]
            = [bits |-> e.bits, data |-> [e.data EXCEPT ![last] = @ \cap 0 .. n - 1]]
      BY <3>2, NewData
    <3> QED BY <3>1, <3>2, <3>3, <3>4
  <2> HIDE DEF Flip, Mask
  <2>4. [b EXCEPT !.data = Mask] = [bits |-> b.bits, data |-> Mask]
    BY <1>2, NewData
  <2> QED BY <2>1, <2>2, <2>3, <2>4
<1>4. WordBits \in Nat \ {0} /\ n \in 0 .. WordBits - 1
  BY <1>1, Located, WordBitsAssumption DEF Word
<1>5. Flip \in [Words(b) -> SUBSET Word] /\ Mask \in [Words(b) -> SUBSET Word]
  OBVIOUS
<1>6. ASSUME NEW w \in Words(b), NEW j \in Word
      PROVE  /\ w \in Nat /\ j \in Nat /\ j < WordBits /\ w * WordBits \in Nat
             /\ w <= last /\ w * WordBits + j \in Nat
             /\ w * WordBits + j \in Elements(b) <=> j \in b.data[w]
             /\ w < last => w * WordBits + WordBits <= last * WordBits
             /\ last \in Nat /\ last * WordBits \in Nat
             /\ MEMSIZE(b.bits) * WordBits = last * WordBits + WordBits
  <2>1. w \in Nat /\ w <= last /\ last \in Nat /\ last + 1 = MEMSIZE(b.bits)
    BY <1>1
  <2>2. j \in Nat /\ j < WordBits
    BY <1>4 DEF Word
  <2> HIDE DEF last
  <2>3. w * WordBits \in Nat /\ last * WordBits \in Nat
        /\ (last + 1) * WordBits = last * WordBits + WordBits
        /\ (w + 1) * WordBits = w * WordBits + WordBits
    BY <1>4, <2>1
  <2>4. w < last => (w + 1) * WordBits <= last * WordBits
    <3>1. CASE w + 1 = last
      BY <2>1, <2>3, <3>1
    <3>2. CASE w + 1 < last
      <4>1. (w + 1) * WordBits < last * WordBits
        BY <1>4, <2>1, <3>2, Factor
      <4> QED BY <1>4, <2>3, <4>1
    <3> QED BY <2>1, <3>1, <3>2
  <2>5. w * WordBits + j \in Nat
    BY <2>2, <2>3
  <2> QED BY <1>4, <2>1, <2>2, <2>3, <2>4, <2>5, InWords
<1> HIDE DEF n, last
<1>7. E \subseteq 0 .. b.bits - 1
  OBVIOUS
<1>8. CASE n = 0
  <2>1. MEMSIZE(b.bits) * WordBits = b.bits
    BY <1>1, <1>8, LastWord DEF n
  <2>2. ASSUME NEW w \in Words(b), NEW j \in Word
        PROVE  j \in Flip[w] <=> w * WordBits + j \in E
    <3> DEFINE x == w * WordBits
               y == last * WordBits
    <3>1. /\ x \in Nat /\ y \in Nat /\ j \in Nat /\ j < WordBits /\ WordBits \in Nat
          /\ b.bits = y + WordBits /\ (w = last => x = y)
          /\ w < last => x + WordBits <= y
          /\ w \in Nat /\ last \in Nat /\ w <= last
      BY <1>4, <1>6, <2>1
    <3> HIDE DEF x, y
    <3>2. x + j \in 0 .. b.bits - 1
      BY <3>1
    <3> QED BY <1>6, <3>2 DEF x
  <2> HIDE DEF E, Flip
  <2>3. LET c == [b EXCEPT !.data = Flip] IN
        WellFormed(c) /\ Elements(c) = E /\ c.bits = b.bits
    BY <1>5, <1>7, <2>2, WordWise
  <2> QED BY <1>3, <1>8, <2>3 DEF E
<1>9. CASE n # 0
  <2>1. last \in Nat /\ last * WordBits + n = b.bits
    BY <1>1, <1>9, LastWord DEF n, last
  <2>2. ASSUME NEW w \in Words(b), NEW j \in Word
        PROVE  j \in Mask[w] <=> w * WordBits + j \in E
    <3> DEFINE x == w * WordBits
               y == last * WordBits
    <3>1. /\ x \in Nat /\ y \in Nat /\ j \in Nat /\ j < WordBits /\ WordBits \in Nat
          /\ b.bits = y + n /\ n \in Nat /\ (w = last => x = y)
          /\ w < last => x + WordBits <= y
          /\ w \in Nat /\ last \in Nat /\ w <= last
      BY <1>4, <1>6, <2>1
    <3> HIDE DEF x, y
    <3>2. CASE w # last
      <4>1. x + j \in 0 .. b.bits - 1
        BY <3>1, <3>2
      <4>2. Mask[w] = Word \ b.data[w]
        BY <3>2
      <4> QED BY <1>6, <4>1, <4>2 DEF x
    <3>3. CASE w = last
      <4>1. x + j \in 0 .. b.bits - 1 <=> j \in 0 .. n - 1
        BY <3>1, <3>3
      <4>2. Mask[w] = (Word \ b.data[w]) \cap 0 .. n - 1
        BY <3>3
      <4> QED BY <1>6, <4>1, <4>2 DEF x
    <3> QED BY <3>2, <3>3
  <2> HIDE DEF E, Mask
  <2>3. LET c == [b EXCEPT !.data = Mask] IN
        WellFormed(c) /\ Elements(c) = E /\ c.bits = b.bits
    BY <1>5, <1>7, <2>2, WordWise
  <2> QED BY <1>3, <1>9, <2>3 DEF E
<1> QED BY <1>8, <1>9

LEMMA ArgumentsRight ==
  ASSUME NEW that \in BitSets
  PROVE  WellFormed(that) /\ that.bits \in 0 .. MaxBits
<1>1. PICK n \in 0 .. MaxBits : \E members \in SUBSET (0 .. n - 1) :
        that = [bits |-> n,
                data |-> [w \in 0 .. MEMSIZE(n) - 1 |->
                            {j \in Word : w * WordBits + j \in members}]]
  BY DEF BitSets
<1>2. PICK members \in SUBSET (0 .. n - 1) :
        that = [bits |-> n,
                data |-> [w \in 0 .. MEMSIZE(n) - 1 |->
                            {j \in Word : w * WordBits + j \in members}]]
  BY <1>1
<1>3. n \in Nat
  BY MaxBitsAssumption
<1>4. /\ that.bits = n
      /\ that.data = [w \in 0 .. MEMSIZE(n) - 1 |->
                        {j \in Word : w * WordBits + j \in members}]
      /\ that = [bits |-> that.bits, data |-> that.data]
  BY <1>2
<1>5. that.data \in [0 .. MEMSIZE(n) - 1 -> SUBSET Word]
  BY <1>4
<1>6. ASSUME NEW w \in 0 .. MEMSIZE(n) - 1, NEW j \in that.data[w]
      PROVE  w * WordBits + j < n
  <2>1. w * WordBits + j \in 0 .. n - 1
    BY <1>4, <1>6
  <2> QED BY <1>3, <2>1
<1> QED BY <1>3, <1>4, <1>5, <1>6 DEF WellFormed

BitIInv == WellFormed(bitset) /\ bitset.bits \in 0 .. MaxBits

LEMMA BitInitial == BitInit => BitIInv
<1> SUFFICES ASSUME BitInit PROVE BitIInv
  OBVIOUS
<1>1. PICK n \in 0 .. MaxBits : bitset = new(n)
  BY DEF BitInit
<1>2. n \in Nat
  BY MaxBitsAssumption
<1> QED BY <1>1, <1>2, NewBits DEF BitIInv

LEMMA BitStep == BitIInv /\ [BitNext]_bitset => BitIInv'
<1> SUFFICES ASSUME BitIInv, [BitNext]_bitset PROVE BitIInv'
  OBVIOUS
<1>1. WellFormed(bitset) /\ bitset.bits \in 0 .. MaxBits /\ bitset.bits \in Nat
  BY Members DEF BitIInv
<1>2. ASSUME NEW c, WellFormed(c), c.bits \in 0 .. MaxBits, bitset' = c
      PROVE  BitIInv'
  BY <1>2 DEF BitIInv, WellFormed, MEMSIZE, Word
<1>3. ASSUME NEW k \in 0 .. MaxBits - 1, SetBit(k) \/ ClearBit(k)
      PROVE  BitIInv'
  <2>1. k \in 0 .. bitset.bits - 1
    BY <1>1, <1>3 DEF SetBit, ClearBit
  <2>2. /\ WellFormed(setBit(bitset, k)) /\ setBit(bitset, k).bits = bitset.bits
        /\ WellFormed(clear(bitset, k)) /\ clear(bitset, k).bits = bitset.bits
    BY <1>1, <2>1, SetKeeps
  <2> QED BY <1>1, <1>2, <1>3, <2>2 DEF SetBit, ClearBit
<1>4. CASE Complement
  BY <1>1, <1>2, <1>4, ComplementRight DEF Complement
<1>5. ASSUME NEW that \in BitSets,
             UnionBits(that) \/ IntersectBits(that) \/ DiffBits(that)
      PROVE  BitIInv'
  <2>1. WellFormed(that) /\ that.bits \in 0 .. MaxBits /\ Fits(bitset, that)
    BY <1>5, ArgumentsRight DEF UnionBits, IntersectBits, DiffBits
  <2> DEFINE u == unionWords(bitset, that)
             n == intersectWords(bitset, that)
             d == diffWords(bitset, that)
  <2>2. /\ WellFormed(u) /\ WellFormed(n) /\ WellFormed(d)
        /\ u.bits \in {bitset.bits, that.bits} /\ n.bits \in {bitset.bits, that.bits}
        /\ d.bits \in {bitset.bits, that.bits}
    BY <1>1, <2>1, OperationsRight
  <2>3. bitset' = u \/ bitset' = n \/ bitset' = d
    BY <1>5 DEF UnionBits, IntersectBits, DiffBits
  <2> HIDE DEF u, n, d
  <2> QED BY <1>1, <1>2, <2>1, <2>2, <2>3
<1>6. CASE UNCHANGED bitset
  BY <1>1, <1>2, <1>6
<1> QED BY <1>3, <1>4, <1>5, <1>6 DEF BitNext

LEMMA BitIInvMeans == BitIInv => BitsRight
<1> SUFFICES ASSUME BitIInv PROVE BitsRight
  OBVIOUS
<1>1. WellFormed(bitset) /\ bitset.bits \in 0 .. MaxBits
  BY DEF BitIInv
<1>2. WordsRight
  BY <1>1, Members, CountIsSize DEF WordsRight
<1>3. Elements(complementWords(bitset)) = (0 .. bitset.bits - 1) \ Elements(bitset)
  BY <1>1, ComplementRight
<1>4. ASSUME NEW that \in BitSets, Fits(bitset, that)
      PROVE  /\ Elements(unionWords(bitset, that)) = Elements(bitset) \cup Elements(that)
             /\ Elements(intersectWords(bitset, that)) = Elements(bitset) \cap Elements(that)
             /\ Elements(diffWords(bitset, that)) = Elements(bitset) \ Elements(that)
  BY <1>1, <1>4, ArgumentsRight, OperationsRight
<1> QED BY <1>2, <1>3, <1>4 DEF BitsRight

(* The operations of a bit set (bitset.h, bitset.cc) on whole words are    *)
(* those on sets, and leave no bit behind the last element, for words and  *)
(* sets of any size.                                                       *)
THEOREM BitsRightCorrect == BitSpec => []BitsRight
BY BitInitial, BitStep, BitIInvMeans, PTL DEF BitSpec

-----------------------------------------------------------------------------
(* The collector: induction, and the powers of two. *)

LEMMA NatInd ==
  ASSUME NEW S, 0 \in S, \A n \in Nat : n \in S => n + 1 \in S
  PROVE  \A n \in Nat : n \in S
<1> SUFFICES ASSUME Nat \ S # {}
             PROVE  FALSE
  OBVIOUS
<1> DEFINE R == OpToRel(<, Nat)
<1>1. IsWellFoundedOn(R, Nat)
  BY NatLessThanWellFounded
<1>2. \A x, y \in Nat : <<y, x>> \in R <=> y < x
  BY DEF OpToRel
<1> HIDE DEF R
<1>3. PICK n \in Nat \ S : \A y \in Nat \ S : ~(<<y, n>> \in R)
  BY <1>1, WFMin
<1>4. n # 0 /\ n - 1 \in Nat /\ n - 1 < n
  OBVIOUS
<1>5. n - 1 \in S
  BY <1>2, <1>3, <1>4
<1> QED BY <1>3, <1>4, <1>5

Iterates(f, a, G) == f[0] = a /\ \A n \in Nat : f[n + 1] = G[n][f[n]]

(* A step G from a start a defines a function on the natural numbers. *)
LEMMA Recursion ==
  ASSUME NEW T, NEW a \in T, NEW G \in [Nat -> [T -> T]]
  PROVE  \E f \in [Nat -> T] : Iterates(f, a, G)
<1> DEFINE Upto(f, n) == /\ f \in [0 .. n -> T]
                         /\ f[0] = a
                         /\ \A k \in 0 .. n - 1 : f[k + 1] = G[k][f[k]]
           S == {n \in Nat : \E f : Upto(f, n)}
<1>1. 0 \in S
  <2>1. Upto([k \in 0 .. 0 |-> a], 0)
    OBVIOUS
  <2> QED BY <2>1
<1>2. ASSUME NEW n \in Nat, NEW f, Upto(f, n)
      PROVE  \E g : Upto(g, n + 1)
  <2> DEFINE g == [k \in 0 .. n + 1 |-> IF k <= n THEN f[k] ELSE G[n][f[n]]]
  <2>1. f[n] \in T /\ G[n][f[n]] \in T
    BY <1>2
  <2>2. g \in [0 .. n + 1 -> T]
    BY <1>2, <2>1
  <2>3. \A k \in 0 .. n : g[k] = f[k]
    OBVIOUS
  <2>4. g[n + 1] = G[n][f[n]]
    OBVIOUS
  <2> HIDE DEF g
  <2>5. Upto(g, n + 1)
    BY <1>2, <2>2, <2>3, <2>4
  <2> QED BY <2>5
<1>3. \A n \in Nat : \E f : Upto(f, n)
  <2> HIDE DEF Upto
  <2>1. \A n \in Nat : n \in S => n + 1 \in S
    BY <1>2
  <2> HIDE DEF S
  <2>2. \A n \in Nat : n \in S
    BY <1>1, <2>1, NatInd
  <2> QED BY <2>2 DEF S
<1>4. ASSUME NEW f, NEW g, NEW m \in Nat, NEW n \in Nat, m <= n,
             Upto(f, m), Upto(g, n)
      PROVE  f[m] = g[m]
  <2> DEFINE E == {k \in Nat : k <= m => f[k] = g[k]}
  <2>1. 0 \in E
    BY <1>4
  <2>2. ASSUME NEW k \in Nat, k \in E PROVE k + 1 \in E
    <3>1. SUFFICES ASSUME k + 1 <= m PROVE f[k + 1] = g[k + 1]
      OBVIOUS
    <3>2. f[k] = g[k] /\ k \in 0 .. m - 1 /\ k \in 0 .. n - 1
      BY <1>4, <2>2, <3>1
    <3> QED BY <1>4, <3>2
  <2>3. \A k \in Nat : k \in E
    <3> HIDE DEF E
    <3> QED BY <2>1, <2>2, NatInd
  <2> QED BY <2>3
<1> DEFINE F(n) == CHOOSE f : Upto(f, n)
           h == [n \in Nat |-> F(n)[n]]
<1>5. ASSUME NEW n \in Nat PROVE Upto(F(n), n)
  <2> HIDE DEF Upto
  <2> QED BY <1>3
<1>6. ASSUME NEW n \in Nat
      PROVE  F(n + 1)[n + 1] = G[n][F(n + 1)[n]]
  <2> HIDE DEF F
  <2> QED BY <1>5
<1>7. ASSUME NEW n \in Nat
      PROVE  F(n + 1)[n] = F(n)[n]
  <2>1. n + 1 \in Nat /\ n <= n + 1
    OBVIOUS
  <2>2. Upto(F(n), n)
    BY <1>5
  <2>3. Upto(F(n + 1), n + 1)
    <3> HIDE DEF Upto, F
    <3> QED BY <1>5, <2>1
  <2> HIDE DEF Upto, F
  <2>4. F(n)[n] = F(n + 1)[n]
    BY <1>4, <2>1, <2>2, <2>3
  <2> QED BY <2>4
<1>8. h[0] = a /\ h \in [Nat -> T]
  <2> HIDE DEF F
  <2>1. \A n \in Nat : F(n)[n] \in T
    BY <1>5
  <2> QED BY <1>5, <2>1
<1>9. ASSUME NEW n \in Nat
      PROVE  h[n + 1] = G[n][h[n]]
  <2> HIDE DEF F
  <2> QED BY <1>6, <1>7
<1> HIDE DEF h
<1> QED BY <1>8, <1>9 DEF Iterates

-----------------------------------------------------------------------------
LEMMA Power2Values ==
  /\ Power2 \in [Nat -> Nat \ {0}]
  /\ Power2[0] = 1
  /\ \A k \in Nat : Power2[k + 1] = 2 * Power2[k]
<1> DEFINE T == Nat \ {0}
           a == 1
           G == [n \in Nat |-> [v \in T |-> 2 * v]]
           Is(f) == f = [k \in Nat |-> IF k = 0 THEN 1 ELSE 2 * f[k - 1]]
<1>1. a \in T /\ G \in [Nat -> [T -> T]]
  OBVIOUS
<1>2. \A n \in Nat, v \in T : G[n][v] = 2 * v
  OBVIOUS
<1>3. PICK f \in [Nat -> T] : Iterates(f, a, G)
  <2> HIDE DEF G, T, a, Is
  <2> QED BY <1>1, Recursion
<1>4. \A n \in Nat : f[n + 1] = 2 * f[n]
  BY <1>2, <1>3 DEF Iterates
<1>5. \A k \in Nat \ {0} : f[k] = 2 * f[k - 1]
  BY <1>4
<1>6. Is(f)
  BY <1>3, <1>5 DEF Iterates
<1>7. Is(Power2)
  <2>1. Power2 = CHOOSE g : Is(g)
    BY DEF Power2
  <2> HIDE DEF Is
  <2> QED BY <1>6, <2>1
<1>8. Power2[0] = 1 /\ \A k \in Nat : Power2[k + 1] = 2 * Power2[k]
  <2>1. PICK g : g = Power2
    OBVIOUS
  <2>2. Is(g)
    <3> HIDE DEF Is
    <3> QED BY <1>7, <2>1
  <2>3. \A k \in Nat : g[k] = IF k = 0 THEN 1 ELSE 2 * g[k - 1]
    BY <2>2 DEF Is
  <2>4. \A k \in Nat : k + 1 \in Nat /\ k + 1 # 0 /\ (k + 1) - 1 = k
    OBVIOUS
  <2>5. \A k \in Nat : g[k + 1] = 2 * g[k]
    BY <2>3, <2>4
  <2>6. g[0] = 1
    BY <2>3
  <2> QED BY <2>1, <2>5, <2>6
<1>9. \A n \in Nat : Power2[n] \in Nat \ {0}
  <2> DEFINE S == {n \in Nat : Power2[n] \in Nat \ {0}}
  <2>1. 0 \in S /\ \A n \in Nat : n \in S => n + 1 \in S
    BY <1>8
  <2> HIDE DEF S
  <2>2. \A n \in Nat : n \in S
    BY <2>1, NatInd
  <2> QED BY <2>2 DEF S
<1>10. Power2 \in [Nat -> Nat \ {0}]
  <2>1. PICK g : g = Power2
    OBVIOUS
  <2>2. Is(g)
    <3> HIDE DEF Is
    <3> QED BY <1>7, <2>1
  <2>3. DOMAIN g = Nat /\ g = [k \in Nat |-> g[k]]
    BY <2>2
  <2> HIDE DEF Is
  <2>4. \A n \in Nat : g[n] \in Nat \ {0}
    BY <1>9, <2>1
  <2> QED BY <2>1, <2>3, <2>4
<1> QED BY <1>8, <1>9, <1>10
-----------------------------------------------------------------------------
(* The collector: greatest and least elements, blocks and chains. *)

LEMMA GreatestIn ==
  ASSUME NEW S, IsFiniteSet(S), S \subseteq Int, S # {}
  PROVE  Greatest(S) \in S /\ \A k \in S : k <= Greatest(S)
<1> DEFINE Has(T) == \E k \in T : \A j \in T : j <= k
           X == {n \in Nat : \A T \in SUBSET S : Cardinality(T) = n /\ T # {} => Has(T)}
<1>1. 0 \in X
  <2>1. ASSUME NEW T \in SUBSET S, Cardinality(T) = 0 PROVE T = {}
    BY <2>1, FS_Subset, FS_EmptySet
  <2> QED BY <2>1
<1>2. ASSUME NEW n \in Nat, n \in X PROVE n + 1 \in X
  <2>1. SUFFICES ASSUME NEW T \in SUBSET S, Cardinality(T) = n + 1, T # {} PROVE Has(T)
    OBVIOUS
  <2>2. PICK x \in T : x \in Int
    BY <2>1
  <2>3. IsFiniteSet(T)
    BY FS_Subset
  <2>4. IsFiniteSet(T \ {x}) /\ Cardinality(T \ {x}) = n
    <3>1. /\ IsFiniteSet(T \ {x})
          /\ Cardinality(T \ {x}) = IF x \in T THEN Cardinality(T) - 1 ELSE Cardinality(T)
      BY ONLY <2>3, FS_RemoveElement
    <3>2. x \in T
      OBVIOUS
    <3> QED BY <2>1, <3>1, <3>2
  <2>5. CASE T \ {x} = {}
    <3>1. \A j \in T : j <= x
      BY <2>2, <2>5
    <3> QED BY <3>1
  <2>6. CASE T \ {x} # {}
    <3>1. PICK k \in T \ {x} : \A j \in T \ {x} : j <= k
      BY <1>2, <2>4, <2>6
    <3>2. k \in Int /\ \A j \in T : j \in Int
      BY <3>1
    <3>3. CASE x <= k
      BY <3>1, <3>3
    <3>4. CASE k < x
      <4>1. \A j \in T : j <= x
        BY <3>1, <3>2, <3>4, <2>2
      <4> QED BY <4>1
    <3> QED BY <2>2, <3>2, <3>3, <3>4
  <2> QED BY <2>5, <2>6
<1>3. \A n \in Nat : n \in X
  <2> HIDE DEF X
  <2> QED BY <1>1, <1>2, NatInd
<1>4. Cardinality(S) \in Nat
  BY FS_CardinalityType
<1>5. Has(S)
  BY <1>3, <1>4
<1> QED BY <1>5 DEF Greatest

LEMMA LeastIn ==
  ASSUME NEW S, IsFiniteSet(S), S \subseteq Int, S # {}
  PROVE  Least(S) \in S /\ \A k \in S : Least(S) <= k
<1> DEFINE N == {0 - k : k \in S}
<1>1. N \subseteq Int /\ N # {} /\ \A k \in S : k \in Int
  OBVIOUS
<1>2. IsFiniteSet(N)
  <2> DEFINE f == [k \in S |-> 0 - k]
  <2>1. f \in Surjection(S, N)
    BY DEF Surjection
  <2> HIDE DEF f, N
  <2> QED BY <2>1, FS_Surjection
<1>3. Greatest(N) \in N /\ \A k \in N : k <= Greatest(N)
  <2> HIDE DEF N
  <2> QED BY <1>1, <1>2, GreatestIn
<1>4. PICK k \in S : Greatest(N) = 0 - k
  BY <1>3
<1>5. ASSUME NEW j \in S PROVE k <= j
  <2>1. 0 - j \in N /\ k \in Int /\ j \in Int
    BY <1>1
  <2>2. 0 - j <= 0 - k
    BY <1>3, <1>4, <2>1
  <2> QED BY <2>1, <2>2
<1> QED BY <1>5 DEF Least

LEMMA BlockIs ==
  ASSUME NEW a \in Int
  PROVE  /\ block(a) \in Int
         /\ BlockSize * block(a) <= a /\ a < BlockSize * block(a) + BlockSize
  BY Division, BlockAssumption DEF block

(* A word that points into the first block's worth of an object is looked  *)
(* up in the chain of its block, or in that of the next.                   *)
LEMMA BlocksOf ==
  ASSUME NEW a \in Int, NEW w \in a .. a + BlockSize - 1
  PROVE  block(w) = block(a) \/ block(w) - 1 = block(a)
<1>1. PICK m \in Nat \ {0} : m = BlockSize
  BY BlockAssumption
<1>2. PICK x \in Int : x = block(a) /\ m * x <= a /\ a < m * x + m
  BY <1>1, BlockIs
<1>3. PICK y \in Int : y = block(w) /\ m * y <= w /\ w < m * y + m
  BY <1>1, BlockIs
<1>4. a <= w /\ w < a + m
  BY <1>1
<1>5. ~(y < x)
  <2>1. SUFFICES ASSUME y + 1 <= x PROVE FALSE
    OBVIOUS
  <2>2. m * (x - (y + 1)) >= 0
    BY <2>1
  <2>3. m * x >= m * y + m
    BY <2>2
  <2> QED BY <1>2, <1>3, <1>4, <2>3
<1>6. ~(y > x + 1)
  <2>1. SUFFICES ASSUME x + 2 <= y PROVE FALSE
    OBVIOUS
  <2>2. m * (y - (x + 2)) >= 0
    BY <2>1
  <2>3. m * y >= m * x + m + m
    BY <2>2
  <2> QED BY <1>2, <1>3, <1>4, <2>3
<1> QED BY <1>2, <1>3, <1>5, <1>6

LEMMA BucketIn ==
  ASSUME NEW b \in Int, NEW n \in Nat
  PROVE  bucket(b, n) \in 0 .. Power2[n] - 1
<1> DEFINE bit(k) == (b \div Power2[k] + b \div Power2[k + n]) % 2
           Is(f, m) == f = [k \in 0 .. m |-> IF k = 0 THEN 0
                                             ELSE f[k - 1] + Power2[k - 1] * bit(k - 1)]
           low == CHOOSE f : Is(f, n)
<1>1. \A m \in Nat : \E f : Is(f, m)
  <2> DEFINE S == {m \in Nat : \E f : Is(f, m)}
  <2> HIDE DEF bit
  <2>1. 0 \in S
    <3>1. Is([k \in 0 .. 0 |-> 0], 0)
      OBVIOUS
    <3> QED BY <3>1
  <2>2. ASSUME NEW m \in Nat, m \in S PROVE m + 1 \in S
    <3>1. PICK f : Is(f, m)
      BY <2>2
    <3> DEFINE g == [k \in 0 .. m + 1 |-> IF k <= m THEN f[k]
                                          ELSE f[m] + Power2[k - 1] * bit(k - 1)]
    <3>2. Is(g, m + 1)
      BY <3>1
    <3> HIDE DEF Is
    <3> QED BY <3>2
  <2> HIDE DEF S
  <2>3. \A m \in Nat : m \in S
    BY <2>1, <2>2, NatInd
  <2> QED BY <2>3 DEF S
<1>2. bucket(b, n) = low[n]
  BY DEF bucket
<1>3. PICK f : Is(f, n) /\ bucket(b, n) = f[n]
  <2>1. Is(low, n)
    <3> HIDE DEF Is
    <3> QED BY <1>1
  <2> HIDE DEF Is, low
  <2> QED BY <1>2, <2>1
<1>4. ASSUME NEW k \in Nat PROVE bit(k) \in 0 .. 1
  <2>1. PICK x \in Nat \ {0} : x = Power2[k]
    BY Power2Values
  <2>2. PICK y \in Nat \ {0} : y = Power2[k + n]
    <3>1. k + n \in Nat
      OBVIOUS
    <3> QED BY <3>1, Power2Values
  <2>3. b \div x \in Int /\ b \div y \in Int
    BY Division
  <2>4. b \div x + b \div y \in Int
    BY <2>3
  <2>5. 2 \in Nat \ {0} /\ 2 - 1 = 1
    OBVIOUS
  <2>6. (b \div x + b \div y) % 2 \in 0 .. 2 - 1
    BY ONLY <2>4, <2>5, Division
  <2> QED BY <2>1, <2>2, <2>5, <2>6
<1> DEFINE X == {k \in Nat : k <= n => f[k] \in 0 .. Power2[k] - 1}
<1>5. 0 \in X
  <2>1. f[0] = 0
    BY <1>3
  <2> QED BY <2>1, Power2Values
<1>6. ASSUME NEW k \in Nat, k \in X PROVE k + 1 \in X
  <2>1. SUFFICES ASSUME k + 1 <= n PROVE f[k + 1] \in 0 .. Power2[k + 1] - 1
    OBVIOUS
  <2>2. k + 1 \in 0 .. n /\ k + 1 # 0 /\ (k + 1) - 1 = k
    BY <2>1
  <2>3. f[k + 1] = f[k] + Power2[k] * bit(k)
    <3> HIDE DEF bit
    <3> QED BY <1>3, <2>2
  <2>4. PICK c : c = bit(k) /\ c \in 0 .. 1
    BY <1>4
  <2>5. PICK x \in Nat \ {0} : x = Power2[k] /\ Power2[k + 1] = 2 * x
    BY Power2Values
  <2>6. f[k] \in 0 .. x - 1
    BY <1>6, <2>1, <2>5
  <2>7. f[k] + x * c \in 0 .. 2 * x - 1
    <3>1. CASE c = 0
      BY <2>6, <3>1
    <3>2. CASE c = 1
      BY <2>6, <3>2
    <3> QED BY <2>4, <3>1, <3>2
  <2> QED BY <2>3, <2>4, <2>5, <2>7
<1>7. n \in X
  <2> HIDE DEF X
  <2> QED BY <1>5, <1>6, NatInd
<1> QED BY <1>3, <1>7

-----------------------------------------------------------------------------
(* The table of objects. *)

IsTable(u) ==
    /\ u = [log2_size |-> u.log2_size, hroots |-> u.hroots, count |-> u.count,
            min_obj_addr |-> u.min_obj_addr, max_obj_addr |-> u.max_obj_addr,
            marked_list |-> u.marked_list, follow_list |-> u.follow_list,
            free_list |-> u.free_list]
    /\ u.log2_size \in Nat
    /\ u.hroots \in [0 .. Power2[u.log2_size] - 1 -> SUBSET Cell]
    /\ u.count \in Int /\ u.min_obj_addr \in Int /\ u.max_obj_addr \in Int
    /\ u.marked_list \subseteq Cell /\ u.follow_list \subseteq Cell
    /\ u.free_list \subseteq Cell

(* Each link in the chain where it is looked for, and in the range. *)
Chained(u) == \A n \in DOMAIN u.hroots : \A a \in u.hroots[n] :
                 /\ n = bucket(block(a), u.log2_size)
                 /\ u.min_obj_addr <= a /\ a + BlockSize <= u.max_obj_addr

(* The table and the lists are disjoint, and hold the objects D. *)
Parts(u, D) ==
    /\ D = InTable(u) \cup u.marked_list \cup u.follow_list \cup u.free_list
    /\ InTable(u) \cap u.marked_list = {} /\ InTable(u) \cap u.follow_list = {}
    /\ InTable(u) \cap u.free_list = {} /\ u.marked_list \cap u.follow_list = {}
    /\ u.marked_list \cap u.free_list = {} /\ u.follow_list \cap u.free_list = {}

Sound(u, D) == /\ IsTable(u) /\ Chained(u) /\ Parts(u, D)
               /\ u.count = Cardinality(InTable(u))

LEMMA CellsAre ==
  /\ Cell \subseteq Int /\ 0 \notin Cell /\ IsFiniteSet(Cell) /\ MaxAddr \in Int
  /\ \A S \in SUBSET Cell : IsFiniteSet(S)
<1>1. Cell \subseteq Int /\ 0 \notin Cell /\ IsFiniteSet(Cell) /\ Cell # {}
  BY CellAssumption
<1>2. MaxAddr \in Int
  BY <1>1, GreatestIn DEF MaxAddr
<1> QED BY <1>1, <1>2, FS_Subset

LEMMA InTableIn ==
  ASSUME NEW u, IsTable(u)
  PROVE  InTable(u) \subseteq Cell
BY DEF InTable, IsTable

LEMMA InItsChain ==
  ASSUME NEW u, IsTable(u), Chained(u), NEW a \in Cell
  PROVE  /\ bucket(block(a), u.log2_size) \in DOMAIN u.hroots
         /\ a \in InTable(u) <=> a \in u.hroots[bucket(block(a), u.log2_size)]
<1>1. a \in Int /\ block(a) \in Int
  BY CellsAre, BlockIs
<1>2. bucket(block(a), u.log2_size) \in 0 .. Power2[u.log2_size] - 1
  BY <1>1, BucketIn DEF IsTable
<1>3. DOMAIN u.hroots = 0 .. Power2[u.log2_size] - 1
  BY DEF IsTable
<1>4. bucket(block(a), u.log2_size) \in DOMAIN u.hroots
  BY <1>2, <1>3
<1>5. ASSUME a \in InTable(u) PROVE a \in u.hroots[bucket(block(a), u.log2_size)]
  <2>1. PICK n \in DOMAIN u.hroots : a \in u.hroots[n]
    BY <1>5 DEF InTable
  <2>2. n = bucket(block(a), u.log2_size)
    BY <2>1 DEF Chained
  <2> QED BY <2>1, <2>2
<1>6. ASSUME a \in u.hroots[bucket(block(a), u.log2_size)] PROVE a \in InTable(u)
  BY <1>4, <1>6 DEF InTable
<1> QED BY <1>4, <1>5, <1>6

(* v is u with links put into their chains. *)
Relinked(v, u, links) ==
    /\ v.log2_size = u.log2_size /\ v.marked_list = u.marked_list
    /\ v.follow_list = u.follow_list /\ v.free_list = u.free_list
    /\ InTable(v) = InTable(u) \cup links

LEMMA LinkedSound ==
  ASSUME NEW u, NEW D, Sound(u, D), NEW links \in SUBSET Cell, links \cap D = {}
  PROVE  Sound(Linked(u, links), D \cup links) /\ Relinked(Linked(u, links), u, links)
<1>1. PICK v : v = Linked(u, links)
  OBVIOUS
<1> DEFINE H == [n \in DOMAIN u.hroots |->
                   u.hroots[n] \cup {a \in links : bucket(block(a), u.log2_size) = n}]
           lows == {u.min_obj_addr} \cup links
           ends == {a + BlockSize : a \in links}
           highs == {u.max_obj_addr} \cup ends
<1>2. v = [log2_size |-> u.log2_size, hroots |-> H, count |-> u.count + Cardinality(links),
           min_obj_addr |-> Least(lows), max_obj_addr |-> Greatest(highs),
           marked_list |-> u.marked_list, follow_list |-> u.follow_list,
           free_list |-> u.free_list]
  <2>1. PICK x, h, c, mn, mx, ma, fo, fr :
          /\ u = [log2_size |-> x, hroots |-> h, count |-> c, min_obj_addr |-> mn,
                  max_obj_addr |-> mx, marked_list |-> ma, follow_list |-> fo, free_list |-> fr]
    BY DEF Sound, IsTable
  <2> HIDE DEF H, lows, ends
  <2>2. v = [u EXCEPT !.hroots = H, !.count = @ + Cardinality(links),
                      !.min_obj_addr = Least(lows), !.max_obj_addr = Greatest(highs)]
    BY <1>1 DEF Linked, H, lows, ends
  <2> QED BY <2>1, <2>2
<1>3. /\ v.log2_size = u.log2_size /\ v.hroots = H /\ v.count = u.count + Cardinality(links)
      /\ v.min_obj_addr = Least(lows) /\ v.max_obj_addr = Greatest(highs)
      /\ v.marked_list = u.marked_list /\ v.follow_list = u.follow_list
      /\ v.free_list = u.free_list
  <2> HIDE DEF H, lows, highs
  <2> QED BY <1>2
<1>4. IsFiniteSet(links) /\ links \subseteq Int /\ BlockSize \in Int
  BY CellsAre, BlockAssumption
<1>5. Least(lows) \in Int /\ Least(lows) <= u.min_obj_addr /\ \A a \in links : Least(lows) <= a
  <2>1. lows \subseteq Int /\ lows # {} /\ IsFiniteSet(lows)
    BY <1>4, FS_Singleton, FS_Union DEF Sound, IsTable
  <2>2. Least(lows) \in lows /\ \A k \in lows : Least(lows) <= k
    <3> HIDE DEF lows
    <3> QED BY <2>1, LeastIn
  <2> QED BY <2>1, <2>2
<1>6. /\ Greatest(highs) \in Int /\ u.max_obj_addr <= Greatest(highs)
      /\ \A a \in links : a + BlockSize <= Greatest(highs)
  <2>1. IsFiniteSet(ends)
    <3> DEFINE f == [a \in links |-> a + BlockSize]
    <3>1. f \in Surjection(links, ends)
      BY DEF Surjection
    <3> HIDE DEF f, ends
    <3> QED BY <1>4, <3>1, FS_Surjection
  <2>2. ends \subseteq Int
    BY <1>4
  <2>3. highs \subseteq Int /\ highs # {} /\ IsFiniteSet(highs)
    <3> HIDE DEF ends
    <3> QED BY <2>1, <2>2, FS_Singleton, FS_Union DEF Sound, IsTable
  <2>4. Greatest(highs) \in highs /\ \A k \in highs : k <= Greatest(highs)
    <3> HIDE DEF highs
    <3> QED BY <2>3, GreatestIn
  <2> QED BY <2>3, <2>4
<1>7. DOMAIN H = DOMAIN u.hroots /\ H \in [0 .. Power2[u.log2_size] - 1 -> SUBSET Cell]
  BY DEF Sound, IsTable
<1>8. IsTable(v)
  <2>1. u.count + Cardinality(links) \in Int
    BY <1>4, FS_CardinalityType DEF Sound, IsTable
  <2>2. /\ u.log2_size \in Nat /\ u.marked_list \subseteq Cell
        /\ u.follow_list \subseteq Cell /\ u.free_list \subseteq Cell
    BY DEF Sound, IsTable
  <2> HIDE DEF H, lows, highs
  <2> QED BY <1>2, <1>3, <1>5, <1>6, <1>7, <2>1, <2>2 DEF IsTable
<1>9. InTable(v) = InTable(u) \cup links
  <2>1. ASSUME NEW a \in InTable(u) PROVE a \in InTable(v)
    <3>1. PICK n \in DOMAIN u.hroots : a \in u.hroots[n]
      BY DEF InTable
    <3>2. a \in H[n]
      BY <3>1
    <3> HIDE DEF H
    <3> QED BY <1>3, <1>7, <3>1, <3>2 DEF InTable
  <2>2. ASSUME NEW a \in links PROVE a \in InTable(v)
    <3>1. bucket(block(a), u.log2_size) \in DOMAIN u.hroots
      BY InItsChain DEF Sound
    <3>2. a \in H[bucket(block(a), u.log2_size)]
      BY <3>1
    <3> HIDE DEF H
    <3> QED BY <1>3, <1>7, <3>1, <3>2 DEF InTable
  <2>3. ASSUME NEW a \in InTable(v) PROVE a \in InTable(u) \cup links
    <3>1. PICK n \in DOMAIN u.hroots : a \in H[n]
      <4> HIDE DEF H
      <4> QED BY <1>3, <1>7 DEF InTable
    <3>2. a \in u.hroots[n] \/ a \in links
      BY <3>1
    <3> QED BY <3>2 DEF InTable
  <2> QED BY <2>1, <2>2, <2>3
<1>10. Chained(v)
  <2>1. SUFFICES ASSUME NEW n \in DOMAIN u.hroots, NEW a \in H[n]
                 PROVE  /\ n = bucket(block(a), u.log2_size)
                        /\ Least(lows) <= a /\ a + BlockSize <= Greatest(highs)
    <3> HIDE DEF H, lows, highs
    <3> QED BY <1>3, <1>7 DEF Chained
  <2>2. a \in u.hroots[n] \/ (a \in links /\ bucket(block(a), u.log2_size) = n)
    OBVIOUS
  <2>3. CASE a \in u.hroots[n]
    <3>1. /\ n = bucket(block(a), u.log2_size)
          /\ u.min_obj_addr <= a /\ a + BlockSize <= u.max_obj_addr
      BY <2>3 DEF Sound, Chained
    <3>2. a \in Int /\ u.min_obj_addr \in Int /\ u.max_obj_addr \in Int
      BY <2>3, CellsAre DEF Sound, IsTable
    <3> HIDE DEF lows, highs
    <3> QED BY <1>4, <1>5, <1>6, <3>1, <3>2
  <2>4. CASE a \in links /\ bucket(block(a), u.log2_size) = n
    <3> HIDE DEF lows, highs
    <3> QED BY <1>5, <1>6, <2>4
  <2> QED BY <2>2, <2>3, <2>4
<1>11. Parts(v, D \cup links)
  <2> HIDE DEF H
  <2> QED BY <1>3, <1>9 DEF Sound, Parts
<1>12. v.count = Cardinality(InTable(v))
  <2>1. InTable(u) \cap links = {}
    BY DEF Sound, Parts
  <2>2. IsFiniteSet(InTable(u))
    BY InTableIn, CellsAre DEF Sound
  <2>3. Cardinality(InTable(u) \cap links) = 0
    BY <2>1, FS_EmptySet
  <2>4. Cardinality(InTable(u) \cup links) = Cardinality(InTable(u)) + Cardinality(links) - 0
    BY <1>4, <2>2, <2>3, FS_Union
  <2>5. Cardinality(InTable(u)) \in Nat /\ Cardinality(links) \in Nat
    BY <1>4, <2>2, FS_CardinalityType
  <2> HIDE DEF H
  <2> QED BY <1>3, <1>9, <2>4, <2>5 DEF Sound
<1> QED BY <1>1, <1>3, <1>8, <1>9, <1>10, <1>11, <1>12 DEF Sound, Relinked

(* v is u with a moved to the list for its kind. *)
Moved(v, u, a) ==
    /\ v.log2_size = u.log2_size /\ v.free_list = u.free_list
    /\ InTable(v) = InTable(u) \ {a}
    /\ IF objs[a].atomic
       THEN v.marked_list = u.marked_list \cup {a} /\ v.follow_list = u.follow_list
       ELSE v.follow_list = u.follow_list \cup {a} /\ v.marked_list = u.marked_list

LEMMA MarkedSound ==
  ASSUME NEW u, NEW D, Sound(u, D), NEW a \in InTable(u)
  PROVE  Sound(Marked(u, a), D) /\ Moved(Marked(u, a), u, a)
<1>1. PICK v : v = Marked(u, a)
  OBVIOUS
<1>2. a \in Cell
  BY InTableIn DEF Sound
<1> DEFINE b == bucket(block(a), u.log2_size)
           H == [u.hroots EXCEPT ![b] = @ \ {a}]
<1>3. b \in DOMAIN u.hroots /\ a \in u.hroots[b]
  BY <1>2, InItsChain DEF Sound
<1> HIDE DEF b
<1>4. PICK at : at = objs[a].atomic
  OBVIOUS
<1> DEFINE ma == IF at THEN u.marked_list \cup {a} ELSE u.marked_list
           fo == IF at THEN u.follow_list ELSE u.follow_list \cup {a}
<1>5. v = [log2_size |-> u.log2_size, hroots |-> H, count |-> u.count - 1,
           min_obj_addr |-> u.min_obj_addr, max_obj_addr |-> u.max_obj_addr,
           marked_list |-> ma, follow_list |-> fo, free_list |-> u.free_list]
  <2>1. PICK x, h, c, mn, mx, m, f, fr :
          /\ u = [log2_size |-> x, hroots |-> h, count |-> c, min_obj_addr |-> mn,
                  max_obj_addr |-> mx, marked_list |-> m, follow_list |-> f, free_list |-> fr]
    BY DEF Sound, IsTable
  <2> DEFINE w == [u EXCEPT !.hroots[b] = @ \ {a}, !.count = @ - 1]
  <2>2. v = IF at THEN [w EXCEPT !.marked_list = @ \cup {a}]
                  ELSE [w EXCEPT !.follow_list = @ \cup {a}]
    BY <1>1, <1>4 DEF Marked, b
  <2>3. w = [log2_size |-> x, hroots |-> H, count |-> c - 1, min_obj_addr |-> mn,
             max_obj_addr |-> mx, marked_list |-> m, follow_list |-> f, free_list |-> fr]
    <3>1. u.hroots = h
      BY <2>1
    <3>2. w = [u EXCEPT !.hroots = H, !.count = @ - 1]
      OBVIOUS
    <3> HIDE DEF H, w
    <3> QED BY <2>1, <3>2
  <2> HIDE DEF w, H
  <2>4. CASE at
    BY <2>1, <2>2, <2>3, <2>4
  <2>5. CASE ~at
    BY <2>1, <2>2, <2>3, <2>5
  <2> QED BY <2>4, <2>5
<1>6. /\ v.log2_size = u.log2_size /\ v.hroots = H /\ v.count = u.count - 1
      /\ v.min_obj_addr = u.min_obj_addr /\ v.max_obj_addr = u.max_obj_addr
      /\ v.marked_list = ma /\ v.follow_list = fo /\ v.free_list = u.free_list
  <2> HIDE DEF H, ma, fo
  <2> QED BY <1>5
<1>7. DOMAIN H = DOMAIN u.hroots /\ H \in [0 .. Power2[u.log2_size] - 1 -> SUBSET Cell]
  BY DEF Sound, IsTable
<1>8. IsTable(v)
  <2>1. ma \subseteq Cell /\ fo \subseteq Cell
    BY <1>2 DEF Sound, IsTable
  <2>2. /\ u.log2_size \in Nat /\ u.free_list \subseteq Cell /\ u.count - 1 \in Int
        /\ u.min_obj_addr \in Int /\ u.max_obj_addr \in Int
    BY DEF Sound, IsTable
  <2> HIDE DEF H, ma, fo
  <2> QED BY <1>5, <1>6, <1>7, <2>1, <2>2 DEF IsTable
<1>9. \A n \in DOMAIN u.hroots : H[n] = u.hroots[n] \ {a}
  <2>1. SUFFICES ASSUME NEW n \in DOMAIN u.hroots PROVE H[n] = u.hroots[n] \ {a}
    OBVIOUS
  <2>2. CASE n = b
    BY <2>2
  <2>3. CASE n # b
    <3>1. H[n] = u.hroots[n]
      BY <2>3
    <3>2. a \notin u.hroots[n]
      BY <2>3 DEF Sound, Chained, b
    <3> QED BY <3>1, <3>2
  <2> QED BY <2>2, <2>3
<1>10. InTable(v) = InTable(u) \ {a}
  <2> HIDE DEF H
  <2> QED BY <1>6, <1>7, <1>9 DEF InTable
<1>11. Chained(v)
  <2> HIDE DEF H
  <2> QED BY <1>6, <1>7, <1>9 DEF Sound, Chained
<1>12. Parts(v, D)
  <2> HIDE DEF H
  <2> QED BY <1>6, <1>10 DEF Sound, Parts
<1>13. v.count = Cardinality(InTable(v))
  <2>1. IsFiniteSet(InTable(u))
    BY InTableIn, CellsAre DEF Sound
  <2>2. Cardinality(InTable(u) \ {a})
          = IF a \in InTable(u) THEN Cardinality(InTable(u)) - 1 ELSE Cardinality(InTable(u))
    BY ONLY <2>1, FS_RemoveElement
  <2> HIDE DEF H
  <2> QED BY <1>6, <1>10, <2>2 DEF Sound
<1>14. Moved(v, u, a)
  <2> HIDE DEF H
  <2> QED BY <1>4, <1>6, <1>10 DEF Moved
<1> QED BY <1>1, <1>8, <1>11, <1>12, <1>13, <1>14 DEF Sound

HeapOK == /\ DOMAIN objs \subseteq Cell /\ objs \in [DOMAIN objs -> Kind]
          /\ \A a \in DOMAIN objs : Body(a) \subseteq Cell
          /\ \A a, d \in DOMAIN objs : a # d => Body(a) \cap Body(d) = {}
          /\ mem \in [Cell -> Nat] /\ data \in [Global -> Nat]
          /\ rooted \subseteq Global /\ stack \in [1 .. StackSize -> Nat]

(* A word that must hold on to an object, and one that may. *)
Points(w, a, interior) == IF interior THEN w \in Within(a) ELSE w = a
Touches(w, a, interior) == IF interior THEN w \in Body(a) ELSE w = a

IsBelow(f, u, b, w) ==
    \/ f = NULL /\ \A a \in u.hroots[bucket(b, u.log2_size)] : ~(a <= w)
    \/ /\ f \in u.hroots[bucket(b, u.log2_size)] /\ f <= w
       /\ \A a \in u.hroots[bucket(b, u.log2_size)] : a <= w => a <= f

LEMMA FirstBelowIs ==
  ASSUME NEW u, IsTable(u), NEW b \in Int, NEW w \in Nat
  PROVE  /\ IsBelow(FirstBelow(u, b, w), u, b, w)
         /\ u.hroots[bucket(b, u.log2_size)] \subseteq InTable(u)
<1>1. PICK h : h = u.hroots[bucket(b, u.log2_size)] /\ h \subseteq Cell /\ h \subseteq InTable(u)
  <2>1. PICK n : n = bucket(b, u.log2_size)
    OBVIOUS
  <2>2. n \in 0 .. Power2[u.log2_size] - 1
    BY <2>1, BucketIn DEF IsTable
  <2>3. n \in DOMAIN u.hroots /\ u.hroots[n] \subseteq Cell
    BY <2>2 DEF IsTable
  <2>4. u.hroots[n] \subseteq InTable(u)
    BY <2>3 DEF InTable
  <2> QED BY <2>1, <2>3, <2>4
<1> DEFINE below == {a \in h : a <= w}
<1>2. PICK f : f = FirstBelow(u, b, w)
  OBVIOUS
<1>3. f = IF below = {} THEN NULL ELSE Greatest(below)
  BY <1>1, <1>2 DEF FirstBelow
<1>4. CASE below = {}
  <2>1. \A a \in h : ~(a <= w)
    BY <1>4
  <2> QED BY <1>1, <1>2, <1>3, <1>4, <2>1 DEF IsBelow
<1>5. CASE below # {}
  <2>1. below \subseteq Int /\ IsFiniteSet(below)
    BY <1>1, CellsAre
  <2>2. Greatest(below) \in below /\ \A a \in below : a <= Greatest(below)
    <3> HIDE DEF below
    <3> QED BY <1>5, <2>1, GreatestIn
  <2>3. f \in h /\ f <= w /\ \A a \in h : a <= w => a <= f
    BY <1>3, <1>5, <2>2
  <2> QED BY <1>1, <1>2, <2>3 DEF IsBelow
<1> QED BY <1>1, <1>4, <1>5

FindsIt(f, u, w, interior) ==
    /\ f = NULL \/ (f \in InTable(u) /\ Touches(w, f, interior))
    /\ \A a \in InTable(u) : Points(w, a, interior) => f = a

LEMMA BodyIs ==
  ASSUME HeapOK, NEW a \in DOMAIN objs
  PROVE  /\ a \in Int /\ a # 0 /\ objs[a].words \in Nat \ {0}
         /\ \A w \in Int : w \in Body(a) <=> a <= w /\ w - a < objs[a].words
<1>1. objs[a] \in Kind
  BY DEF HeapOK
<1>2. objs[a].words \in Nat \ {0}
  BY <1>1, KindAssumption
<1>3. a \in Int /\ a # 0
  BY CellsAre DEF HeapOK
<1> QED BY <1>2, <1>3 DEF Body, Extent

LEMMA FoundRight ==
  ASSUME HeapOK, NEW u, Sound(u, DOMAIN objs), NEW w \in Nat, NEW interior \in BOOLEAN
  PROVE  FindsIt(Found(u, w, interior), u, w, interior)
<1>1. InTable(u) \subseteq DOMAIN objs /\ InTable(u) \subseteq Cell
  BY InTableIn DEF Sound, Parts
<1>2. PICK here : here = FirstBelow(u, block(w), w)
  OBVIOUS
<1>3. PICK before : before = FirstBelow(u, block(w) - 1, w)
  OBVIOUS
<1>4. block(w) \in Int /\ block(w) - 1 \in Int
  BY BlockIs
<1>5. IsBelow(here, u, block(w), w) /\ u.hroots[bucket(block(w), u.log2_size)] \subseteq InTable(u)
  BY <1>2, <1>4, FirstBelowIs DEF Sound
<1>6. /\ IsBelow(before, u, block(w) - 1, w)
      /\ u.hroots[bucket(block(w) - 1, u.log2_size)] \subseteq InTable(u)
  BY <1>3, <1>4, FirstBelowIs DEF Sound
<1>7. PICK f : f = Found(u, w, interior)
  OBVIOUS
<1>8. f = IF w < u.min_obj_addr \/ w >= u.max_obj_addr THEN NULL
          ELSE IF ~interior THEN IF here = w THEN here ELSE NULL
          ELSE IF Covers(here, w) THEN here
          ELSE IF Covers(before, w) THEN before ELSE NULL
  BY <1>2, <1>3, <1>7 DEF Found
<1>9. ASSUME NEW a \in InTable(u), NEW b \in Int, a <= w,
             a \in u.hroots[bucket(b, u.log2_size)]
      PROVE  w \in Body(a) => \A g : IsBelow(g, u, b, w) => g = a /\ Covers(g, w)
  <2>1. SUFFICES ASSUME w \in Body(a), NEW g, IsBelow(g, u, b, w) PROVE g = a /\ Covers(g, w)
    OBVIOUS
  <2>2. a \in DOMAIN objs /\ a \in Int
    BY <1>1, BodyIs
  <2>3. g \in u.hroots[bucket(b, u.log2_size)] /\ g <= w /\ a <= g
    BY <1>9, <2>1 DEF IsBelow
  <2>4. g \in InTable(u)
    <3>1. u.hroots[bucket(b, u.log2_size)] \subseteq InTable(u)
      BY FirstBelowIs DEF Sound
    <3> QED BY <2>3, <3>1
  <2>5. g \in DOMAIN objs /\ g \in Int /\ objs[g].words \in Nat \ {0}
    BY <1>1, <2>4, BodyIs
  <2>6. w - a < objs[a].words /\ objs[a].words \in Nat /\ a # 0
    BY <2>1, <2>2, BodyIs
  <2>7. g \in Body(a)
    BY <2>2, <2>3, <2>5, <2>6, BodyIs
  <2>8. g \in Body(g)
    BY <2>5, BodyIs
  <2>9. g = a
    BY <2>2, <2>5, <2>7, <2>8 DEF HeapOK
  <2> QED BY <2>6, <2>9 DEF Covers, NULL
<1>10. ASSUME NEW a \in InTable(u)
       PROVE  /\ a \in u.hroots[bucket(block(a), u.log2_size)]
              /\ u.min_obj_addr <= a /\ a + BlockSize <= u.max_obj_addr
              /\ u.min_obj_addr \in Int /\ u.max_obj_addr \in Int /\ a \in DOMAIN objs
  <2>1. /\ bucket(block(a), u.log2_size) \in DOMAIN u.hroots
        /\ a \in u.hroots[bucket(block(a), u.log2_size)]
    BY <1>1, InItsChain DEF Sound
  <2> QED BY <1>1, <2>1 DEF Sound, Chained, IsTable
<1>11. ASSUME NEW g, NEW b \in Int, IsBelow(g, u, b, w), Covers(g, w)
       PROVE  g \in InTable(u) /\ w \in Body(g)
  <2>1. g # NULL
    BY <1>11 DEF Covers
  <2>2. g \in u.hroots[bucket(b, u.log2_size)] /\ g <= w
    BY <1>11, <2>1 DEF IsBelow
  <2>3. g \in InTable(u)
    <3>1. u.hroots[bucket(b, u.log2_size)] \subseteq InTable(u)
      BY FirstBelowIs DEF Sound
    <3> QED BY <2>2, <3>1
  <2>4. g \in DOMAIN objs
    BY <1>1, <2>3
  <2> QED BY <1>11, <2>2, <2>3, <2>4, BodyIs DEF Covers
<1>12. f = NULL \/ (f \in InTable(u) /\ Touches(w, f, interior))
  <2>1. CASE f = NULL
    BY <2>1
  <2>2. CASE f # NULL /\ ~interior
    <3>1. f = w /\ f = here
      BY <1>8, <2>2
    <3>2. f \in InTable(u)
      BY <1>5, <2>2, <3>1 DEF IsBelow
    <3> QED BY <2>2, <3>1, <3>2 DEF Touches
  <2>3. CASE f # NULL /\ interior
    <3>1. (f = here /\ Covers(here, w)) \/ (f = before /\ Covers(before, w))
      BY <1>8, <2>3
    <3>2. f \in InTable(u) /\ w \in Body(f)
      BY <1>4, <1>5, <1>6, <1>11, <3>1
    <3> QED BY <2>3, <3>2 DEF Touches
  <2> QED BY <2>1, <2>2, <2>3
<1>13. ASSUME NEW a \in InTable(u), Points(w, a, interior) PROVE f = a
  <2>1. a \in DOMAIN objs /\ a \in Int /\ objs[a].words \in Nat \ {0} /\ a # 0
    BY <1>1, BodyIs
  <2>2. w \in Body(a) /\ w \in a .. a + BlockSize - 1
    <3>1. CASE interior
      BY <1>13, <3>1 DEF Points, Within
    <3>2. CASE ~interior
      <4>1. w = a
        BY <1>13, <3>2 DEF Points
      <4> QED BY <2>1, <4>1, BodyIs, BlockAssumption
    <3> QED BY <3>1, <3>2
  <2>3. a <= w /\ w < a + BlockSize /\ BlockSize \in Int
    BY <2>1, <2>2, BlockAssumption
  <2>4. ~(w < u.min_obj_addr \/ w >= u.max_obj_addr)
    BY <1>10, <2>1, <2>3
  <2>5. CASE ~interior
    <3>1. w = a
      BY <1>13, <2>5 DEF Points
    <3>2. here = a
      BY <1>4, <1>5, <1>9, <1>10, <2>2, <2>3, <3>1
    <3> QED BY <1>8, <2>4, <2>5, <3>1, <3>2
  <2>6. CASE interior
    <3>1. ASSUME NEW g, NEW b \in Int, IsBelow(g, u, b, w), Covers(g, w) PROVE g = a
      <4>1. g \in InTable(u) /\ w \in Body(g)
        BY <1>11, <3>1
      <4>2. g \in DOMAIN objs
        BY <1>1, <4>1
      <4> QED BY <2>1, <2>2, <4>1, <4>2 DEF HeapOK
    <3>2. Covers(here, w) => here = a
      BY <1>4, <1>5, <3>1
    <3>3. Covers(before, w) => before = a
      BY <1>4, <1>6, <3>1
    <3>4. Covers(here, w) \/ Covers(before, w)
      <4>1. block(w) = block(a) \/ block(w) - 1 = block(a)
        BY <2>1, <2>2, BlocksOf
      <4>2. a \in u.hroots[bucket(block(a), u.log2_size)]
        BY <1>10
      <4>3. CASE block(w) = block(a)
        BY <1>4, <1>5, <1>9, <2>2, <2>3, <4>2, <4>3
      <4>4. CASE block(w) - 1 = block(a)
        BY <1>4, <1>6, <1>9, <2>2, <2>3, <4>2, <4>4
      <4> QED BY <4>1, <4>3, <4>4
    <3> QED BY <1>8, <2>4, <2>6, <3>2, <3>3, <3>4
  <2> QED BY <2>5, <2>6
<1> QED BY <1>7, <1>12, <1>13 DEF FindsIt

-----------------------------------------------------------------------------
(* Scanning: what has been found is marked or will be followed. *)

Known(u) == u.marked_list \cup u.follow_list

Grown(v, u) ==
    /\ v.log2_size = u.log2_size /\ v.free_list = u.free_list
    /\ u.marked_list \subseteq v.marked_list /\ u.follow_list \subseteq v.follow_list
    /\ \A a \in v.marked_list \ u.marked_list : objs[a].atomic
    /\ \A a \in v.follow_list \ u.follow_list : ~objs[a].atomic

AllFound(v, words, n, interior) ==
    \A k \in 1 .. n : \A a \in DOMAIN objs :
       Points(words[k], a, interior) => a \in Known(v) \cup v.free_list

OnlyFound(v, u, words, n, interior) ==
    \A a \in Known(v) \ Known(u) : \E k \in 1 .. n : Touches(words[k], a, interior)

Scans(v, u, words, n, interior) ==
    /\ Sound(v, DOMAIN objs) /\ Grown(v, u)
    /\ AllFound(v, words, n, interior) /\ OnlyFound(v, u, words, n, interior)

LEMMA ScanTurn ==
  ASSUME HeapOK, NEW u, NEW v, NEW words, NEW n \in Nat, NEW interior \in BOOLEAN,
         Scans(v, u, words, n, interior), words[n + 1] \in Nat, NEW x,
         x = IF Found(v, words[n + 1], interior) = NULL THEN v
             ELSE Marked(v, Found(v, words[n + 1], interior))
  PROVE  Scans(x, u, words, n + 1, interior)
<1>1. PICK w \in Nat : w = words[n + 1]
  OBVIOUS
<1>2. PICK f : f = Found(v, w, interior)
  OBVIOUS
<1>3. FindsIt(f, v, w, interior)
  BY <1>1, <1>2, FoundRight DEF Scans
<1>4. x = IF f = NULL THEN v ELSE Marked(v, f)
  BY <1>1, <1>2
<1>5. /\ Sound(x, DOMAIN objs) /\ Grown(x, v)
      /\ Known(v) \subseteq Known(x) /\ Known(x) \subseteq Known(v) \cup {f}
      /\ f = NULL => Known(x) = Known(v)
      /\ f # NULL => f \in Known(x)
  <2>1. CASE f = NULL
    <3>1. x = v
      BY <1>4, <2>1
    <3> QED BY <2>1, <3>1 DEF Scans, Grown
  <2>2. CASE f # NULL
    <3>1. f \in InTable(v) /\ x = Marked(v, f)
      BY <1>3, <1>4, <2>2 DEF FindsIt
    <3>2. Sound(x, DOMAIN objs) /\ Moved(x, v, f)
      BY <3>1, MarkedSound DEF Scans
    <3> QED BY <2>2, <3>2 DEF Moved, Grown, Known
  <2> QED BY <2>1, <2>2
<1>6. Grown(x, u)
  <2>1. Grown(v, u) /\ Grown(x, v)
    BY <1>5 DEF Scans
  <2> QED BY <2>1 DEF Grown
<1>7. AllFound(x, words, n + 1, interior)
  <2>1. SUFFICES ASSUME NEW k \in 1 .. n + 1, NEW a \in DOMAIN objs,
                        Points(words[k], a, interior)
                 PROVE  a \in Known(x) \cup x.free_list
    BY DEF AllFound
  <2>2. x.free_list = v.free_list
    BY <1>5 DEF Grown
  <2>3. CASE k \in 1 .. n
    BY <1>5, <2>1, <2>2, <2>3 DEF Scans, AllFound
  <2>4. CASE k = n + 1
    <3>1. Points(w, a, interior)
      BY <1>1, <2>1, <2>4
    <3>2. a \in InTable(v) \/ a \in Known(v) \cup v.free_list
      BY DEF Scans, Sound, Parts, Known
    <3>3. CASE a \in InTable(v)
      <4>1. f = a
        BY <1>3, <3>1, <3>3 DEF FindsIt
      <4>2. a # NULL
        BY BodyIs DEF NULL
      <4> QED BY <1>5, <4>1, <4>2
    <3>4. CASE a \in Known(v) \cup v.free_list
      BY <1>5, <2>2, <3>4
    <3> QED BY <3>2, <3>3, <3>4
  <2> QED BY <2>3, <2>4
<1>8. OnlyFound(x, u, words, n + 1, interior)
  <2>1. SUFFICES ASSUME NEW a \in Known(x) \ Known(u)
                 PROVE  \E k \in 1 .. n + 1 : Touches(words[k], a, interior)
    BY DEF OnlyFound
  <2>2. CASE a \in Known(v)
    <3>1. PICK k \in 1 .. n : Touches(words[k], a, interior)
      BY <2>2 DEF Scans, OnlyFound
    <3>2. k \in 1 .. n + 1
      OBVIOUS
    <3> QED BY <3>1, <3>2
  <2>3. CASE a \notin Known(v)
    <3>1. a = f /\ f # NULL
      BY <1>5, <2>3
    <3>2. Touches(w, a, interior)
      BY <1>3, <3>1 DEF FindsIt
    <3>3. n + 1 \in 1 .. n + 1
      OBVIOUS
    <3> QED BY <1>1, <3>2, <3>3
  <2> QED BY <2>2, <2>3
<1> QED BY <1>5, <1>6, <1>7, <1>8 DEF Scans

LEMMA ScanRegionScans ==
  ASSUME HeapOK, NEW u, Sound(u, DOMAIN objs), NEW words, NEW n \in Nat,
         \A k \in 1 .. n : words[k] \in Nat, NEW interior \in BOOLEAN
  PROVE  Scans(ScanRegion(u, words, n, interior), u, words, n, interior)
<1> DEFINE Turn(v, k) == IF Found(v, words[k], interior) = NULL THEN v
                         ELSE Marked(v, Found(v, words[k], interior))
           Is(f, m) == f = [k \in 0 .. m |-> IF k = 0 THEN u ELSE Turn(f[k - 1], k)]
           scanned == CHOOSE f : Is(f, n)
<1>1. \A m \in Nat : \E f : Is(f, m)
  <2> DEFINE S == {m \in Nat : \E f : Is(f, m)}
  <2> HIDE DEF Turn
  <2>1. 0 \in S
    <3>1. Is([k \in 0 .. 0 |-> u], 0)
      OBVIOUS
    <3> QED BY <3>1
  <2>2. ASSUME NEW m \in Nat, m \in S PROVE m + 1 \in S
    <3>1. PICK f : Is(f, m)
      BY <2>2
    <3> DEFINE g == [k \in 0 .. m + 1 |-> IF k <= m THEN f[k] ELSE Turn(f[m], k)]
    <3>2. Is(g, m + 1)
      BY <3>1
    <3> HIDE DEF Is
    <3> QED BY <3>2
  <2> HIDE DEF S
  <2>3. \A m \in Nat : m \in S
    BY <2>1, <2>2, NatInd
  <2> QED BY <2>3 DEF S
<1>2. ScanRegion(u, words, n, interior) = scanned[n]
  BY DEF ScanRegion
<1>3. PICK f : Is(f, n) /\ ScanRegion(u, words, n, interior) = f[n]
  <2>1. Is(scanned, n)
    <3> HIDE DEF Is
    <3> QED BY <1>1
  <2> HIDE DEF Is, scanned
  <2> QED BY <1>2, <2>1
<1> DEFINE X == {k \in Nat : k <= n => Scans(f[k], u, words, k, interior)}
<1>4. 0 \in X
  <2>1. f[0] = u
    BY <1>3
  <2>2. Scans(u, u, words, 0, interior)
    BY DEF Scans, Grown, AllFound, OnlyFound
  <2> QED BY <2>1, <2>2
<1>5. ASSUME NEW k \in Nat, k \in X PROVE k + 1 \in X
  <2>1. SUFFICES ASSUME k + 1 <= n PROVE Scans(f[k + 1], u, words, k + 1, interior)
    OBVIOUS
  <2>2. k + 1 \in 0 .. n /\ k + 1 \in 1 .. n /\ k + 1 # 0 /\ (k + 1) - 1 = k
    BY <2>1
  <2>3. f[k + 1] = Turn(f[k], k + 1)
    <3> HIDE DEF Turn
    <3> QED BY <1>3, <2>2
  <2>4. Scans(f[k], u, words, k, interior)
    BY <1>5, <2>1
  <2>5. words[k + 1] \in Nat
    BY <2>2
  <2> HIDE DEF Is
  <2> QED BY <2>3, <2>4, <2>5, ScanTurn
<1>6. n \in X
  <2> HIDE DEF X
  <2> QED BY <1>4, <1>5, NatInd
<1> QED BY <1>3, <1>6

RootsOK ==
    /\ dataroots \in Seq([from : Nat, to : Nat])
    /\ rooted = UNION {dataroots[n].from .. dataroots[n].to - 1 : n \in DOMAIN dataroots}
    /\ \A n \in DOMAIN dataroots : /\ dataroots[n].from < dataroots[n].to
                                   /\ n > 1 => dataroots[n - 1].to < dataroots[n].from

(* The first n regions have been scanned. *)
RootsFound(v, n) ==
    \A k \in 1 .. n : \A g \in dataroots[k].from .. dataroots[k].to - 1 :
       data[g] \in DOMAIN objs => data[g] \in Known(v) \cup v.free_list

RootsScanned(v, u, n) ==
    /\ Sound(v, DOMAIN objs) /\ Grown(v, u) /\ RootsFound(v, n)
    /\ \A a \in Known(v) \ Known(u) : \E g \in rooted : data[g] = a

LEMMA RootTurn ==
  ASSUME HeapOK, RootsOK, NEW u, NEW v, NEW n \in Nat, n + 1 \in DOMAIN dataroots,
         RootsScanned(v, u, n)
  PROVE  RootsScanned(RootScan(v, dataroots[n + 1]), u, n + 1)
<1>1. PICK d : d = dataroots[n + 1] /\ d \in [from : Nat, to : Nat] /\ d.from < d.to
  <2>1. PICK S : S = [from : Nat, to : Nat] /\ dataroots \in Seq(S)
    BY DEF RootsOK
  <2>2. dataroots[n + 1] \in [from : Nat, to : Nat]
    <3>1. PICK ds : ds = dataroots
      OBVIOUS
    <3>2. PICK k \in Nat : k = n + 1
      OBVIOUS
    <3>3. ds \in Seq(S) /\ k \in DOMAIN ds
      BY <2>1, <3>1, <3>2
    <3>4. k \in 1 .. Len(ds)
      BY <3>3
    <3>5. ds[k] \in S
      BY <3>3, <3>4
    <3> QED BY <2>1, <3>1, <3>2, <3>5
  <2>3. dataroots[n + 1].from < dataroots[n + 1].to
    BY DEF RootsOK
  <2> QED BY <2>2, <2>3
<1>2. PICK x : x = RootScan(v, d)
  OBVIOUS
<1> DEFINE words == [k \in 1 .. size(d) |-> data[d.from + k - 1]]
<1>3. /\ size(d) \in Nat /\ size(d) = d.to - d.from
      /\ \A g \in d.from .. d.to - 1 : g \in rooted /\ data[g] \in Nat
      /\ \A k \in 1 .. size(d) : d.from + k - 1 \in d.from .. d.to - 1
  <2>1. \A g \in d.from .. d.to - 1 : g \in rooted
    BY <1>1 DEF RootsOK
  <2> QED BY <1>1, <2>1 DEF HeapOK, size
<1>4. \A k \in 1 .. size(d) : words[k] = data[d.from + k - 1] /\ words[k] \in Nat
  BY <1>3
<1>5. Scans(x, v, words, size(d), FALSE)
  <2>1. x = ScanRegion(v, words, size(d), FALSE)
    BY <1>2 DEF RootScan
  <2>2. Sound(v, DOMAIN objs)
    BY DEF RootsScanned
  <2> HIDE DEF words
  <2> QED BY <1>3, <1>4, <2>1, <2>2, ScanRegionScans
<1>6. Grown(x, u)
  BY <1>5 DEF Scans, RootsScanned, Grown
<1>7. Known(v) \subseteq Known(x) /\ x.free_list = v.free_list
  BY <1>5 DEF Scans, Grown, Known
<1>8. RootsFound(x, n + 1)
  <2>1. SUFFICES ASSUME NEW k \in 1 .. n + 1, NEW g \in dataroots[k].from .. dataroots[k].to - 1,
                        data[g] \in DOMAIN objs
                 PROVE  data[g] \in Known(x) \cup x.free_list
    BY DEF RootsFound
  <2>2. CASE k \in 1 .. n
    BY <1>7, <2>1, <2>2 DEF RootsScanned, RootsFound
  <2>3. CASE k = n + 1
    <3>1. g \in d.from .. d.to - 1
      BY <1>1, <2>3
    <3>2. PICK m \in 1 .. size(d) : d.from + m - 1 = g
      <4>1. g - d.from + 1 \in 1 .. size(d) /\ d.from + (g - d.from + 1) - 1 = g
        BY <1>1, <1>3, <3>1
      <4> QED BY <4>1
    <3>3. words[m] = data[g]
      BY <1>4, <3>2
    <3>4. Points(words[m], data[g], FALSE)
      BY <3>3 DEF Points
    <3> HIDE DEF words
    <3> QED BY <1>5, <2>1, <3>4 DEF Scans, AllFound
  <2> QED BY <2>2, <2>3
<1>9. ASSUME NEW a \in Known(x) \ Known(u) PROVE \E g \in rooted : data[g] = a
  <2>1. CASE a \in Known(v)
    BY <2>1 DEF RootsScanned
  <2>2. CASE a \notin Known(v)
    <3>1. PICK k \in 1 .. size(d) : Touches(words[k], a, FALSE)
      <4> HIDE DEF words
      <4> QED BY <1>5, <2>2 DEF Scans, OnlyFound
    <3>2. words[k] = a
      <4> HIDE DEF words
      <4> QED BY <3>1 DEF Touches
    <3>3. data[d.from + k - 1] = a /\ d.from + k - 1 \in rooted
      BY <1>3, <1>4, <3>2
    <3> QED BY <3>3
  <2> QED BY <2>1, <2>2
<1>10. Sound(x, DOMAIN objs)
  BY <1>5 DEF Scans
<1> QED BY <1>1, <1>2, <1>6, <1>8, <1>9, <1>10 DEF RootsScanned

LEMMA RootsScanScans ==
  ASSUME HeapOK, RootsOK, NEW u, Sound(u, DOMAIN objs)
  PROVE  RootsScanned(RootsScan(u), u, Len(dataroots))
<1>1. PICK N \in Nat : N = Len(dataroots) /\ DOMAIN dataroots = 1 .. N
  BY DEF RootsOK
<1> DEFINE Turn(v, k) == RootScan(v, dataroots[k])
           Is(f, m) == f = [k \in 0 .. m |-> IF k = 0 THEN u ELSE Turn(f[k - 1], k)]
           scanned == CHOOSE f : Is(f, N)
<1>2. \A m \in Nat : \E f : Is(f, m)
  <2> DEFINE S == {m \in Nat : \E f : Is(f, m)}
  <2> HIDE DEF Turn
  <2>1. 0 \in S
    <3>1. Is([k \in 0 .. 0 |-> u], 0)
      OBVIOUS
    <3> QED BY <3>1
  <2>2. ASSUME NEW m \in Nat, m \in S PROVE m + 1 \in S
    <3>1. PICK f : Is(f, m)
      BY <2>2
    <3> DEFINE g == [k \in 0 .. m + 1 |-> IF k <= m THEN f[k] ELSE Turn(f[m], k)]
    <3>2. Is(g, m + 1)
      BY <3>1
    <3> HIDE DEF Is
    <3> QED BY <3>2
  <2> HIDE DEF S
  <2>3. \A m \in Nat : m \in S
    BY <2>1, <2>2, NatInd
  <2> QED BY <2>3 DEF S
<1>3. PICK f : Is(f, N) /\ RootsScan(u) = f[N]
  <2>1. RootsScan(u) = scanned[N]
    BY <1>1 DEF RootsScan
  <2>2. Is(scanned, N)
    <3> HIDE DEF Is
    <3> QED BY <1>2
  <2> HIDE DEF Is, scanned
  <2> QED BY <2>1, <2>2
<1> DEFINE X == {k \in Nat : k <= N => RootsScanned(f[k], u, k)}
<1>4. 0 \in X
  <2>1. f[0] = u
    BY <1>3
  <2>2. RootsScanned(u, u, 0)
    BY DEF RootsScanned, Grown, RootsFound
  <2> QED BY <2>1, <2>2
<1>5. ASSUME NEW k \in Nat, k \in X PROVE k + 1 \in X
  <2>1. SUFFICES ASSUME k + 1 <= N PROVE RootsScanned(f[k + 1], u, k + 1)
    OBVIOUS
  <2>2. k + 1 \in 0 .. N /\ k + 1 \in 1 .. N /\ k + 1 # 0 /\ (k + 1) - 1 = k
    BY <2>1
  <2>3. f[k + 1] = RootScan(f[k], dataroots[k + 1])
    BY <1>3, <2>2
  <2>4. RootsScanned(f[k], u, k)
    BY <1>5, <2>1
  <2>5. k + 1 \in DOMAIN dataroots
    BY <1>1, <2>2
  <2> HIDE DEF Is
  <2>6. RootsScanned(RootScan(f[k], dataroots[k + 1]), u, k + 1)
    BY <2>4, <2>5, RootTurn
  <2> QED BY <2>3, <2>6
<1>6. N \in X
  <2> HIDE DEF X
  <2> QED BY <1>4, <1>5, NatInd
<1> QED BY <1>1, <1>3, <1>6

-----------------------------------------------------------------------------
(* Following. *)

(* The pointers in what is marked have been followed. *)
Done(v) == \A a \in v.marked_list : ~objs[a].atomic =>
              \A c \in Body(a) : mem[c] \in DOMAIN objs => mem[c] \in Known(v) \cup v.free_list

Following(v, u, H) ==
    /\ Sound(v, DOMAIN objs) /\ v.log2_size = u.log2_size /\ v.free_list = u.free_list
    /\ \A a \in v.follow_list : ~objs[a].atomic
    /\ Done(v) /\ Known(u) \subseteq Known(v) /\ Known(v) \subseteq H

LEMMA FollowTurn ==
  ASSUME HeapOK, NEW H, Closed(H), NEW u, NEW v, Following(v, u, H)
  PROVE  /\ Following(FollowOne(v), u, H)
         /\ IF v.follow_list = {} THEN FollowOne(v) = v
            ELSE \E a \in FollowOne(v).marked_list \ v.marked_list :
                   v.marked_list \subseteq FollowOne(v).marked_list
<1>1. CASE v.follow_list = {}
  <2>1. FollowOne(v) = v
    BY <1>1 DEF FollowOne
  <2> QED BY <1>1, <2>1
<1>2. CASE v.follow_list # {}
  <2>1. PICK a \in v.follow_list : a = CHOOSE b \in v.follow_list : TRUE
    BY <1>2
  <2> DEFINE words == [n \in 1 .. objs[a].words |-> mem[a + n - 1]]
  <2>2. PICK x : x = [v EXCEPT !.follow_list = @ \ {a}, !.marked_list = @ \cup {a}]
    OBVIOUS
  <2>3. PICK y : y = FollowOne(v)
    OBVIOUS
  <2>4. y = ScanRegion(x, words, objs[a].words, FALSE)
    BY <1>2, <2>1, <2>2, <2>3 DEF FollowOne
  <2>5. /\ a \in DOMAIN objs /\ ~objs[a].atomic
        /\ a \in Int /\ objs[a].words \in Nat
        /\ \A w \in Int : w \in Body(a) <=> a <= w /\ w - a < objs[a].words
    BY BodyIs DEF Following, Sound, Parts
  <2>6. \A n \in 1 .. objs[a].words : a + n - 1 \in Body(a) /\ words[n] = mem[a + n - 1]
    BY <2>5
  <2>7. \A n \in 1 .. objs[a].words : words[n] \in Nat
    BY <2>5, <2>6 DEF HeapOK
  <2>8. /\ x.log2_size = v.log2_size /\ x.hroots = v.hroots /\ x.count = v.count
        /\ x.min_obj_addr = v.min_obj_addr /\ x.max_obj_addr = v.max_obj_addr
        /\ x.follow_list = v.follow_list \ {a} /\ x.marked_list = v.marked_list \cup {a}
        /\ x.free_list = v.free_list
        /\ x = [log2_size |-> x.log2_size, hroots |-> x.hroots, count |-> x.count,
                min_obj_addr |-> x.min_obj_addr, max_obj_addr |-> x.max_obj_addr,
                marked_list |-> x.marked_list, follow_list |-> x.follow_list,
                free_list |-> x.free_list]
    <3>1. PICK lo, h, c, mn, mx, m, f, fr :
            /\ v = [log2_size |-> lo, hroots |-> h, count |-> c, min_obj_addr |-> mn,
                    max_obj_addr |-> mx, marked_list |-> m, follow_list |-> f, free_list |-> fr]
      BY DEF Following, Sound, IsTable
    <3> QED BY <2>2, <3>1
  <2>9. Sound(x, DOMAIN objs)
    <3>1. Sound(v, DOMAIN objs)
      BY DEF Following
    <3>2. IsTable(x)
      BY <2>8, <3>1 DEF Sound, IsTable
    <3>3. InTable(x) = InTable(v)
      BY <2>8 DEF InTable
    <3>4. Chained(x)
      BY <2>8, <3>1 DEF Sound, Chained
    <3>5. Parts(x, DOMAIN objs)
      BY <2>1, <2>8, <3>1, <3>3 DEF Sound, Parts
    <3> QED BY <2>8, <3>1, <3>2, <3>3, <3>4, <3>5 DEF Sound
  <2>10. Scans(y, x, words, objs[a].words, FALSE)
    <3> HIDE DEF words
    <3> QED BY <2>4, <2>5, <2>7, <2>9, ScanRegionScans
  <2>11. /\ Known(x) = Known(v) /\ Known(v) \subseteq Known(y)
         /\ y.free_list = v.free_list /\ y.log2_size = v.log2_size
         /\ x.marked_list \subseteq y.marked_list
    BY <2>1, <2>8, <2>10 DEF Scans, Grown, Known
  <2>12. \A b \in y.follow_list : ~objs[b].atomic
    BY <2>8, <2>10 DEF Scans, Grown, Following
  <2>13. Done(y)
    <3>1. SUFFICES ASSUME NEW b \in y.marked_list, ~objs[b].atomic,
                          NEW c \in Body(b), mem[c] \in DOMAIN objs
                   PROVE  mem[c] \in Known(y) \cup y.free_list
      BY DEF Done
    <3>2. b \in x.marked_list
      BY <2>10, <3>1 DEF Scans, Grown
    <3>3. CASE b \in v.marked_list
      BY <2>11, <3>1, <3>3 DEF Following, Done
    <3>4. CASE b = a
      <4>1. c \in Cell
        BY <2>5, <3>1, <3>4 DEF HeapOK
      <4>2. c \in Int
        BY <4>1, CellsAre
      <4>3. c - a + 1 \in 1 .. objs[a].words /\ a + (c - a + 1) - 1 = c
        BY <2>5, <3>4, <4>2
      <4>4. words[c - a + 1] = mem[c]
        BY <2>6, <4>3
      <4>5. Points(words[c - a + 1], mem[c], FALSE)
        BY <4>4 DEF Points
      <4> HIDE DEF words
      <4> QED BY <2>10, <3>1, <4>3, <4>5 DEF Scans, AllFound
    <3> QED BY <2>8, <3>2, <3>3, <3>4
  <2>14. Known(y) \subseteq H
    <3>1. SUFFICES ASSUME NEW b \in Known(y), b \notin Known(v) PROVE b \in H
      BY DEF Following
    <3>2. PICK n \in 1 .. objs[a].words : Touches(words[n], b, FALSE)
      <4> HIDE DEF words
      <4> QED BY <2>10, <2>11, <3>1 DEF Scans, OnlyFound
    <3>3. words[n] = b
      <4> HIDE DEF words
      <4> QED BY <3>2 DEF Touches
    <3>4. mem[a + n - 1] = b /\ a + n - 1 \in Body(a)
      BY <2>6, <3>3
    <3>5. b \in DOMAIN objs
      BY <2>10 DEF Scans, Sound, Parts, Known
    <3>6. a \in H
      BY <2>1 DEF Following, Known
    <3> QED BY <2>5, <3>4, <3>5, <3>6 DEF Closed
  <2>15. Following(y, u, H)
    BY <2>10, <2>11, <2>12, <2>13, <2>14 DEF Following, Scans
  <2>16. a \in y.marked_list /\ a \notin v.marked_list /\ v.marked_list \subseteq y.marked_list
    BY <2>1, <2>8, <2>11 DEF Following, Sound, Parts
  <2> QED BY <1>2, <2>3, <2>15, <2>16
<1> QED BY <1>1, <1>2

LEMMA ScanFollowableEnds ==
  ASSUME HeapOK, NEW H, Closed(H), NEW u, Following(u, u, H)
  PROVE  Following(ScanFollowable(u), u, H) /\ ScanFollowable(u).follow_list = {}
<1>1. IsFiniteSet(DOMAIN objs)
  BY CellsAre DEF HeapOK
<1>2. PICK N \in Nat : N = Cardinality(DOMAIN objs)
  BY <1>1, FS_CardinalityType
<1> DEFINE Turn(v, k) == FollowOne(v)
           Is(f, m) == f = [k \in 0 .. m |-> IF k = 0 THEN u ELSE FollowOne(f[k - 1])]
           turn == CHOOSE f : Is(f, N)
<1>3. \A m \in Nat : \E f : Is(f, m)
  <2> DEFINE S == {m \in Nat : \E f : Is(f, m)}
  <2>1. 0 \in S
    <3>1. Is([k \in 0 .. 0 |-> u], 0)
      OBVIOUS
    <3> QED BY <3>1
  <2>2. ASSUME NEW m \in Nat, m \in S PROVE m + 1 \in S
    <3>1. PICK f : Is(f, m)
      BY <2>2
    <3> DEFINE g == [k \in 0 .. m + 1 |-> IF k <= m THEN f[k] ELSE FollowOne(f[m])]
    <3>2. Is(g, m + 1)
      BY <3>1
    <3> HIDE DEF Is
    <3> QED BY <3>2
  <2> HIDE DEF S
  <2>3. \A m \in Nat : m \in S
    BY <2>1, <2>2, NatInd
  <2> QED BY <2>3 DEF S
<1>4. PICK f : Is(f, N) /\ ScanFollowable(u) = f[N]
  <2>1. ScanFollowable(u) = turn[N]
    BY <1>2 DEF ScanFollowable
  <2>2. Is(turn, N)
    <3> HIDE DEF Is
    <3> QED BY <1>3
  <2> HIDE DEF Is, turn
  <2> QED BY <2>1, <2>2
(* Each turn marks an object, so all have been followed after as many. *)
<1> DEFINE OK(k) == /\ Following(f[k], u, H)
                    /\ f[k].follow_list = {} \/ Cardinality(f[k].marked_list) >= k
           X == {k \in Nat : k <= N => OK(k)}
<1>5. ASSUME NEW v, Following(v, u, H)
      PROVE  /\ IsFiniteSet(v.marked_list) /\ Cardinality(v.marked_list) \in Nat
             /\ v.marked_list \subseteq DOMAIN objs
             /\ v.marked_list \cap v.follow_list = {} /\ v.follow_list \subseteq DOMAIN objs
  <2>1. v.marked_list \subseteq DOMAIN objs
    BY <1>5 DEF Following, Sound, Parts
  <2>2. IsFiniteSet(v.marked_list)
    BY <1>1, <2>1, FS_Subset
  <2> QED BY <1>5, <2>1, <2>2, FS_CardinalityType DEF Following, Sound, Parts
<1>6. 0 \in X
  <2>1. f[0] = u
    BY <1>4
  <2>2. Cardinality(u.marked_list) \in Nat
    BY <1>5
  <2> QED BY <2>1, <2>2
<1>7. ASSUME NEW k \in Nat, k \in X PROVE k + 1 \in X
  <2>1. SUFFICES ASSUME k + 1 <= N PROVE OK(k + 1)
    OBVIOUS
  <2>2. k + 1 \in 0 .. N /\ k + 1 # 0 /\ (k + 1) - 1 = k
    BY <2>1
  <2>3. PICK v : v = f[k] /\ f[k + 1] = FollowOne(v)
    BY <1>4, <2>2
  <2>4. Following(v, u, H) /\ (v.follow_list = {} \/ Cardinality(v.marked_list) >= k)
    BY <1>7, <2>1, <2>3
  <2>5. PICK x : x = FollowOne(v)
    OBVIOUS
  <2>6. /\ Following(x, u, H)
        /\ IF v.follow_list = {} THEN x = v
           ELSE \E a \in x.marked_list \ v.marked_list : v.marked_list \subseteq x.marked_list
    BY <2>4, <2>5, FollowTurn
  <2>7. x.follow_list = {} \/ Cardinality(x.marked_list) >= k + 1
    <3>1. CASE v.follow_list = {}
      BY <2>6, <3>1
    <3>2. CASE v.follow_list # {}
      <4>1. PICK a \in x.marked_list \ v.marked_list : v.marked_list \subseteq x.marked_list
        BY <2>6, <3>2
      <4>2. /\ IsFiniteSet(v.marked_list) /\ Cardinality(v.marked_list) \in Nat
            /\ IsFiniteSet(x.marked_list) /\ Cardinality(x.marked_list) \in Nat
        BY <1>5, <2>4, <2>6
      <4>3. PICK S : S = v.marked_list \cup {a}
        OBVIOUS
      <4>4. IsFiniteSet(S) /\ Cardinality(S) = Cardinality(v.marked_list) + 1
        BY <4>2, <4>3, FS_AddElement
      <4>5. S \subseteq x.marked_list
        BY <4>1, <4>3
      <4>6. Cardinality(S) <= Cardinality(x.marked_list)
        BY <4>2, <4>5, FS_Subset
      <4> QED BY <2>4, <3>2, <4>2, <4>4, <4>6
    <3> QED BY <3>1, <3>2
  <2> QED BY <2>3, <2>5, <2>6, <2>7
<1>8. OK(N)
  <2>1. N \in X
    <3> HIDE DEF X
    <3> QED BY <1>6, <1>7, NatInd
  <2> HIDE DEF OK
  <2> QED BY <2>1
<1>9. f[N].follow_list = {}
  <2>1. PICK v : v = f[N]
    OBVIOUS
  <2>2. Following(v, u, H) /\ (v.follow_list = {} \/ Cardinality(v.marked_list) >= N)
    BY <1>8, <2>1
  <2>3. CASE Cardinality(v.marked_list) >= N
    <3>1. v.marked_list \subseteq DOMAIN objs /\ Cardinality(v.marked_list) \in Nat
      BY <1>5, <2>2
    <3>2. Cardinality(v.marked_list) <= N
      BY <1>1, <1>2, <3>1, FS_Subset
    <3>3. Cardinality(DOMAIN objs) = Cardinality(v.marked_list)
      BY <1>2, <2>3, <3>1, <3>2
    <3>4. DOMAIN objs = v.marked_list
      BY <1>1, <3>1, <3>3, FS_Subset
    <3> QED BY <1>5, <2>1, <2>2, <3>4
  <2> QED BY <2>1, <2>2, <2>3
<1> QED BY <1>4, <1>8, <1>9

-----------------------------------------------------------------------------
(* Reachability. *)

LEMMA AroundIs ==
  ASSUME NEW S
  PROVE  /\ Around(S) \subseteq DOMAIN objs
         /\ S \cap DOMAIN objs \subseteq Around(S)
         /\ Closed(Around(S))
<1>1. Around(S) \subseteq DOMAIN objs
  BY DEF Around
<1>2. S \cap DOMAIN objs \subseteq Around(S)
  BY DEF Around
<1>3. Closed(Around(S))
  <2>1. SUFFICES ASSUME NEW a \in Around(S), ~objs[a].atomic, NEW c \in Body(a),
                        mem[c] \in DOMAIN objs
                 PROVE  mem[c] \in Around(S)
    BY DEF Closed
  <2>2. SUFFICES ASSUME NEW T \in SUBSET DOMAIN objs, S \subseteq T, Closed(T)
                 PROVE  mem[c] \in T
    BY <2>1 DEF Around
  <2>3. a \in T
    BY <2>1, <2>2 DEF Around
  <2> QED BY <2>1, <2>2, <2>3 DEF Closed
<1> QED BY <1>1, <1>2, <1>3

LEMMA AroundLeast ==
  ASSUME NEW S, NEW T, T \subseteq DOMAIN objs, S \subseteq T, Closed(T)
  PROVE  Around(S) \subseteq T
BY DEF Around

LEMMA HeldAre ==
  Held \subseteq DOMAIN objs /\ Held \subseteq Reachable
<1>1. Held \subseteq DOMAIN objs
  BY DEF Held
<1> QED BY <1>1, AroundIs DEF Reachable

-----------------------------------------------------------------------------
(* A collection. *)

LEMMA RefillSound ==
  ASSUME NEW u, NEW D, Sound(u, D), NEW links \in SUBSET u.marked_list
  PROVE  /\ Sound(SomeRefill(u, links), D)
         /\ SomeRefill(u, links).marked_list = u.marked_list \ links
         /\ SomeRefill(u, links).follow_list = u.follow_list
         /\ SomeRefill(u, links).free_list = u.free_list
         /\ SomeRefill(u, links).log2_size = u.log2_size
         /\ InTable(SomeRefill(u, links)) = InTable(u) \cup links
<1>1. PICK v : v = [u EXCEPT !.marked_list = @ \ links]
  OBVIOUS
<1>2. SomeRefill(u, links) = Linked(v, links)
  BY <1>1 DEF SomeRefill
<1>3. /\ v.log2_size = u.log2_size /\ v.hroots = u.hroots /\ v.count = u.count
      /\ v.min_obj_addr = u.min_obj_addr /\ v.max_obj_addr = u.max_obj_addr
      /\ v.follow_list = u.follow_list /\ v.marked_list = u.marked_list \ links
      /\ v.free_list = u.free_list
      /\ v = [log2_size |-> v.log2_size, hroots |-> v.hroots, count |-> v.count,
              min_obj_addr |-> v.min_obj_addr, max_obj_addr |-> v.max_obj_addr,
              marked_list |-> v.marked_list, follow_list |-> v.follow_list,
              free_list |-> v.free_list]
  <2>1. PICK lo, h, c, mn, mx, m, f, fr :
          /\ u = [log2_size |-> lo, hroots |-> h, count |-> c, min_obj_addr |-> mn,
                  max_obj_addr |-> mx, marked_list |-> m, follow_list |-> f, free_list |-> fr]
    BY DEF Sound, IsTable
  <2> QED BY <1>1, <2>1
<1>4. Sound(v, D \ links)
  <2>1. IsTable(v)
    BY <1>3 DEF Sound, IsTable
  <2>2. InTable(v) = InTable(u)
    BY <1>3 DEF InTable
  <2>3. Chained(v)
    BY <1>3 DEF Sound, Chained
  <2>4. Parts(v, D \ links)
    BY <1>3, <2>2 DEF Sound, Parts
  <2> QED BY <1>3, <2>1, <2>2, <2>3, <2>4 DEF Sound
<1>5. links \in SUBSET Cell /\ links \cap (D \ links) = {} /\ (D \ links) \cup links = D
  BY DEF Sound, IsTable, Parts
<1>6. PICK E : E = D \ links
  OBVIOUS
<1>7. Sound(Linked(v, links), E \cup links) /\ Relinked(Linked(v, links), v, links)
  BY <1>4, <1>5, <1>6, LinkedSound
<1>8. InTable(v) = InTable(u)
  BY <1>3 DEF InTable
<1> QED BY <1>2, <1>3, <1>5, <1>6, <1>7, <1>8 DEF Relinked

LEMMA RemoveAllSound ==
  ASSUME NEW u, NEW D, Sound(u, D)
  PROVE  /\ Sound(RemoveAll(u), D) /\ InTable(RemoveAll(u)) = {}
         /\ RemoveAll(u).log2_size = u.log2_size
         /\ RemoveAll(u).marked_list = u.marked_list
         /\ RemoveAll(u).follow_list = u.follow_list
         /\ RemoveAll(u).free_list = u.free_list \cup InTable(u)
<1>1. PICK v : v = RemoveAll(u)
  OBVIOUS
<1>2. PICK T : T = InTable(u) /\ T \subseteq Cell
  BY InTableIn DEF Sound
<1> DEFINE H == Chains(u.log2_size)
<1>3. H \in [0 .. Power2[u.log2_size] - 1 -> SUBSET Cell] /\ \A n \in DOMAIN H : H[n] = {}
  BY DEF Chains
<1> HIDE DEF H
<1>4. /\ v.log2_size = u.log2_size /\ v.hroots = H /\ v.count = 0
      /\ v.min_obj_addr = MaxAddr + 1 /\ v.max_obj_addr = BlockSize
      /\ v.follow_list = u.follow_list /\ v.marked_list = u.marked_list
      /\ v.free_list = u.free_list \cup T
      /\ v = [log2_size |-> v.log2_size, hroots |-> v.hroots, count |-> v.count,
              min_obj_addr |-> v.min_obj_addr, max_obj_addr |-> v.max_obj_addr,
              marked_list |-> v.marked_list, follow_list |-> v.follow_list,
              free_list |-> v.free_list]
  <2>1. PICK lo, h, c, mn, mx, m, f, fr :
          /\ u = [log2_size |-> lo, hroots |-> h, count |-> c, min_obj_addr |-> mn,
                  max_obj_addr |-> mx, marked_list |-> m, follow_list |-> f, free_list |-> fr]
    BY DEF Sound, IsTable
  <2>2. v = [u EXCEPT !.free_list = @ \cup T, !.hroots = H, !.count = 0,
                      !.min_obj_addr = MaxAddr + 1, !.max_obj_addr = BlockSize]
    BY <1>1, <1>2 DEF RemoveAll, H
  <2> QED BY <2>1, <2>2
<1>5. InTable(v) = {}
  BY <1>3, <1>4 DEF InTable
<1>6. IsTable(v)
  <2>1. MaxAddr + 1 \in Int /\ BlockSize \in Int
    BY CellsAre, BlockAssumption
  <2> QED BY <1>2, <1>3, <1>4, <2>1 DEF Sound, IsTable
<1>7. Chained(v)
  BY <1>3, <1>4 DEF Chained
<1>8. Parts(v, D)
  BY <1>2, <1>4, <1>5 DEF Sound, Parts
<1>9. v.count = Cardinality(InTable(v))
  BY <1>4, <1>5, FS_EmptySet
<1> QED BY <1>1, <1>2, <1>4, <1>5, <1>6, <1>7, <1>8, <1>9 DEF Sound

LEMMA ResizedSound ==
  ASSUME NEW u, NEW D, Sound(u, D), InTable(u) = {}, NEW n
  PROVE  /\ Sound(Resized(u, n), D)
         /\ Resized(u, n).marked_list = u.marked_list
         /\ Resized(u, n).follow_list = u.follow_list
         /\ Resized(u, n).free_list = u.free_list
<1>1. PICK v : v = Resized(u, n)
  OBVIOUS
<1> DEFINE H == Chains(u.log2_size + 1)
           w == [u EXCEPT !.log2_size = @ + 1, !.hroots = H]
<1>2. v = u \/ v = w
  BY <1>1 DEF Resized
<1>3. CASE v = u
  BY <1>1, <1>3
<1>4. CASE v = w
  <2>1. H \in [0 .. Power2[u.log2_size + 1] - 1 -> SUBSET Cell] /\ \A k \in DOMAIN H : H[k] = {}
    BY DEF Chains
  <2> HIDE DEF H
  <2>2. /\ v.log2_size = u.log2_size + 1 /\ v.hroots = H /\ v.count = u.count
        /\ v.min_obj_addr = u.min_obj_addr /\ v.max_obj_addr = u.max_obj_addr
        /\ v.follow_list = u.follow_list /\ v.marked_list = u.marked_list
        /\ v.free_list = u.free_list
        /\ v = [log2_size |-> v.log2_size, hroots |-> v.hroots, count |-> v.count,
                min_obj_addr |-> v.min_obj_addr, max_obj_addr |-> v.max_obj_addr,
                marked_list |-> v.marked_list, follow_list |-> v.follow_list,
                free_list |-> v.free_list]
    <3>1. PICK lo, h, c, mn, mx, m, f, fr :
            /\ u = [log2_size |-> lo, hroots |-> h, count |-> c, min_obj_addr |-> mn,
                    max_obj_addr |-> mx, marked_list |-> m, follow_list |-> f, free_list |-> fr]
      BY DEF Sound, IsTable
    <3> QED BY <1>4, <3>1
  <2>3. InTable(v) = {}
    BY <2>1, <2>2 DEF InTable
  <2>4. IsTable(v)
    <3>1. u.log2_size + 1 \in Nat
      BY DEF Sound, IsTable
    <3> QED BY <2>1, <2>2, <3>1 DEF Sound, IsTable
  <2>5. Chained(v)
    BY <2>1, <2>2 DEF Chained
  <2>6. Parts(v, D)
    BY <2>2, <2>3 DEF Sound, Parts
  <2>7. v.count = Cardinality(InTable(v))
    BY <2>2, <2>3 DEF Sound
  <2> QED BY <1>1, <2>2, <2>4, <2>5, <2>6, <2>7 DEF Sound
<1> HIDE DEF w
<1> QED BY <1>2, <1>3, <1>4

(* What a collection makes of the table. *)
CollectedFrom(full) ==
    LET scanned == ScanFollowable(RootsScan(StackScan(full)))
        swept == IF scanned.count = 0 THEN scanned ELSE RemoveAll(scanned)
    IN  IF full.count = 0 THEN full ELSE Resized(swept, full.count)

Spared(v) == /\ v.follow_list = {} /\ v.free_list \cap Reachable = {}
             /\ DOMAIN objs \ v.free_list \subseteq Around(HeldLoosely)

LEMMA CountIsZero ==
  ASSUME NEW u, NEW D, Sound(u, D), u.count = 0
  PROVE  InTable(u) = {}
<1>1. IsFiniteSet(InTable(u))
  BY InTableIn, CellsAre DEF Sound
<1> QED BY <1>1, FS_EmptySet DEF Sound

LEMMA ScannedAll ==
  ASSUME HeapOK, RootsOK, NEW u, Sound(u, DOMAIN objs),
         u.marked_list = {}, u.follow_list = {}, u.free_list \cap Reachable = {},
         NEW v, v = ScanFollowable(RootsScan(StackScan(u)))
  PROVE  /\ Sound(v, DOMAIN objs) /\ v.follow_list = {} /\ v.free_list = u.free_list
         /\ Reachable \subseteq v.marked_list /\ v.marked_list \subseteq Around(HeldLoosely)
<1>1. PICK x : x = StackScan(u)
  OBVIOUS
<1>2. PICK y : y = RootsScan(x)
  OBVIOUS
<1>3. PICK H : H = Around(HeldLoosely)
  OBVIOUS
<1>4. Closed(H) /\ HeldLoosely \subseteq H
  <2>1. HeldLoosely \subseteq DOMAIN objs
    BY DEF HeldLoosely
  <2> QED BY <1>3, <2>1, AroundIs
<1>5. Scans(x, u, stack, StackSize, TRUE)
  <2>1. \A k \in 1 .. StackSize : stack[k] \in Nat
    BY DEF HeapOK
  <2> QED BY <1>1, <2>1, StackAssumption, ScanRegionScans DEF StackScan
<1>6. RootsScanned(y, x, Len(dataroots))
  BY <1>2, <1>5, RootsScanScans DEF Scans
<1>7. /\ Known(u) = {} /\ Known(x) \subseteq Known(y) /\ y.free_list = u.free_list
      /\ x.free_list = u.free_list
      /\ \A a \in y.follow_list : ~objs[a].atomic
      /\ \A a \in y.marked_list : objs[a].atomic
  <2>1. Grown(x, u) /\ Grown(y, x)
    BY <1>5, <1>6 DEF Scans, RootsScanned
  <2>2. Known(x) \subseteq Known(y)
    BY <2>1 DEF Grown, Known
  <2>3. \A a \in y.follow_list : ~objs[a].atomic
    BY <2>1 DEF Grown
  <2>4. \A a \in y.marked_list : objs[a].atomic
    BY <2>1 DEF Grown
  <2> QED BY <2>1, <2>2, <2>3, <2>4 DEF Grown, Known
<1>8. Known(y) \subseteq H
  <2>1. SUFFICES ASSUME NEW a \in Known(y) PROVE a \in HeldLoosely
    BY <1>4
  <2>2. a \in DOMAIN objs
    BY <1>6 DEF RootsScanned, Sound, Parts, Known
  <2>3. CASE a \in Known(x)
    <3>1. PICK k \in 1 .. StackSize : Touches(stack[k], a, TRUE)
      BY <1>5, <1>7, <2>3 DEF Scans, OnlyFound
    <3> QED BY <2>2, <3>1 DEF Touches, HeldLoosely
  <2>4. CASE a \notin Known(x)
    BY <1>6, <2>2, <2>4 DEF RootsScanned, HeldLoosely
  <2> QED BY <2>3, <2>4
<1>9. Following(y, y, H)
  <2>1. Done(y)
    BY <1>7 DEF Done
  <2> QED BY <1>6, <1>7, <1>8, <2>1 DEF Following, RootsScanned
<1>10. Following(v, y, H) /\ v.follow_list = {}
  BY <1>1, <1>2, <1>4, <1>9, ScanFollowableEnds
<1>11. v.free_list = u.free_list /\ Known(v) = v.marked_list /\ Known(y) \subseteq Known(v)
  BY <1>7, <1>10 DEF Following, Known
<1>12. Held \subseteq Known(v)
  <2>1. SUFFICES ASSUME NEW a \in Held PROVE a \in Known(y)
    BY <1>11
  <2>2. a \in DOMAIN objs /\ a \notin u.free_list
    BY HeldAre
  <2>3. CASE \E g \in rooted : data[g] = a
    <3>1. PICK g \in rooted : data[g] = a
      BY <2>3
    <3>2. PICK k \in DOMAIN dataroots : g \in dataroots[k].from .. dataroots[k].to - 1
      BY DEF RootsOK
    <3>3. k \in 1 .. Len(dataroots)
      BY DEF RootsOK
    <3>4. a \in Known(y) \cup y.free_list
      BY <1>6, <2>2, <3>1, <3>2, <3>3 DEF RootsScanned, RootsFound
    <3> QED BY <1>7, <2>2, <3>4
  <2>4. CASE \E s \in 1 .. StackSize : stack[s] \in Within(a)
    <3>1. PICK k \in 1 .. StackSize : stack[k] \in Within(a)
      BY <2>4
    <3>2. Points(stack[k], a, TRUE)
      BY <3>1 DEF Points
    <3>3. a \in Known(x) \cup x.free_list
      BY <1>5, <2>2, <3>2 DEF Scans, AllFound
    <3> QED BY <1>7, <2>2, <3>3
  <2> QED BY <2>3, <2>4 DEF Held
<1>13. Reachable \subseteq Known(v)
  <2>1. PICK T : T = Known(v) \cap Reachable
    OBVIOUS
  <2>2. Closed(Reachable) /\ Reachable \subseteq DOMAIN objs
    BY AroundIs DEF Reachable
  <2>3. Closed(T)
    <3>1. SUFFICES ASSUME NEW a \in T, ~objs[a].atomic, NEW c \in Body(a),
                          mem[c] \in DOMAIN objs
                   PROVE  mem[c] \in T
      BY DEF Closed
    <3>2. mem[c] \in Reachable
      BY <2>1, <2>2, <3>1 DEF Closed
    <3>3. a \in v.marked_list
      BY <1>11, <2>1
    <3>4. mem[c] \in Known(v) \cup v.free_list
      BY <1>10, <3>1, <3>3 DEF Following, Done
    <3>5. mem[c] \notin v.free_list
      BY <1>11, <3>2
    <3> QED BY <2>1, <3>2, <3>4, <3>5
  <2>4. Held \subseteq T /\ T \subseteq DOMAIN objs
    BY <1>12, <2>1, <2>2, HeldAre
  <2>5. Around(Held) \subseteq T
    BY <2>3, <2>4, AroundLeast
  <2> QED BY <2>1, <2>5 DEF Reachable
<1> QED BY <1>3, <1>10, <1>11, <1>13 DEF Following

LEMMA CollectionRight ==
  ASSUME HeapOK, RootsOK, Sound(table, DOMAIN objs), table.follow_list = {},
         table.free_list \cap Reachable = {}
  PROVE  Sound(CollectedFrom(Refilled(table)), DOMAIN objs)
         /\ Spared(CollectedFrom(Refilled(table)))
<1>1. PICK u : u = Refilled(table)
  OBVIOUS
<1>2. /\ Sound(u, DOMAIN objs) /\ u.marked_list = {} /\ u.follow_list = {}
      /\ u.free_list = table.free_list
  <2>1. PICK links \in SUBSET table.marked_list : links = table.marked_list
    OBVIOUS
  <2>2. u = SomeRefill(table, links)
    BY <1>1, <2>1 DEF Refilled
  <2> QED BY <2>1, <2>2, RefillSound
<1>3. PICK v : v = ScanFollowable(RootsScan(StackScan(u)))
  OBVIOUS
<1>4. /\ Sound(v, DOMAIN objs) /\ v.follow_list = {} /\ v.free_list = u.free_list
      /\ Reachable \subseteq v.marked_list /\ v.marked_list \subseteq Around(HeldLoosely)
  BY <1>2, <1>3, ScannedAll
<1>5. PICK w : w = IF v.count = 0 THEN v ELSE RemoveAll(v)
  OBVIOUS
<1>6. /\ Sound(w, DOMAIN objs) /\ InTable(w) = {} /\ w.marked_list = v.marked_list
      /\ w.follow_list = {} /\ w.free_list \cap v.marked_list = {}
  <2>1. CASE v.count = 0
    <3>1. InTable(v) = {}
      BY <1>4, <2>1, CountIsZero
    <3> QED BY <1>4, <1>5, <2>1, <3>1 DEF Sound, Parts
  <2>2. CASE v.count # 0
    BY <1>4, <1>5, <2>2, RemoveAllSound DEF Sound, Parts
  <2> QED BY <2>1, <2>2
<1>7. PICK z : z = CollectedFrom(u)
  OBVIOUS
<1>8. z = IF u.count = 0 THEN u ELSE Resized(w, u.count)
  BY <1>3, <1>5, <1>7 DEF CollectedFrom
<1>9. CASE u.count = 0
  <2>1. InTable(u) = {}
    BY <1>2, <1>9, CountIsZero
  <2>2. DOMAIN objs = u.free_list
    BY <1>2, <2>1 DEF Sound, Parts
  <2> QED BY <1>1, <1>2, <1>7, <1>8, <1>9, <2>2 DEF Spared
<1>10. CASE u.count # 0
  <2>1. /\ Sound(z, DOMAIN objs) /\ z.marked_list = w.marked_list
        /\ z.follow_list = w.follow_list /\ z.free_list = w.free_list
    BY <1>6, <1>8, <1>10, ResizedSound
  <2>2. DOMAIN objs \ z.free_list \subseteq v.marked_list
    <3>1. PICK n : n = u.count
      OBVIOUS
    <3>2. InTable(z) = {} \/ InTable(z) = InTable(w)
      BY <1>6, <1>8, <1>10 DEF Resized, InTable, Chains
    <3> QED BY <1>6, <2>1, <3>2 DEF Sound, Parts
  <2> QED BY <1>1, <1>4, <1>6, <1>7, <2>1, <2>2 DEF Spared
<1> QED BY <1>9, <1>10

-----------------------------------------------------------------------------
(* The program. *)

LEMMA ReachableAfter ==
  ASSUME NEW T, T \subseteq (DOMAIN objs)', Held' \subseteq T, Closed(T)'
  PROVE  Reachable' \subseteq T
BY DEF Reachable, Around

(* The words a program stores hold on to nothing but what it can reach. *)
LEMMA KnownWords ==
  ASSUME HeapOK
  PROVE  /\ Reachable \cup {0} \subseteq Nat
         /\ (UNION {Body(a) : a \in Reachable}) \cup {0} \subseteq Nat
         /\ 0 \notin DOMAIN objs
         /\ \A w \in (UNION {Body(a) : a \in Reachable}) \cup {0}, a \in DOMAIN objs :
               w \in Within(a) => a \in Reachable
<1>1. Reachable \subseteq DOMAIN objs
  BY AroundIs DEF Reachable
<1>2. Cell \subseteq Nat /\ 0 \notin Cell
  BY CellAssumption
<1>3. DOMAIN objs \subseteq Cell /\ \A a \in DOMAIN objs : Body(a) \subseteq Cell
  BY DEF HeapOK
<1>4. (UNION {Body(a) : a \in Reachable}) \cup {0} \subseteq Nat
  <2>1. SUFFICES ASSUME NEW w \in (UNION {Body(a) : a \in Reachable}), w # 0 PROVE w \in Nat
    OBVIOUS
  <2>2. PICK d \in Reachable : w \in Body(d)
    OBVIOUS
  <2> QED BY <1>1, <1>2, <1>3, <2>2
<1>5. ASSUME NEW w \in (UNION {Body(a) : a \in Reachable}) \cup {0}, NEW a \in DOMAIN objs,
             w \in Within(a)
      PROVE  a \in Reachable
  <2>1. w \in Body(a)
    BY <1>5 DEF Within
  <2>2. w # 0
    BY <1>2, <1>3, <2>1
  <2>3. PICK d \in Reachable : w \in Body(d)
    BY <2>2
  <2>4. a = d
    BY <1>1, <2>1, <2>3 DEF HeapOK
  <2> QED BY <2>4
<1> QED BY <1>1, <1>2, <1>3, <1>4, <1>5

LEMMA SameObjects ==
  ASSUME HeapOK, UNCHANGED objs, mem' \in [Cell -> Nat], data' \in [Global -> Nat],
         rooted' \subseteq Global, stack' \in [1 .. StackSize -> Nat]
  PROVE  HeapOK' /\ \A a : Body(a)' = Body(a) /\ Within(a)' = Within(a)
<1>1. \A a : Body(a)' = Body(a)
  BY DEF Body, Extent
<1>2. \A a : Within(a)' = Within(a)
  BY <1>1 DEF Within
<1> QED BY <1>1, <1>2 DEF HeapOK

LEMMA StoreKeeps ==
  ASSUME HeapOK, Store
  PROVE  HeapOK' /\ UNCHANGED <<objs, rooted>> /\ Reachable' \subseteq Reachable
<1>1. PICK T : T = Reachable
  OBVIOUS
<1>2. T \subseteq DOMAIN objs /\ Closed(T) /\ Held \subseteq T
  BY <1>1, AroundIs, HeldAre DEF Reachable
<1>3. PICK W : W = UNION {Body(a) : a \in T}
  OBVIOUS
<1>4. /\ T \cup {0} \subseteq Nat /\ W \cup {0} \subseteq Nat /\ 0 \notin DOMAIN objs
      /\ \A w \in W \cup {0}, a \in DOMAIN objs : w \in Within(a) => a \in T
  BY <1>1, <1>3, KnownWords
<1>5. \/ \E g \in Global, w \in T \cup {0} : StoreGlobal(g, w)
      \/ \E a \in T, w \in T \cup {0} : \E c \in Body(a) : StoreInside(a, c, w)
      \/ \E k \in 1 .. StackSize, w \in W \cup {0} : StoreOnStack(k, w)
  BY <1>1, <1>3 DEF Store
<1>6. ASSUME NEW g \in Global, NEW w \in T \cup {0}, StoreGlobal(g, w)
      PROVE  HeapOK' /\ UNCHANGED <<objs, rooted>> /\ Reachable' \subseteq Reachable
  <2>1. /\ data' = [data EXCEPT ![g] = w] /\ UNCHANGED <<objs, mem, rooted, stack>>
    BY <1>6 DEF StoreGlobal
  <2>2. data' \in [Global -> Nat] /\ \A h \in Global : data'[h] = IF h = g THEN w ELSE data[h]
    BY <1>4, <2>1 DEF HeapOK
  <2>3. HeapOK' /\ \A a : Body(a)' = Body(a) /\ Within(a)' = Within(a)
    BY <2>1, <2>2, SameObjects DEF HeapOK
  <2>4. Held' \subseteq T
    <3>1. SUFFICES ASSUME NEW a \in Held' PROVE a \in T
      OBVIOUS
    <3>2. a \in DOMAIN objs
      BY <2>1 DEF Held
    <3>3. CASE \E h \in rooted : data'[h] = a
      <4>1. PICK h \in rooted : data'[h] = a
        BY <3>3
      <4>2. h \in Global
        BY DEF HeapOK
      <4>3. CASE h = g
        BY <1>4, <2>2, <3>2, <4>1, <4>2, <4>3
      <4>4. CASE h # g
        BY <1>2, <2>2, <3>2, <4>1, <4>2, <4>4 DEF Held
      <4> QED BY <4>3, <4>4
    <3>4. CASE \E k \in 1 .. StackSize : stack[k] \in Within(a)
      BY <1>2, <3>2, <3>4 DEF Held
    <3> QED BY <2>1, <2>3, <3>1, <3>3, <3>4 DEF Held
  <2>5. Closed(T)'
    BY <1>2, <2>1, <2>3 DEF Closed
  <2> QED BY <1>1, <1>2, <2>1, <2>3, <2>4, <2>5, ReachableAfter
<1>7. ASSUME NEW b \in T, NEW w \in T \cup {0}, NEW d \in Body(b), StoreInside(b, d, w)
      PROVE  HeapOK' /\ UNCHANGED <<objs, rooted>> /\ Reachable' \subseteq Reachable
  <2>1. /\ mem' = [mem EXCEPT ![d] = w] /\ UNCHANGED <<objs, data, rooted, stack>>
    BY <1>7 DEF StoreInside
  <2>2. mem' \in [Cell -> Nat] /\ \A c \in Cell : mem'[c] = IF c = d THEN w ELSE mem[c]
    BY <1>4, <2>1 DEF HeapOK
  <2>3. HeapOK' /\ \A a : Body(a)' = Body(a) /\ Within(a)' = Within(a)
    BY <2>1, <2>2, SameObjects DEF HeapOK
  <2>4. Held' = Held
    BY <2>1, <2>3 DEF Held
  <2>5. Closed(T)'
    <3>1. SUFFICES ASSUME NEW a \in T, ~objs[a].atomic, NEW c \in Body(a),
                          mem'[c] \in DOMAIN objs
                   PROVE  mem'[c] \in T
      BY <2>1, <2>3 DEF Closed
    <3>2. c \in Cell
      BY <1>2 DEF HeapOK
    <3>3. CASE c = d
      BY <1>4, <2>2, <3>1, <3>2, <3>3
    <3>4. CASE c # d
      BY <1>2, <2>2, <3>1, <3>2, <3>4 DEF Closed
    <3> QED BY <3>3, <3>4
  <2> QED BY <1>1, <1>2, <2>1, <2>3, <2>4, <2>5, ReachableAfter
<1>8. ASSUME NEW m \in 1 .. StackSize, NEW w \in W \cup {0}, StoreOnStack(m, w)
      PROVE  HeapOK' /\ UNCHANGED <<objs, rooted>> /\ Reachable' \subseteq Reachable
  <2>1. /\ stack' = [stack EXCEPT ![m] = w] /\ UNCHANGED <<objs, mem, data, rooted>>
    BY <1>8 DEF StoreOnStack
  <2>2. /\ stack' \in [1 .. StackSize -> Nat]
        /\ \A k \in 1 .. StackSize : stack'[k] = IF k = m THEN w ELSE stack[k]
    BY <1>4, <2>1 DEF HeapOK
  <2>3. HeapOK' /\ \A a : Body(a)' = Body(a) /\ Within(a)' = Within(a)
    BY <2>1, <2>2, SameObjects DEF HeapOK
  <2>4. Held' \subseteq T
    <3>1. SUFFICES ASSUME NEW a \in Held' PROVE a \in T
      OBVIOUS
    <3>2. a \in DOMAIN objs
      BY <2>1 DEF Held
    <3>3. CASE \E h \in rooted : data[h] = a
      BY <1>2, <3>2, <3>3 DEF Held
    <3>4. CASE \E k \in 1 .. StackSize : stack'[k] \in Within(a)
      <4>1. PICK k \in 1 .. StackSize : stack'[k] \in Within(a)
        BY <3>4
      <4>2. CASE k = m
        BY <1>4, <2>2, <3>2, <4>1, <4>2
      <4>3. CASE k # m
        <5>1. stack[k] \in Within(a)
          BY <2>2, <4>1, <4>3
        <5> QED BY <1>2, <3>2, <5>1 DEF Held
      <4> QED BY <4>2, <4>3
    <3> QED BY <2>1, <2>3, <3>1, <3>3, <3>4 DEF Held
  <2>5. Closed(T)'
    BY <1>2, <2>1, <2>3 DEF Closed
  <2> QED BY <1>1, <1>2, <2>1, <2>3, <2>4, <2>5, ReachableAfter
<1> QED BY <1>5, <1>6, <1>7, <1>8

LEMMA GCVarKeeps ==
  ASSUME HeapOK, NEW g \in Global \ rooted, NEW w \in Reachable \cup {0}, GCVar(g, w)
  PROVE  HeapOK' /\ UNCHANGED objs /\ Reachable' \subseteq Reachable
<1>1. PICK T : T = Reachable
  OBVIOUS
<1>2. T \subseteq DOMAIN objs /\ Closed(T) /\ Held \subseteq T
  BY <1>1, AroundIs, HeldAre DEF Reachable
<1>3. w \in Nat /\ 0 \notin DOMAIN objs
  BY KnownWords
<1>4. /\ rooted' = rooted \cup {g} /\ data' = [data EXCEPT ![g] = w]
      /\ UNCHANGED <<objs, mem, stack>>
  BY DEF GCVar
<1>5. data' \in [Global -> Nat] /\ \A h \in Global : data'[h] = IF h = g THEN w ELSE data[h]
  BY <1>3, <1>4 DEF HeapOK
<1>6. HeapOK' /\ \A a : Body(a)' = Body(a) /\ Within(a)' = Within(a)
  BY <1>4, <1>5, SameObjects DEF HeapOK
<1>7. Held' \subseteq T
  <2>1. SUFFICES ASSUME NEW a \in Held' PROVE a \in T
    OBVIOUS
  <2>2. a \in DOMAIN objs
    BY <1>4 DEF Held
  <2>3. CASE \E h \in rooted' : data'[h] = a
    <3>1. PICK h \in rooted' : data'[h] = a
      BY <2>3
    <3>2. h \in Global
      BY <1>4 DEF HeapOK
    <3>3. CASE h = g
      BY <1>1, <1>3, <1>5, <2>2, <3>1, <3>2, <3>3
    <3>4. CASE h # g
      BY <1>2, <1>4, <1>5, <2>2, <3>1, <3>2, <3>4 DEF Held
    <3> QED BY <3>3, <3>4
  <2>4. CASE \E k \in 1 .. StackSize : stack[k] \in Within(a)
    BY <1>2, <2>2, <2>4 DEF Held
  <2> QED BY <1>4, <1>6, <2>1, <2>3, <2>4 DEF Held
<1>8. Closed(T)'
  BY <1>2, <1>4, <1>6 DEF Closed
<1> QED BY <1>1, <1>2, <1>4, <1>6, <1>7, <1>8, ReachableAfter

LEMMA AllocateKeeps ==
  ASSUME HeapOK, NEW kind \in Kind, NEW at \in Cell, NEW slot \in 1 .. StackSize,
         NEW gone \in SUBSET DOMAIN objs, gone \cap Reachable = {},
         Allocate(kind, at, slot, gone)
  PROVE  /\ HeapOK' /\ UNCHANGED rooted
         /\ DOMAIN objs' = (DOMAIN objs \ gone) \cup {at}
         /\ at \notin DOMAIN objs \ gone
         /\ Reachable' \subseteq Reachable \cup {at}
<1>1. PICK left : left = DOMAIN objs \ gone
  OBVIOUS
<1>2. PICK kept : kept = UNION {Body(a) : a \in left}
  OBVIOUS
<1>3. /\ Extent(kind, at) \subseteq Cell \ kept
      /\ objs' = [a \in left \cup {at} |-> IF a = at THEN kind ELSE objs[a]]
      /\ mem' = [c \in Cell |-> IF c \in kept THEN mem[c] ELSE 0]
      /\ stack' = [stack EXCEPT ![slot] = at] /\ UNCHANGED <<data, rooted>>
  BY <1>1, <1>2 DEF Allocate
<1>4. at \in Int /\ at # 0 /\ at \in Nat /\ kind.words \in Nat \ {0} /\ 0 \notin Cell
  BY CellAssumption, KindAssumption
<1>5. at \in Extent(kind, at)
  BY <1>4 DEF Extent
<1>6. \A a \in left : a \in DOMAIN objs /\ Body(a) \subseteq kept /\ a \in Body(a)
  <2>1. \A a \in left : a \in DOMAIN objs /\ Body(a) \subseteq kept
    BY <1>1, <1>2
  <2>2. \A a \in left : a \in Body(a)
    <3>1. SUFFICES ASSUME NEW a \in left PROVE a \in Body(a)
      OBVIOUS
    <3>2. a \in Int /\ objs[a].words \in Nat \ {0}
      BY <2>1, BodyIs
    <3> QED BY <3>2 DEF Body, Extent
  <2> QED BY <2>1, <2>2
<1>7. at \notin left
  BY <1>3, <1>5, <1>6
<1>8. /\ DOMAIN objs' = left \cup {at} /\ objs'[at] = kind
      /\ \A a \in left : a # at /\ objs'[a] = objs[a]
  BY <1>3, <1>7
<1>9. /\ Body(at)' = Extent(kind, at)
      /\ \A a \in left : Body(a)' = Body(a) /\ Within(a)' = Within(a)
  <2>1. Body(at)' = Extent(kind, at)
    BY <1>8 DEF Body, Extent
  <2>2. \A a \in left : Body(a)' = Body(a)
    BY <1>8 DEF Body, Extent
  <2>3. \A a \in left : Within(a)' = Within(a)
    BY <2>2 DEF Within
  <2> QED BY <2>1, <2>2, <2>3
<1>10. HeapOK'
  <2>1. DOMAIN objs' \subseteq Cell
    BY <1>6, <1>8 DEF HeapOK
  <2>2. objs' \in [DOMAIN objs' -> Kind]
    <3>1. \A a \in left \cup {at} : (IF a = at THEN kind ELSE objs[a]) \in Kind
      BY <1>6 DEF HeapOK
    <3>2. objs' \in [left \cup {at} -> Kind]
      BY <1>3, <3>1
    <3> QED BY <1>8, <3>2
  <2>3. \A a \in DOMAIN objs' : Body(a)' \subseteq Cell
    BY <1>3, <1>6, <1>8, <1>9 DEF HeapOK
  <2>4. ASSUME NEW a \in DOMAIN objs', NEW d \in DOMAIN objs', a # d
        PROVE  Body(a)' \cap Body(d)' = {}
    <3>1. CASE a \in left /\ d \in left
      BY <1>6, <1>9, <2>4, <3>1 DEF HeapOK
    <3>2. CASE a = at /\ d \in left
      BY <1>3, <1>6, <1>9, <3>2
    <3>3. CASE a \in left /\ d = at
      BY <1>3, <1>6, <1>9, <3>3
    <3> QED BY <1>8, <2>4, <3>1, <3>2, <3>3
  <2>5. mem' \in [Cell -> Nat]
    BY <1>3 DEF HeapOK
  <2>6. stack' \in [1 .. StackSize -> Nat]
    BY <1>3, <1>4 DEF HeapOK
  <2> QED BY <1>3, <2>1, <2>2, <2>3, <2>4, <2>5, <2>6 DEF HeapOK
<1>11. PICK T : T = Reachable \cup {at}
  OBVIOUS
<1>12. Reachable \subseteq left /\ Closed(Reachable) /\ Held \subseteq Reachable
  BY <1>1, AroundIs, HeldAre DEF Reachable
<1>13. Held' \subseteq T
  <2>1. SUFFICES ASSUME NEW a \in Held', a \in left PROVE a \in Held
    BY <1>8, <1>11, <1>12 DEF Held
  <2>2. a \in DOMAIN objs
    BY <1>6, <2>1
  <2>3. CASE \E g \in rooted : data[g] = a
    BY <2>2, <2>3 DEF Held
  <2>4. CASE \E k \in 1 .. StackSize : stack'[k] \in Within(a)
    <3>1. PICK k \in 1 .. StackSize : stack'[k] \in Within(a)
      BY <2>4
    <3>2. stack'[k] \in kept
      BY <1>6, <2>1, <3>1 DEF Within
    <3>3. k # slot
      BY <1>3, <1>5, <3>2 DEF HeapOK
    <3>4. stack'[k] = stack[k]
      BY <1>3, <3>3 DEF HeapOK
    <3>5. stack[k] \in Within(a)
      BY <3>1, <3>4
    <3> QED BY <2>2, <3>5 DEF Held
  <2>5. (\E g \in rooted' : data'[g] = a) \/ (\E k \in 1 .. StackSize : stack'[k] \in Within(a)')
    BY <2>1 DEF Held
  <2> QED BY <1>3, <1>9, <2>1, <2>3, <2>4, <2>5
<1>14. Closed(T)'
  <2>1. SUFFICES ASSUME NEW a \in T, ~objs'[a].atomic, NEW c \in Body(a)',
                        mem'[c] \in DOMAIN objs'
                 PROVE  mem'[c] \in T
    BY DEF Closed
  <2>2. CASE a = at
    <3>1. c \in Cell \ kept
      BY <1>3, <1>9, <2>1, <2>2
    <3>2. mem'[c] = 0
      BY <1>3, <3>1
    <3>3. DOMAIN objs' \subseteq Cell
      BY <1>10 DEF HeapOK
    <3> QED BY <1>4, <2>1, <3>2, <3>3
  <2>3. CASE a # at
    <3>1. a \in Reachable /\ a \in left
      BY <1>11, <1>12, <2>3
    <3>2. c \in Body(a) /\ ~objs[a].atomic
      BY <1>8, <1>9, <2>1, <3>1
    <3>3. c \in kept /\ c \in Cell
      BY <1>6, <3>1, <3>2 DEF HeapOK
    <3>4. mem'[c] = mem[c]
      BY <1>3, <3>3
    <3>5. CASE mem[c] = at
      BY <1>11, <3>4, <3>5
    <3>6. CASE mem[c] \in left
      <4>1. mem[c] \in DOMAIN objs
        BY <1>6, <3>6
      <4>2. mem[c] \in Reachable
        BY <1>12, <3>1, <3>2, <4>1 DEF Closed
      <4> QED BY <1>11, <3>4, <4>2
    <3> QED BY <1>8, <2>1, <3>4, <3>5, <3>6
  <2> QED BY <2>2, <2>3
<1>15. T \subseteq (DOMAIN objs)'
  BY <1>8, <1>11, <1>12
<1>16. Reachable' \subseteq T
  BY <1>13, <1>14, <1>15, ReachableAfter
<1> QED BY <1>1, <1>3, <1>7, <1>8, <1>10, <1>11, <1>16

-----------------------------------------------------------------------------
(* The regions of registered variables. *)

Regions(ds, R) ==
    /\ ds \in Seq([from : Nat, to : Nat])
    /\ R = UNION {ds[n].from .. ds[n].to - 1 : n \in DOMAIN ds}
    /\ \A n \in DOMAIN ds : /\ ds[n].from < ds[n].to
                            /\ n > 1 => ds[n - 1].to < ds[n].from

IsConcat(d, S, c, e) ==
    /\ d \in Seq(S) /\ Len(d) = Len(c) + Len(e)
    /\ \A k \in 1 .. Len(c) : d[k] = c[k]
    /\ \A k \in 1 .. Len(e) : d[Len(c) + k] = e[k]

LEMMA ConcatIs ==
  ASSUME NEW S, NEW c \in Seq(S), NEW e \in Seq(S), NEW d, d = c \o e
  PROVE  IsConcat(d, S, c, e)
BY DEF IsConcat

LEMMA SubSeqIs ==
  ASSUME NEW S, NEW ds \in Seq(S), NEW b \in 1 .. Len(ds) + 1, NEW n \in b - 1 .. Len(ds)
  PROVE  /\ SubSeq(ds, b, n) \in Seq(S) /\ Len(SubSeq(ds, b, n)) = n + 1 - b
         /\ \A k \in 1 .. n + 1 - b : SubSeq(ds, b, n)[k] = ds[b + k - 1]
OBVIOUS

IsSpliced(rs, S, ds, x, a, b) ==
    /\ rs \in Seq(S) /\ Len(rs) = a + 2 + Len(ds) - b /\ rs[a + 1] = x
    /\ \A k \in 1 .. a : rs[k] = ds[k]
    /\ \A k \in b .. Len(ds) : rs[a + 2 + k - b] = ds[k]

LEMMA Spliced ==
  ASSUME NEW S, NEW ds \in Seq(S), NEW x \in S, NEW a \in 0 .. Len(ds),
         NEW b \in a + 1 .. Len(ds) + 1,
         NEW rs, rs = SubSeq(ds, 1, a) \o <<x>> \o SubSeq(ds, b, Len(ds))
  PROVE  IsSpliced(rs, S, ds, x, a, b)
<1>1. PICK c : c = SubSeq(ds, 1, a)
  OBVIOUS
<1>2. PICK e : e = SubSeq(ds, b, Len(ds))
  OBVIOUS
<1>3. Len(ds) \in Nat /\ a \in Int /\ b \in Int /\ 0 <= a /\ a < b /\ b <= Len(ds) + 1
  OBVIOUS
<1>4. c \in Seq(S) /\ Len(c) = a
  BY <1>1, <1>3, SubSeqIs
<1>5. ASSUME NEW k \in 1 .. a PROVE c[k] = ds[k]
  <2>1. 1 \in 1 .. Len(ds) + 1 /\ a \in 1 - 1 .. Len(ds) /\ k \in 1 .. a + 1 - 1
    BY <1>3
  <2>2. SubSeq(ds, 1, a)[k] = ds[1 + k - 1]
    BY ONLY ds \in Seq(S), <2>1, SubSeqIs
  <2> QED BY <1>1, <2>2
<1>6. b \in 1 .. Len(ds) + 1 /\ Len(ds) \in b - 1 .. Len(ds)
  BY <1>3
<1>7. e \in Seq(S) /\ Len(e) = Len(ds) + 1 - b
  BY <1>2, <1>6, SubSeqIs
<1>8. ASSUME NEW k \in 1 .. Len(ds) + 1 - b PROVE e[k] = ds[b + k - 1]
  BY <1>2, <1>6, SubSeqIs
<1>21. PICK y : y = <<x>>
  OBVIOUS
<1>9. PICK d : d = c \o y
  OBVIOUS
<1>10. y \in Seq(S) /\ Len(y) = 1 /\ y[1] = x
  BY <1>21
<1>22. IsConcat(d, S, c, y)
  BY <1>4, <1>9, <1>10, ConcatIs
<1>11. d \in Seq(S) /\ Len(d) = a + 1
  BY <1>4, <1>10, <1>22 DEF IsConcat
<1>12. ASSUME NEW k \in 1 .. a PROVE d[k] = c[k]
  BY <1>4, <1>22 DEF IsConcat
<1>13. d[a + 1] = x
  <2>1. 1 \in 1 .. Len(y)
    BY <1>10
  <2>2. d[Len(c) + 1] = y[1]
    BY <1>22, <2>1 DEF IsConcat
  <2> QED BY <1>4, <1>10, <2>2
<1>14. rs = d \o e
  BY <1>1, <1>2, <1>9, <1>21
<1>23. IsConcat(rs, S, d, e)
  BY <1>7, <1>11, <1>14, ConcatIs
<1>15. rs \in Seq(S) /\ Len(rs) = Len(d) + Len(e)
  BY <1>23 DEF IsConcat
<1>16. Len(rs) = a + 2 + Len(ds) - b
  <2>1. PICK n \in Int : n = Len(ds)
    BY <1>3
  <2>2. Len(rs) = (a + 1) + (n + 1 - b)
    BY <1>7, <1>11, <1>15, <2>1
  <2>3. (a + 1) + (n + 1 - b) = a + 2 + n - b
    BY <1>3
  <2> QED BY <2>1, <2>2, <2>3
<1>17. ASSUME NEW k \in 1 .. a + 1 PROVE rs[k] = d[k]
  BY <1>11, <1>23 DEF IsConcat
<1>18. \A k \in 1 .. a : rs[k] = ds[k]
  <2>1. SUFFICES ASSUME NEW k \in 1 .. a PROVE rs[k] = ds[k]
    OBVIOUS
  <2>2. k \in 1 .. a + 1
    BY <1>3
  <2> QED BY <1>5, <1>12, <1>17, <2>2
<1>19. rs[a + 1] = x
  <2>1. a + 1 \in 1 .. a + 1
    BY <1>3
  <2> QED BY <1>13, <1>17, <2>1
<1>20. \A k \in b .. Len(ds) : rs[a + 2 + k - b] = ds[k]
  <2>1. SUFFICES ASSUME NEW k \in b .. Len(ds) PROVE rs[a + 2 + k - b] = ds[k]
    OBVIOUS
  <2>2. PICK m \in Int : m = k + 1 - b
    BY <1>3
  <2>3. m \in 1 .. Len(ds) + 1 - b /\ a + 2 + k - b = (a + 1) + m /\ b + m - 1 = k
    BY <1>3, <2>2
  <2>4. rs[Len(d) + m] = e[m]
    BY <1>7, <1>23, <2>3 DEF IsConcat
  <2>5. e[m] = ds[b + m - 1]
    BY <1>8, <2>3
  <2> QED BY <1>11, <2>3, <2>4, <2>5
<1> QED BY <1>15, <1>16, <1>18, <1>19, <1>20 DEF IsSpliced

LEMMA InOrder ==
  ASSUME NEW N \in Nat, NEW F \in [1 .. N -> Nat], NEW T \in [1 .. N -> Nat],
         \A n \in 1 .. N : F[n] < T[n] /\ (n > 1 => T[n - 1] < F[n])
  PROVE  \A j, k \in 1 .. N : j < k => T[j] < F[k]
<1>1. SUFFICES ASSUME NEW j \in 1 .. N, NEW m \in 1 .. N, j < m, ~(T[j] < F[m]) PROVE FALSE
  OBVIOUS
<1>2. PICK B : B = {k \in 1 .. N : j < k /\ ~(T[j] < F[k])}
  OBVIOUS
<1>3. IsFiniteSet(1 .. N)
  BY FS_Interval
<1>4. IsFiniteSet(B) /\ B \subseteq Int /\ B # {}
  <2>1. B \subseteq 1 .. N
    BY <1>2
  <2>2. IsFiniteSet(B)
    BY <1>3, <2>1, FS_Subset
  <2>3. m \in B
    BY <1>1, <1>2
  <2> QED BY <2>1, <2>2, <2>3
<1>5. PICK k \in B : \A q \in B : k <= q
  BY <1>4, LeastIn
<1>6. k \in 1 .. N /\ j < k /\ ~(T[j] < F[k])
  BY <1>2
<1>7. CASE k = j + 1
  <2>1. k > 1 /\ k - 1 = j
    BY <1>6, <1>7
  <2> QED BY <1>6, <2>1
<1>8. CASE k # j + 1
  <2>1. PICK q \in 1 .. N : q = k - 1 /\ j < q
    BY <1>6, <1>8
  <2>2. q \notin B
    BY <1>5, <1>6, <2>1
  <2>3. T[j] < F[q] /\ F[q] < T[q] /\ T[q] < F[k]
    BY <1>2, <1>6, <2>1, <2>2
  <2> QED BY <1>6, <2>1, <2>3
<1> QED BY <1>7, <1>8

(* Where GC_roots_add splices the regions. *)
Spot(F, T, N, g, old, next) ==
    /\ old \in 1 .. N + 1 /\ next \in old .. N + 1
    /\ \A k \in 1 .. old - 1 : T[k] < g
    /\ \A k \in old .. N : T[k] >= g
    /\ \A k \in old .. next - 1 : F[k] <= g + 1
    /\ next <= N => F[next] > g + 1

LEMMA SpotIs ==
  ASSUME NEW N \in Nat, NEW F \in [1 .. N -> Nat], NEW T \in [1 .. N -> Nat], NEW g \in Nat,
         \A n \in 1 .. N : F[n] < T[n],
         \A j, k \in 1 .. N : j < k => T[j] < F[k],
         NEW old, old = Least({n \in 1 .. N + 1 : n < N + 1 => T[n] >= g}),
         NEW next, next = Least({n \in old .. N + 1 : n < N + 1 => F[n] > g + 1})
  PROVE  Spot(F, T, N, g, old, next)
<1>1. PICK A : A = {n \in 1 .. N + 1 : n < N + 1 => T[n] >= g}
  OBVIOUS
<1>2. IsFiniteSet(1 .. N + 1)
  BY FS_Interval
<1>3. IsFiniteSet(A) /\ A \subseteq Int /\ N + 1 \in A
  BY <1>1, <1>2, FS_Subset
<1>4. old \in A /\ \A k \in A : old <= k
  BY <1>1, <1>3, LeastIn
<1>5. old \in 1 .. N + 1 /\ (old < N + 1 => T[old] >= g)
  BY <1>1, <1>4
<1>6. PICK B : B = {n \in old .. N + 1 : n < N + 1 => F[n] > g + 1}
  OBVIOUS
<1>7. IsFiniteSet(B) /\ B \subseteq Int /\ N + 1 \in B
  <2>1. old \in Int /\ N + 1 \in old .. N + 1
    BY <1>5
  <2>2. \A n \in old .. N + 1 : n \in 1 .. N + 1
    BY <1>5, <2>1
  <2>5. B \subseteq 1 .. N + 1
    BY <1>6, <2>2
  <2>3. N + 1 \in B
    BY <1>6, <2>1
  <2>4. IsFiniteSet(B)
    BY <1>2, <2>5, FS_Subset
  <2> QED BY <2>3, <2>4, <2>5
<1>8. next \in B /\ \A k \in B : next <= k
  BY <1>6, <1>7, LeastIn
<1>9. next \in old .. N + 1 /\ (next < N + 1 => F[next] > g + 1)
  BY <1>6, <1>8
<1>10. ASSUME NEW k \in 1 .. old - 1 PROVE T[k] < g
  <2>1. k \in 1 .. N /\ k \in 1 .. N + 1 /\ ~(old <= k)
    BY <1>5
  <2>2. k \notin A
    BY <1>4, <2>1
  <2>3. k < N + 1 /\ T[k] \in Nat
    BY <2>1
  <2> QED BY <1>1, <2>1, <2>2, <2>3
<1>11. ASSUME NEW k \in old .. N PROVE T[k] >= g
  <2>1. k \in 1 .. N /\ old \in 1 .. N /\ T[old] >= g
    BY <1>5
  <2>2. k = old \/ T[old] < F[k]
    BY <2>1
  <2> QED BY <2>1, <2>2
<1>12. ASSUME NEW k \in old .. next - 1 PROVE F[k] <= g + 1
  <2>1. k \in 1 .. N /\ k \in old .. N + 1 /\ ~(next <= k) /\ k < N + 1 /\ F[k] \in Nat
    BY <1>5, <1>9
  <2>2. k \notin B
    BY <1>8, <2>1
  <2> QED BY <1>6, <2>1, <2>2
<1>13. next <= N => F[next] > g + 1
  BY <1>5, <1>9
<1> QED BY <1>5, <1>9, <1>10, <1>11, <1>12, <1>13 DEF Spot

(* The region that is put there. *)
Between(F, T, g, old, next, lo, hi) ==
    /\ lo \in Nat /\ hi \in Nat /\ lo <= g /\ g + 1 <= hi
    /\ \A k \in old .. next - 1 : lo <= F[k] /\ T[k] <= hi
    /\ lo = g \/ \E k \in old .. next - 1 : lo = F[k]
    /\ hi = g + 1 \/ \E k \in old .. next - 1 : hi = T[k]

LEMMA BetweenIs ==
  ASSUME NEW N \in Nat, NEW F \in [1 .. N -> Nat], NEW T \in [1 .. N -> Nat], NEW g \in Nat,
         NEW old \in 1 .. N + 1, NEW next \in old .. N + 1,
         NEW lo, lo = Least({g} \cup {F[n] : n \in old .. next - 1}),
         NEW hi, hi = Greatest({g + 1} \cup {T[n] : n \in old .. next - 1})
  PROVE  Between(F, T, g, old, next, lo, hi)
<1>1. PICK I : I = old .. next - 1
  OBVIOUS
<1>2. IsFiniteSet(I) /\ I \subseteq 1 .. N
  <2>1. old \in Int /\ next - 1 \in Int /\ I \subseteq 1 .. N
    BY <1>1
  <2> QED BY <1>1, <2>1, FS_Interval
<1>3. ASSUME NEW G \in [1 .. N -> Nat]
      PROVE  IsFiniteSet({G[n] : n \in I})
  <2>1. PICK f : f = [n \in I |-> G[n]]
    OBVIOUS
  <2>2. PICK M : M = {G[n] : n \in I}
    OBVIOUS
  <2>3. f \in Surjection(I, M)
    BY <2>1, <2>2 DEF Surjection
  <2> QED BY <1>2, <2>2, <2>3, FS_Surjection
<1>4. PICK L : L = {g} \cup {F[n] : n \in I}
  OBVIOUS
<1>5. PICK H : H = {g + 1} \cup {T[n] : n \in I}
  OBVIOUS
<1>6. IsFiniteSet(L) /\ IsFiniteSet(H)
  <2>1. IsFiniteSet({F[n] : n \in I}) /\ IsFiniteSet({T[n] : n \in I})
    BY <1>3
  <2> QED BY <1>4, <1>5, <2>1, FS_Singleton, FS_Union
<1>7. /\ L \subseteq Nat /\ L # {} /\ g \in L /\ \A n \in I : F[n] \in L
      /\ H \subseteq Nat /\ H # {} /\ g + 1 \in H /\ \A n \in I : T[n] \in H
  BY <1>2, <1>4, <1>5
<1>8. lo \in L /\ \A k \in L : lo <= k
  <2>1. lo = Least(L)
    BY <1>1, <1>4
  <2>2. IsFiniteSet(L) /\ L \subseteq Int /\ L # {}
    BY <1>6, <1>7
  <2> QED BY ONLY <2>1, <2>2, LeastIn
<1>9. hi \in H /\ \A k \in H : k <= hi
  <2>1. hi = Greatest(H)
    BY <1>1, <1>5
  <2>2. H \subseteq Int
    BY <1>7
  <2> QED BY <1>6, <1>7, <2>1, <2>2, GreatestIn
<1>10. lo \in Nat /\ hi \in Nat /\ lo <= g /\ g + 1 <= hi /\ \A k \in I : lo <= F[k] /\ T[k] <= hi
  BY <1>7, <1>8, <1>9
<1>11. lo = g \/ \E k \in I : lo = F[k]
  BY <1>4, <1>8
<1>12. hi = g + 1 \/ \E k \in I : hi = T[k]
  BY <1>5, <1>9
<1> QED BY <1>1, <1>10, <1>11, <1>12 DEF Between

(* The bounds of the regions with one more variable. *)
Copied(G, F, N, old, next, x) ==
    /\ \A k \in 1 .. old - 1 : G[k] = F[k]
    /\ G[old] = x
    /\ \A k \in next .. N : G[old + 1 + k - next] = F[k]

LEMMA Positions ==
  ASSUME NEW N \in Nat, NEW old \in 1 .. N + 1, NEW next \in old .. N + 1
  PROVE  /\ \A m \in 1 .. old + 1 + N - next :
              m \in 1 .. old - 1 \/ m = old \/ \E k \in next .. N : m = old + 1 + k - next
         /\ \A k \in 1 .. old - 1 : k \in 1 .. old + 1 + N - next /\ k \in 1 .. N
         /\ old \in 1 .. old + 1 + N - next
         /\ \A k \in next .. N : old + 1 + k - next \in 1 .. old + 1 + N - next /\ k \in 1 .. N
<1>1. /\ old \in Int /\ next \in Int /\ N \in Int
      /\ 1 <= old /\ old <= next /\ next <= N + 1 /\ old <= N + 1
  OBVIOUS
<1>2. ASSUME NEW m \in 1 .. old + 1 + N - next
      PROVE  m \in 1 .. old - 1 \/ m = old \/ \E k \in next .. N : m = old + 1 + k - next
  <2>1. CASE m <= old
    BY <1>1, <2>1
  <2>2. CASE m > old
    <3>1. PICK k \in Int : k = m + next - old - 1
      BY <1>1
    <3>2. k \in next .. N /\ m = old + 1 + k - next
      BY <1>1, <2>2, <3>1
    <3> QED BY <3>2
  <2> QED BY <1>1, <2>1, <2>2
<1>3. ASSUME NEW k \in 1 .. old - 1 PROVE k \in 1 .. old + 1 + N - next /\ k \in 1 .. N
  BY <1>1
<1>4. old \in 1 .. old + 1 + N - next
  BY <1>1
<1>5. ASSUME NEW k \in next .. N
      PROVE  old + 1 + k - next \in 1 .. old + 1 + N - next /\ k \in 1 .. N
  BY <1>1
<1> QED BY <1>2, <1>3, <1>4, <1>5

Bounded(F, T, N) == /\ F \in [1 .. N -> Nat] /\ T \in [1 .. N -> Nat]
                    /\ \A n \in 1 .. N : F[n] < T[n]
                    /\ \A j, k \in 1 .. N : j < k => T[j] < F[k]

Joined(F, T, N, g, G, H, M) ==
    (UNION {F[n] .. T[n] - 1 : n \in 1 .. N}) \cup {g} = UNION {G[m] .. H[m] - 1 : m \in 1 .. M}

LEMMA SplicedUnion ==
  ASSUME NEW N \in Nat, NEW F, NEW T, Bounded(F, T, N), NEW g \in Nat,
         NEW old, NEW next, Spot(F, T, N, g, old, next),
         NEW lo, NEW hi, Between(F, T, g, old, next, lo, hi),
         NEW G, NEW H, Copied(G, F, N, old, next, lo), Copied(H, T, N, old, next, hi)
  PROVE  Joined(F, T, N, g, G, H, old + 1 + N - next)
<1>1. old \in 1 .. N + 1 /\ next \in old .. N + 1
  BY DEF Spot
<1>2. PICK P : P = 1 .. old + 1 + N - next
  OBVIOUS
<1>3. /\ \A m \in P : m \in 1 .. old - 1 \/ m = old \/ \E k \in next .. N : m = old + 1 + k - next
      /\ \A k \in 1 .. old - 1 : k \in P /\ k \in 1 .. N
      /\ old \in P
      /\ \A k \in next .. N : old + 1 + k - next \in P /\ k \in 1 .. N
  BY <1>1, <1>2, Positions
<1>4. /\ old \in Int /\ next \in Int /\ N \in Int
      /\ 1 <= old /\ old <= next /\ next <= N + 1
  BY <1>1
<1>5. \A n \in 1 .. N : F[n] \in Int /\ T[n] \in Int
  BY DEF Bounded
<1>6. lo \in Int /\ hi \in Int /\ lo <= g /\ g + 1 <= hi /\ g \in Int
  BY DEF Between
<1>7. /\ \A k \in 1 .. old - 1 : G[k] = F[k] /\ H[k] = T[k]
      /\ G[old] = lo /\ H[old] = hi
      /\ \A k \in next .. N : G[old + 1 + k - next] = F[k] /\ H[old + 1 + k - next] = T[k]
  BY DEF Copied
<1>8. \A k \in old .. next - 1 : k \in 1 .. N /\ k \in old .. N
  BY <1>4
<1>9. ASSUME NEW e, e = g \/ \E n \in 1 .. N : e \in F[n] .. T[n] - 1
      PROVE  \E m \in P : e \in G[m] .. H[m] - 1
  <2>1. CASE e = g
    <3>1. e \in lo .. hi - 1
      BY <1>6, <2>1
    <3> QED BY <1>3, <1>7, <3>1
  <2>2. CASE \E n \in 1 .. N : e \in F[n] .. T[n] - 1
    <3>1. PICK n \in 1 .. N : e \in F[n] .. T[n] - 1
      BY <2>2
    <3>2. CASE n \in 1 .. old - 1
      BY <1>3, <1>7, <3>1, <3>2
    <3>3. CASE n \in old .. next - 1
      <4>1. lo <= F[n] /\ T[n] <= hi
        BY <3>3 DEF Between
      <4>2. F[n] \in Int /\ T[n] \in Int
        BY <1>5
      <4>3. e \in lo .. hi - 1
        BY <1>6, <3>1, <4>1, <4>2
      <4> QED BY <1>3, <1>7, <4>3
    <3>4. CASE n \in next .. N
      <4>1. PICK m \in P : m = old + 1 + n - next
        BY <1>3, <3>4
      <4>2. G[m] = F[n] /\ H[m] = T[n]
        BY <1>7, <3>4, <4>1
      <4> QED BY <3>1, <4>2
    <3>5. n \in 1 .. old - 1 \/ n \in old .. next - 1 \/ n \in next .. N
      BY <1>4
    <3> QED BY <3>2, <3>3, <3>4, <3>5
  <2> QED BY <1>9, <2>1, <2>2
<1>10. ASSUME NEW m \in P, NEW e \in G[m] .. H[m] - 1
       PROVE  e = g \/ \E n \in 1 .. N : e \in F[n] .. T[n] - 1
  <2>1. CASE m \in 1 .. old - 1
    <3>1. m \in 1 .. N /\ G[m] = F[m] /\ H[m] = T[m]
      BY <1>3, <1>7, <2>1
    <3> QED BY <3>1
  <2>2. CASE m = old
    <3>1. e \in lo .. hi - 1
      BY <1>7, <2>2
    <3>2. e \in Int /\ lo <= e /\ e < hi
      BY <1>6, <3>1
    <3>3. CASE e < g
      <4>1. lo # g
        BY <1>6, <3>2, <3>3
      <4>2. PICK k \in old .. next - 1 : lo = F[k]
        BY <4>1 DEF Between
      <4>3. k \in 1 .. N /\ k \in old .. N
        BY <1>8
      <4>4. T[k] >= g
        BY <4>3 DEF Spot
      <4>5. F[k] \in Int /\ T[k] \in Int
        BY <1>5, <4>3
      <4>6. e \in F[k] .. T[k] - 1
        BY <1>6, <3>2, <3>3, <4>2, <4>4, <4>5
      <4> QED BY <4>3, <4>6
    <3>4. CASE e > g
      <4>1. hi # g + 1
        BY <1>6, <3>2, <3>4
      <4>2. PICK k \in old .. next - 1 : hi = T[k]
        BY <4>1 DEF Between
      <4>3. k \in 1 .. N
        BY <1>8
      <4>4. F[k] <= g + 1
        BY DEF Spot
      <4>5. F[k] \in Int /\ T[k] \in Int
        BY <1>5, <4>3
      <4>6. e \in F[k] .. T[k] - 1
        BY <1>6, <3>2, <3>4, <4>2, <4>4, <4>5
      <4> QED BY <4>3, <4>6
    <3> QED BY <1>6, <3>2, <3>3, <3>4
  <2>3. CASE \E k \in next .. N : m = old + 1 + k - next
    <3>1. PICK k \in next .. N : m = old + 1 + k - next
      BY <2>3
    <3>2. k \in 1 .. N /\ G[m] = F[k] /\ H[m] = T[k]
      BY <1>3, <1>7, <3>1
    <3> QED BY <3>2
  <2> QED BY <1>3, <2>1, <2>2, <2>3
<1>11. PICK A : A = UNION {F[n] .. T[n] - 1 : n \in 1 .. N}
  OBVIOUS
<1>12. PICK B : B = UNION {G[m] .. H[m] - 1 : m \in P}
  OBVIOUS
<1>13. \A e : e \in A <=> \E n \in 1 .. N : e \in F[n] .. T[n] - 1
  BY <1>11
<1>14. \A e : e \in B <=> \E m \in P : e \in G[m] .. H[m] - 1
  BY <1>12
<1>15. A \cup {g} = B
  BY <1>9, <1>10, <1>13, <1>14
<1> QED BY <1>2, <1>11, <1>12, <1>15 DEF Joined

LEMMA SplicedOrder ==
  ASSUME NEW N \in Nat, NEW F, NEW T, Bounded(F, T, N), NEW g \in Nat,
         NEW old, NEW next, Spot(F, T, N, g, old, next),
         NEW lo, NEW hi, Between(F, T, g, old, next, lo, hi),
         NEW G, NEW H, Copied(G, F, N, old, next, lo), Copied(H, T, N, old, next, hi)
  PROVE  \A m \in 1 .. old + 1 + N - next : G[m] < H[m] /\ (m > 1 => H[m - 1] < G[m])
<1>1. old \in 1 .. N + 1 /\ next \in old .. N + 1
  BY DEF Spot
<1>2. PICK P : P = 1 .. old + 1 + N - next
  OBVIOUS
<1>3. /\ \A m \in P : m \in 1 .. old - 1 \/ m = old \/ \E k \in next .. N : m = old + 1 + k - next
      /\ \A k \in 1 .. old - 1 : k \in P /\ k \in 1 .. N
      /\ old \in P
      /\ \A k \in next .. N : old + 1 + k - next \in P /\ k \in 1 .. N
  BY <1>1, <1>2, Positions
<1>4. /\ old \in Int /\ next \in Int /\ N \in Int
      /\ 1 <= old /\ old <= next /\ next <= N + 1
  BY <1>1
<1>5. \A n \in 1 .. N : F[n] \in Int /\ T[n] \in Int /\ F[n] < T[n]
  BY DEF Bounded
<1>6. lo \in Int /\ hi \in Int /\ lo <= g /\ g + 1 <= hi /\ g \in Int
  BY DEF Between
<1>7. /\ \A k \in 1 .. old - 1 : G[k] = F[k] /\ H[k] = T[k]
      /\ G[old] = lo /\ H[old] = hi
      /\ \A k \in next .. N : G[old + 1 + k - next] = F[k] /\ H[old + 1 + k - next] = T[k]
  BY DEF Copied
<1>8. \A k \in old .. next - 1 : k \in 1 .. N /\ k \in old .. N
  BY <1>4
<1>9. ASSUME NEW m \in 1 .. old - 1
      PROVE  G[m] < H[m] /\ (m > 1 => H[m - 1] < G[m])
  <2>1. m \in 1 .. N /\ G[m] = F[m] /\ H[m] = T[m]
    BY <1>3, <1>7
  <2>2. ASSUME m > 1 PROVE H[m - 1] < G[m]
    <3>1. PICK j \in 1 .. old - 1 : j = m - 1 /\ j < m
      BY <1>4, <2>2
    <3>2. H[j] = T[j] /\ j \in 1 .. N
      BY <1>3, <1>7
    <3>3. T[j] < F[m]
      BY <2>1, <3>1, <3>2 DEF Bounded
    <3> QED BY <2>1, <3>1, <3>2, <3>3
  <2> QED BY <1>5, <2>1, <2>2
<1>10. lo < hi /\ (old > 1 => H[old - 1] < lo)
  <2>1. ASSUME old > 1 PROVE H[old - 1] < lo
    <3>1. PICK j \in 1 .. old - 1 : j = old - 1
      BY <1>4, <2>1
    <3>2. H[j] = T[j] /\ j \in 1 .. N
      BY <1>3, <1>7
    <3>3. T[j] < g
      BY DEF Spot
    <3>4. ASSUME NEW k \in old .. next - 1, lo = F[k] PROVE T[j] < lo
      <4>1. k \in 1 .. N /\ j < k
        BY <1>4, <1>8
      <4>2. T[j] < F[k]
        BY <3>2, <4>1 DEF Bounded
      <4> QED BY <3>4, <4>2
    <3>5. lo = g \/ \E k \in old .. next - 1 : lo = F[k]
      BY DEF Between
    <3>6. T[j] < lo
      BY <3>3, <3>4, <3>5
    <3> QED BY <3>1, <3>2, <3>6
  <2> QED BY <1>6, <2>1
<1>11. ASSUME NEW k \in next .. N, NEW m, m = old + 1 + k - next
       PROVE  G[m] < H[m] /\ (m > 1 => H[m - 1] < G[m])
  <2>1. k \in 1 .. N /\ G[m] = F[k] /\ H[m] = T[k]
    BY <1>3, <1>7, <1>11
  <2>2. CASE k = next
    <3>1. m - 1 = old /\ next <= N
      BY <1>4, <1>11, <2>2
    <3>2. F[k] > g + 1
      BY <2>2, <3>1 DEF Spot
    <3>3. ASSUME NEW j \in old .. next - 1, hi = T[j] PROVE hi < F[k]
      <4>1. j \in 1 .. N /\ j < k
        BY <1>4, <1>8, <2>2
      <4>2. T[j] < F[k]
        BY <2>1, <4>1 DEF Bounded
      <4> QED BY <3>3, <4>2
    <3>4. hi = g + 1 \/ \E j \in old .. next - 1 : hi = T[j]
      BY DEF Between
    <3>5. F[k] \in Int /\ F[k] < T[k]
      BY <1>5, <2>1
    <3>6. hi < F[k]
      <4>1. CASE hi = g + 1
        BY <1>6, <3>2, <3>5, <4>1
      <4> QED BY <3>3, <3>4, <4>1
    <3>7. H[m - 1] = hi
      BY <1>7, <3>1
    <3> QED BY <2>1, <3>5, <3>6, <3>7
  <2>3. CASE k # next
    <3>1. PICK j \in next .. N : j = k - 1 /\ j < k /\ m - 1 = old + 1 + j - next
      BY <1>4, <1>11, <2>3
    <3>2. H[m - 1] = T[j] /\ j \in 1 .. N
      BY <1>3, <1>7, <3>1
    <3>3. T[j] < F[k]
      BY <2>1, <3>1, <3>2 DEF Bounded
    <3> QED BY <1>5, <2>1, <3>2, <3>3
  <2> QED BY <2>2, <2>3
<1>12. SUFFICES ASSUME NEW m \in P PROVE G[m] < H[m] /\ (m > 1 => H[m - 1] < G[m])
  BY <1>2
<1>13. CASE m = old
  BY <1>7, <1>10, <1>13
<1>14. CASE \E k \in next .. N : m = old + 1 + k - next
  BY <1>11, <1>14
<1>15. CASE m \in 1 .. old - 1
  BY <1>9, <1>15
<1> QED BY <1>3, <1>13, <1>14, <1>15

LEMMA RootsAddedRight ==
  ASSUME RootsOK, NEW g \in Nat
  PROVE  Regions(RootsAdded(g, g + 1), rooted \cup {g})
<1>1. PICK ds : ds = dataroots
  OBVIOUS
<1>2. PICK N : N = Len(ds)
  OBVIOUS
<1>3. PICK F : F = [n \in 1 .. N |-> ds[n].from]
  OBVIOUS
<1>4. PICK T : T = [n \in 1 .. N |-> ds[n].to]
  OBVIOUS
<1>5. Regions(ds, rooted)
  BY <1>1 DEF RootsOK, Regions
<1>6. PICK S : S = [from : Nat, to : Nat]
  OBVIOUS
<1>7. ds \in Seq(S) /\ N \in Nat /\ DOMAIN ds = 1 .. N
  BY <1>2, <1>5, <1>6 DEF Regions
<1>8. \A n \in 1 .. N : ds[n].from \in Nat /\ ds[n].to \in Nat
  <2>1. SUFFICES ASSUME NEW n \in 1 .. N PROVE ds[n].from \in Nat /\ ds[n].to \in Nat
    OBVIOUS
  <2>2. ds[n] \in S
    BY <1>7
  <2> QED BY <1>6, <2>2
<1>9. /\ F \in [1 .. N -> Nat] /\ T \in [1 .. N -> Nat]
      /\ \A n \in 1 .. N : ds[n].from = F[n] /\ ds[n].to = T[n]
  BY <1>3, <1>4, <1>8
<1>10. \A n \in 1 .. N : F[n] < T[n] /\ (n > 1 => T[n - 1] < F[n])
  <2>1. SUFFICES ASSUME NEW n \in 1 .. N PROVE F[n] < T[n] /\ (n > 1 => T[n - 1] < F[n])
    OBVIOUS
  <2>2. ds[n].from < ds[n].to /\ (n > 1 => ds[n - 1].to < ds[n].from)
    BY <1>5, <1>7 DEF Regions
  <2>3. n > 1 => n - 1 \in 1 .. N
    BY <1>7
  <2> QED BY <1>9, <2>2, <2>3
<1>11. \A j, k \in 1 .. N : j < k => T[j] < F[k]
  BY <1>7, <1>9, <1>10, InOrder
<1>12. PICK old : old = Least({n \in 1 .. N + 1 : n < N + 1 => T[n] >= g})
  OBVIOUS
<1>13. PICK next : next = Least({n \in old .. N + 1 : n < N + 1 => F[n] > g + 1})
  OBVIOUS
<1>14. Spot(F, T, N, g, old, next)
  BY <1>7, <1>9, <1>10, <1>11, <1>12, <1>13, SpotIs
<1>15. old \in 1 .. N + 1 /\ next \in old .. N + 1
  BY <1>14 DEF Spot
<1>16. PICK lo : lo = Least({g} \cup {F[n] : n \in old .. next - 1})
  OBVIOUS
<1>17. PICK hi : hi = Greatest({g + 1} \cup {T[n] : n \in old .. next - 1})
  OBVIOUS
<1>18. Between(F, T, g, old, next, lo, hi)
  BY <1>7, <1>9, <1>15, <1>16, <1>17, BetweenIs
<1>19. {n \in 1 .. N + 1 : n < N + 1 => ds[n].to >= g}
         = {n \in 1 .. N + 1 : n < N + 1 => T[n] >= g}
  BY <1>7, <1>9
<1>20. {n \in old .. N + 1 : n < N + 1 => ds[n].from > g + 1}
         = {n \in old .. N + 1 : n < N + 1 => F[n] > g + 1}
  <2>1. \A n \in old .. N + 1 : n < N + 1 => n \in 1 .. N
    BY <1>7, <1>15
  <2> QED BY <1>9, <2>1
<1>21. \A n \in old .. next - 1 : n \in 1 .. N
  BY <1>7, <1>15
<1>22. /\ {ds[n].from : n \in old .. next - 1} = {F[n] : n \in old .. next - 1}
       /\ {ds[n].to : n \in old .. next - 1} = {T[n] : n \in old .. next - 1}
  BY <1>9, <1>21
<1>23. RootsAdded(g, g + 1)
         = SubSeq(ds, 1, old - 1) \o <<[from |-> lo, to |-> hi]>> \o SubSeq(ds, next, N)
  <2>1. (N + 1) - 1 = N
    BY <1>7
  <2>2. old = Least({n \in 1 .. N + 1 : n < N + 1 => ds[n].to >= g})
    BY <1>12, <1>19
  <2>3. next = Least({n \in old .. N + 1 : n < N + 1 => ds[n].from > g + 1})
    BY <1>13, <1>20
  <2>4. /\ lo = Least({g} \cup {ds[n].from : n \in old .. next - 1})
        /\ hi = Greatest({g + 1} \cup {ds[n].to : n \in old .. next - 1})
    BY <1>16, <1>17, <1>22
  <2> DEFINE Old == Least({n \in 1 .. N + 1 : n < N + 1 => ds[n].to >= g})
             Next(o) == Least({n \in o .. N + 1 : n < N + 1 => ds[n].from > g + 1})
             Lo(o, x) == Least({g} \cup {ds[n].from : n \in o .. x - 1})
             Hi(o, x) == Greatest({g + 1} \cup {ds[n].to : n \in o .. x - 1})
             Res(o, x) == SubSeq(ds, 1, o - 1) \o <<[from |-> Lo(o, x), to |-> Hi(o, x)]>>
                            \o SubSeq(ds, x, (N + 1) - 1)
  <2>5. RootsAdded(g, g + 1) = Res(Old, Next(Old))
    BY ONLY <1>1, <1>2, Zenon DEF RootsAdded
  <2>6. old = Old /\ next = Next(old) /\ lo = Lo(old, next) /\ hi = Hi(old, next)
    BY <2>2, <2>3, <2>4
  <2>7. Res(old, next)
          = SubSeq(ds, 1, old - 1) \o <<[from |-> lo, to |-> hi]>> \o SubSeq(ds, next, N)
    BY <2>1, <2>6
  <2> HIDE DEF Old, Next, Lo, Hi, Res
  <2> QED BY <2>5, <2>6, <2>7
<1>24. PICK rs : rs = RootsAdded(g, g + 1)
  OBVIOUS
<1>25. PICK x : x = [from |-> lo, to |-> hi]
  OBVIOUS
<1>26. lo \in Nat /\ hi \in Nat
  BY <1>18 DEF Between
<1>27. x \in S /\ x.from = lo /\ x.to = hi
  BY <1>6, <1>25, <1>26
<1>28. PICK a : a = old - 1
  OBVIOUS
<1>29. a \in 0 .. Len(ds) /\ next \in a + 1 .. Len(ds) + 1 /\ a + 1 = old
  BY <1>2, <1>7, <1>15, <1>28
<1>30. rs = SubSeq(ds, 1, a) \o <<x>> \o SubSeq(ds, next, Len(ds))
  BY <1>2, <1>23, <1>24, <1>25, <1>28
<1>31. /\ rs \in Seq(S) /\ Len(rs) = a + 2 + Len(ds) - next /\ rs[a + 1] = x
       /\ \A k \in 1 .. a : rs[k] = ds[k]
       /\ \A k \in next .. Len(ds) : rs[a + 2 + k - next] = ds[k]
  <2>1. IsSpliced(rs, S, ds, x, a, next)
    BY ONLY <1>7, <1>27, <1>29, <1>30, Spliced
  <2> QED BY <2>1 DEF IsSpliced
<1>32. a + 2 = old + 1 /\ N \in Int /\ old \in Int /\ next \in Int
  BY <1>7, <1>15, <1>28
<1>33. PICK M \in Int : M = old + 1 + N - next
  BY <1>32
<1>34. Len(rs) = M
  BY <1>2, <1>31, <1>32, <1>33
<1>35. /\ rs[old] = x /\ \A k \in 1 .. old - 1 : rs[k] = ds[k]
       /\ \A k \in next .. N : rs[old + 1 + k - next] = ds[k]
  BY <1>2, <1>28, <1>29, <1>31, <1>32
<1>36. /\ \A k \in 1 .. old - 1 : k \in 1 .. M /\ k \in 1 .. N
       /\ old \in 1 .. M
       /\ \A k \in next .. N : old + 1 + k - next \in 1 .. M /\ k \in 1 .. N
  BY <1>7, <1>15, <1>33, Positions
<1>37. PICK G : G = [m \in 1 .. M |-> rs[m].from]
  OBVIOUS
<1>38. PICK H : H = [m \in 1 .. M |-> rs[m].to]
  OBVIOUS
<1>39. \A m \in 1 .. M : G[m] = rs[m].from /\ H[m] = rs[m].to
  BY <1>37, <1>38
<1>40. Copied(G, F, N, old, next, lo) /\ Copied(H, T, N, old, next, hi)
  <2>1. \A k \in 1 .. old - 1 : G[k] = F[k] /\ H[k] = T[k]
    BY <1>9, <1>35, <1>36, <1>39
  <2>2. G[old] = lo /\ H[old] = hi
    BY <1>27, <1>35, <1>36, <1>39
  <2>3. ASSUME NEW k \in next .. N
        PROVE  G[old + 1 + k - next] = F[k] /\ H[old + 1 + k - next] = T[k]
    <3>1. PICK m \in 1 .. M : m = old + 1 + k - next
      BY <1>36
    <3>2. rs[m] = ds[k] /\ k \in 1 .. N
      BY <1>35, <1>36, <3>1
    <3> QED BY <1>9, <1>39, <3>1, <3>2
  <2> QED BY <2>1, <2>2, <2>3 DEF Copied
<1>41. Bounded(F, T, N)
  BY <1>9, <1>10, <1>11 DEF Bounded
<1>42. (UNION {F[n] .. T[n] - 1 : n \in 1 .. N}) \cup {g} = UNION {G[m] .. H[m] - 1 : m \in 1 .. M}
  <2>1. Joined(F, T, N, g, G, H, old + 1 + N - next)
    BY <1>7, <1>14, <1>18, <1>40, <1>41, SplicedUnion
  <2>2. Joined(F, T, N, g, G, H, M)
    BY <1>33, <2>1
  <2> QED BY <2>2 DEF Joined
<1>43. \A m \in 1 .. M : G[m] < H[m] /\ (m > 1 => H[m - 1] < G[m])
  BY <1>7, <1>14, <1>18, <1>33, <1>40, <1>41, SplicedOrder
<1>44. rooted = UNION {F[n] .. T[n] - 1 : n \in 1 .. N}
  <2>1. rooted = UNION {ds[n].from .. ds[n].to - 1 : n \in 1 .. N}
    BY <1>5, <1>7 DEF Regions
  <2> QED BY <1>9, <2>1
<1>45. DOMAIN rs = 1 .. M
  BY <1>31, <1>34
<1>46. rooted \cup {g} = UNION {rs[m].from .. rs[m].to - 1 : m \in DOMAIN rs}
  BY <1>39, <1>42, <1>44, <1>45
<1>47. ASSUME NEW m \in DOMAIN rs
       PROVE  rs[m].from < rs[m].to /\ (m > 1 => rs[m - 1].to < rs[m].from)
  <2>1. m \in 1 .. M /\ (m > 1 => m - 1 \in 1 .. M)
    BY <1>33, <1>45
  <2> QED BY <1>39, <1>43, <2>1
<1>48. Regions(rs, rooted \cup {g})
  BY <1>6, <1>31, <1>46, <1>47 DEF Regions
<1> QED BY <1>24, <1>48

-----------------------------------------------------------------------------
(* The collector's inductive invariant: the objects are apart, the regions *)
(* are the registered variables, every object has its link in one place,   *)
(* and what the program can reach is not on free_list.                     *)

Accounted == Sound(table, DOMAIN objs) /\ table.follow_list = {}

GcIInv == HeapOK /\ RootsOK /\ Accounted /\ table.free_list \cap Reachable = {}

LEMMA NothingYet ==
  Sound(NoObjects, {}) /\ NoObjects.follow_list = {} /\ NoObjects.free_list = {}
<1>1. PICK u : u = NoObjects
  OBVIOUS
<1>2. PICK H : H = Chains(Log2Size)
  OBVIOUS
<1>3. u = [log2_size |-> Log2Size, hroots |-> H, count |-> 0,
           min_obj_addr |-> MaxAddr + 1, max_obj_addr |-> BlockSize,
           marked_list |-> {}, follow_list |-> {}, free_list |-> {}]
  BY <1>1, <1>2 DEF NoObjects
<1>4. Log2Size \in Nat /\ MaxAddr + 1 \in Int /\ BlockSize \in Int
  BY CellsAre, TableAssumption, BlockAssumption
<1>5. /\ H \in [0 .. Power2[Log2Size] - 1 -> SUBSET Cell]
      /\ \A n \in DOMAIN H : H[n] = {}
  BY <1>2 DEF Chains
<1>6. IsTable(u)
  BY <1>3, <1>4, <1>5 DEF IsTable
<1>7. Chained(u)
  BY <1>3, <1>5 DEF Chained
<1>8. InTable(u) = {}
  BY <1>3, <1>5 DEF InTable
<1>9. Parts(u, {})
  BY <1>3, <1>8 DEF Parts
<1>10. u.count = Cardinality(InTable(u))
  BY <1>3, <1>8, FS_EmptySet
<1>11. Sound(u, {})
  BY <1>6, <1>7, <1>9, <1>10 DEF Sound
<1> QED BY <1>1, <1>3, <1>11

LEMMA GcStarts ==
  ASSUME GcInit
  PROVE  GcIInv
<1>1. HeapInit /\ dataroots = <<[from |-> Dummy, to |-> Dummy + 1]>> /\ table = NoObjects
  BY DEF GcInit
<1>2. DOMAIN objs = {}
  BY <1>1 DEF HeapInit
<1>3. HeapOK
  <2>1. objs \in [DOMAIN objs -> Kind]
    <3>1. objs = [a \in {} |-> [words |-> 1, atomic |-> FALSE]]
      BY <1>1 DEF HeapInit
    <3> QED BY <1>2, <3>1
  <2>2. mem \in [Cell -> Nat] /\ data \in [Global -> Nat] /\ stack \in [1 .. StackSize -> Nat]
    BY <1>1 DEF HeapInit
  <2>3. rooted \subseteq Global
    BY <1>1, GlobalAssumption DEF HeapInit
  <2> QED BY <1>2, <2>1, <2>2, <2>3 DEF HeapOK
<1>4. RootsOK
  <2>1. PICK d : d = Dummy
    OBVIOUS
  <2>2. d \in Nat /\ d + 1 \in Nat
    BY <2>1, GlobalAssumption
  <2>3. PICK x : x = [from |-> d, to |-> d + 1]
    OBVIOUS
  <2>4. x \in [from : Nat, to : Nat] /\ x.from = d /\ x.to = d + 1
    BY <2>2, <2>3
  <2>5. dataroots = <<x>>
    BY <1>1, <2>1, <2>3
  <2>6. /\ dataroots \in Seq([from : Nat, to : Nat]) /\ DOMAIN dataroots = {1}
        /\ dataroots[1] = x
    BY <2>4, <2>5
  <2>7. rooted = {d}
    BY <1>1, <2>1 DEF HeapInit
  <2>8. d .. (d + 1) - 1 = {d}
    BY <2>2
  <2>9. rooted = UNION {dataroots[n].from .. dataroots[n].to - 1 : n \in DOMAIN dataroots}
    <3>1. {dataroots[n].from .. dataroots[n].to - 1 : n \in DOMAIN dataroots}
            = {x.from .. x.to - 1}
      BY <2>6
    <3>2. x.from .. x.to - 1 = {d}
      BY <2>4, <2>8
    <3>3. UNION {{d}} = {d}
      OBVIOUS
    <3> QED BY <2>7, <3>1, <3>2, <3>3
  <2>10. ASSUME NEW n \in DOMAIN dataroots
         PROVE  dataroots[n].from < dataroots[n].to /\ ~(n > 1)
    BY <2>2, <2>4, <2>6
  <2> QED BY <2>6, <2>9, <2>10 DEF RootsOK
<1>5. Accounted
  BY <1>1, <1>2, NothingYet DEF Accounted
<1>6. table.free_list = {}
  BY <1>1, NothingYet
<1> QED BY <1>3, <1>4, <1>5, <1>6 DEF GcIInv

LEMMA GcStutters ==
  ASSUME GcIInv, UNCHANGED <<heapVars, gcVars>>
  PROVE  GcIInv'
<1>1. UNCHANGED <<objs, mem, data, rooted, stack, dataroots, table, recycling>>
  BY DEF heapVars, gcVars
<1>2. /\ \A a : Body(a)' = Body(a)
      /\ \A a : Within(a)' = Within(a)
  BY <1>1 DEF Body, Extent, Within
<1>3. HeapOK'
  BY <1>1, <1>2 DEF GcIInv, HeapOK
<1>4. Reachable' \subseteq Reachable
  <2>1. PICK T : T = Reachable
    OBVIOUS
  <2>2. T \subseteq DOMAIN objs /\ Closed(T) /\ Held \subseteq T
    BY <2>1, AroundIs, HeldAre DEF Reachable
  <2>3. Held' = Held
    BY <1>1, <1>2 DEF Held
  <2>4. Closed(T)'
    BY <1>1, <1>2, <2>2 DEF Closed
  <2> QED BY <1>1, <2>1, <2>2, <2>3, <2>4, ReachableAfter
<1>5. RootsOK'
  BY <1>1 DEF GcIInv, RootsOK
<1>6. Accounted'
  BY <1>1 DEF GcIInv, Accounted
<1> QED BY <1>1, <1>3, <1>4, <1>5, <1>6 DEF GcIInv

LEMMA StoreStep ==
  ASSUME GcIInv, Store, UNCHANGED gcVars
  PROVE  GcIInv'
<1>1. UNCHANGED <<dataroots, table, recycling>>
  BY DEF gcVars
<1>2. HeapOK' /\ UNCHANGED <<objs, rooted>> /\ Reachable' \subseteq Reachable
  BY StoreKeeps DEF GcIInv
<1>3. RootsOK'
  BY <1>1, <1>2 DEF GcIInv, RootsOK
<1>4. Accounted'
  BY <1>1, <1>2 DEF GcIInv, Accounted
<1> QED BY <1>1, <1>2, <1>3, <1>4 DEF GcIInv

LEMMA AddRootsStep ==
  ASSUME GcIInv, NEW g \in Global \ rooted, NEW w \in Reachable \cup {0}, AddRoots(g, w)
  PROVE  GcIInv'
<1>1. /\ GCVar(g, w) /\ dataroots' = RootsAdded(g, g + 1) /\ UNCHANGED table
  BY DEF AddRoots
<1>2. HeapOK' /\ UNCHANGED objs /\ Reachable' \subseteq Reachable
  BY <1>1, GCVarKeeps DEF GcIInv
<1>3. g \in Nat /\ rooted' = rooted \cup {g}
  BY <1>1, GlobalAssumption DEF GCVar
<1>4. Regions(dataroots', rooted')
  BY <1>1, <1>3, RootsAddedRight DEF GcIInv
<1>5. RootsOK'
  BY <1>4 DEF RootsOK, Regions
<1>6. Accounted'
  BY <1>1, <1>2 DEF GcIInv, Accounted
<1> QED BY <1>1, <1>2, <1>5, <1>6 DEF GcIInv

(* An allocation. *)
LEMMA FreedSound ==
  ASSUME NEW u, NEW D, Sound(u, D), NEW gone \in SUBSET u.free_list,
         NEW v, v = [u EXCEPT !.free_list = @ \ gone]
  PROVE  /\ Sound(v, D \ gone) /\ v.free_list = u.free_list \ gone
         /\ v.follow_list = u.follow_list
<1>1. PICK lg, H, cnt, lo, hi, ml, fl, fr :
        u = [log2_size |-> lg, hroots |-> H, count |-> cnt, min_obj_addr |-> lo,
             max_obj_addr |-> hi, marked_list |-> ml, follow_list |-> fl, free_list |-> fr]
  BY DEF Sound, IsTable
<1>2. v = [log2_size |-> lg, hroots |-> H, count |-> cnt, min_obj_addr |-> lo,
           max_obj_addr |-> hi, marked_list |-> ml, follow_list |-> fl,
           free_list |-> fr \ gone]
  BY <1>1
<1>3. IsTable(v)
  <2>1. IsTable(u)
    BY DEF Sound
  <2>2. /\ lg \in Nat /\ H \in [0 .. Power2[lg] - 1 -> SUBSET Cell] /\ cnt \in Int
        /\ lo \in Int /\ hi \in Int /\ ml \subseteq Cell /\ fl \subseteq Cell /\ fr \subseteq Cell
    BY <1>1, <2>1 DEF IsTable
  <2>3. /\ v.log2_size = lg /\ v.hroots = H /\ v.count = cnt /\ v.min_obj_addr = lo
        /\ v.max_obj_addr = hi /\ v.marked_list = ml /\ v.follow_list = fl
        /\ v.free_list = fr \ gone
    BY <1>2
  <2> QED BY <1>2, <2>2, <2>3 DEF IsTable
<1>4. Chained(v)
  BY <1>1, <1>2 DEF Sound, Chained
<1>5. InTable(v) = InTable(u)
  BY <1>1, <1>2 DEF InTable
<1>6. Parts(v, D \ gone)
  <2>1. Parts(u, D)
    BY DEF Sound
  <2> QED BY <1>1, <1>2, <1>5, <2>1 DEF Parts
<1>7. v.count = Cardinality(InTable(v))
  BY <1>1, <1>2, <1>5 DEF Sound
<1> QED BY <1>1, <1>2, <1>3, <1>4, <1>6, <1>7 DEF Sound

LEMMA RoomsApart ==
  ASSUME HeapOK, NEW kind \in Kind, NEW S \in SUBSET DOMAIN objs, NEW at \in Rooms(kind, S)
  PROVE  at \in Cell /\ at \notin S
<1>1. at \in Cell /\ Extent(kind, at) \subseteq Cell \ (UNION {Body(a) : a \in S})
  BY DEF Rooms
<1>2. at \in Int /\ kind.words \in Nat \ {0}
  BY <1>1, CellsAre, KindAssumption
<1>3. at \in Extent(kind, at)
  BY <1>2 DEF Extent
<1>4. ASSUME at \in S PROVE FALSE
  <2>1. at \in DOMAIN objs
    BY <1>4
  <2>2. at \in Body(at)
    <3>1. objs[at].words \in Nat \ {0}
      BY <2>1, BodyIs DEF HeapOK
    <3> QED BY <1>2, <3>1 DEF Body, Extent
  <2> QED BY <1>1, <1>3, <1>4, <2>2
<1> QED BY <1>1, <1>4

Allocates(kind, slot) == \E at \in Cell, gone \in SUBSET (DOMAIN objs \ Reachable) :
                            Allocate(kind, at, slot, gone)

LEMMA MallocStep ==
  ASSUME GcIInv, NEW kind \in Kind, NEW slot \in 1 .. StackSize, Malloc(kind, slot)
  PROVE  GcIInv' /\ Allocates(kind, slot)
<1>1. PICK early :
        early = IF Rooms(kind, DOMAIN objs) = {} THEN table.free_list ELSE {}
  OBVIOUS
<1>2. PICK kept : kept = DOMAIN objs \ early
  OBVIOUS
<1>3. PICK freed : freed = [table EXCEPT !.free_list = @ \ early]
  OBVIOUS
<1>4. PICK at \in Rooms(kind, kept) :
        \/ /\ Allocate(kind, at, slot, early) /\ table' = Linked(freed, {at})
        \/ \E back \in SUBSET Linked(freed, {at}).marked_list,
              gone \in SUBSET Linked(freed, {at}).free_list :
             /\ Allocate(kind, at, slot, early \cup gone)
             /\ table' = [SomeRefill(Linked(freed, {at}), back) EXCEPT !.free_list = @ \ gone]
  <2> DEFINE E == IF Rooms(kind, DOMAIN objs) = {} THEN table.free_list ELSE {}
             K(e) == DOMAIN objs \ e
             F(e) == [table EXCEPT !.free_list = @ \ e]
             Gives(e, f, at) ==
               \/ /\ Allocate(kind, at, slot, e) /\ table' = Linked(f, {at})
               \/ \E back \in SUBSET Linked(f, {at}).marked_list,
                     gone \in SUBSET Linked(f, {at}).free_list :
                    /\ Allocate(kind, at, slot, e \cup gone)
                    /\ table' = [SomeRefill(Linked(f, {at}), back) EXCEPT !.free_list = @ \ gone]
  <2>1. \E at \in Rooms(kind, K(E)) : Gives(E, F(E), at)
    BY Zenon DEF Malloc
  <2>2. E = early /\ K(early) = kept /\ F(early) = freed
    BY <1>1, <1>2, <1>3
  <2> HIDE DEF E, K, F, Gives
  <2>3. \E at \in Rooms(kind, kept) : Gives(early, freed, at)
    BY <2>1, <2>2
  <2> QED BY <2>3 DEF Gives
<1>5. UNCHANGED dataroots
  BY DEF Malloc
<1>6. PICK D : D = DOMAIN objs
  OBVIOUS
<1>7. Sound(table, D) /\ table.follow_list = {} /\ HeapOK
  BY <1>6 DEF GcIInv, Accounted
<1>8. table.free_list \subseteq D /\ table.free_list \cap Reachable = {}
  BY <1>7 DEF GcIInv, Sound, Parts
<1>9. early \in SUBSET table.free_list
  BY <1>1
<1>10. Sound(freed, kept) /\ freed.free_list = table.free_list \ early /\ freed.follow_list = {}
  BY <1>2, <1>3, <1>6, <1>7, <1>9, FreedSound
<1>11. at \in Cell /\ at \notin kept
  BY <1>2, <1>6, <1>7, RoomsApart
<1>12. PICK t : t = Linked(freed, {at})
  OBVIOUS
<1>13. Sound(t, kept \cup {at}) /\ Relinked(t, freed, {at})
  <2>1. {at} \in SUBSET Cell /\ {at} \cap kept = {}
    BY <1>11
  <2> QED BY <1>10, <1>12, <2>1, LinkedSound
<1>14. /\ t.free_list = table.free_list \ early /\ t.follow_list = {}
       /\ t.free_list \subseteq kept
  BY <1>2, <1>6, <1>8, <1>10, <1>13 DEF Relinked
<1>15. ASSUME NEW gone \in SUBSET t.free_list, NEW u,
              Sound(u, kept \cup {at}), u.free_list = t.free_list, u.follow_list = {},
              table' = [u EXCEPT !.free_list = @ \ gone],
              Allocate(kind, at, slot, early \cup gone)
       PROVE  GcIInv' /\ Allocates(kind, slot)
  <2>1. PICK all : all = early \cup gone
    OBVIOUS
  <2>2. all \in SUBSET D /\ all \cap Reachable = {}
    BY <1>8, <1>9, <1>14, <1>15, <2>1
  <2>3. Allocate(kind, at, slot, all)
    BY <1>15, <2>1
  <2>4. /\ HeapOK' /\ UNCHANGED rooted /\ DOMAIN objs' = (D \ all) \cup {at}
        /\ Reachable' \subseteq Reachable \cup {at}
    BY <1>6, <1>7, <1>11, <2>2, <2>3, AllocateKeeps
  <2>5. /\ Sound(table', (kept \cup {at}) \ gone) /\ table'.free_list = t.free_list \ gone
        /\ table'.follow_list = {}
    <3>1. PICK v : v = table'
      OBVIOUS
    <3>2. v = [u EXCEPT !.free_list = @ \ gone] /\ gone \in SUBSET u.free_list
      BY <1>15, <3>1
    <3>3. /\ Sound(v, (kept \cup {at}) \ gone) /\ v.free_list = u.free_list \ gone
          /\ v.follow_list = u.follow_list
      BY <1>15, <3>2, FreedSound
    <3> QED BY <1>15, <3>1, <3>3
  <2>6. (kept \cup {at}) \ gone = DOMAIN objs'
    BY <1>2, <1>6, <1>11, <1>14, <1>15, <2>1, <2>4
  <2>7. Accounted'
    BY <2>5, <2>6 DEF Accounted
  <2>8. RootsOK'
    BY <1>5, <2>4 DEF GcIInv, RootsOK
  <2>9. table'.free_list \cap Reachable' = {}
    BY <1>8, <1>11, <1>14, <2>4, <2>5
  <2>10. Allocates(kind, slot)
    BY <1>6, <1>11, <2>2, <2>3 DEF Allocates
  <2> QED BY <2>4, <2>7, <2>8, <2>9, <2>10 DEF GcIInv
<1>16. CASE Allocate(kind, at, slot, early) /\ table' = t
  <2>1. PICK gone : gone = {}
    OBVIOUS
  <2>2. t = [t EXCEPT !.free_list = @ \ gone]
    <3>1. PICK lg, H, cnt, lo, hi, ml, fl, fr :
            t = [log2_size |-> lg, hroots |-> H, count |-> cnt, min_obj_addr |-> lo,
                 max_obj_addr |-> hi, marked_list |-> ml, follow_list |-> fl, free_list |-> fr]
      BY <1>13 DEF Sound, IsTable
    <3>2. fr \ gone = fr
      BY <2>1
    <3> QED BY <3>1, <3>2
  <2>3. early \cup gone = early /\ gone \in SUBSET t.free_list
    BY <2>1
  <2> QED BY <1>13, <1>14, <1>15, <1>16, <2>2, <2>3
<1>17. ASSUME NEW back \in SUBSET t.marked_list, NEW gone \in SUBSET t.free_list,
              Allocate(kind, at, slot, early \cup gone),
              table' = [SomeRefill(t, back) EXCEPT !.free_list = @ \ gone]
       PROVE  GcIInv' /\ Allocates(kind, slot)
  <2>1. PICK u : u = SomeRefill(t, back)
    OBVIOUS
  <2>2. /\ Sound(u, kept \cup {at}) /\ u.free_list = t.free_list
        /\ u.follow_list = t.follow_list
    BY <1>13, <2>1, RefillSound
  <2> QED BY <1>14, <1>15, <1>17, <2>1, <2>2
<1> QED BY <1>4, <1>12, <1>16, <1>17

LEMMA CollectStep ==
  ASSUME GcIInv, CollectUnreachable
  PROVE  /\ GcIInv' /\ UNCHANGED heapVars
         /\ DOMAIN objs \ table'.free_list \subseteq Around(HeldLoosely)
<1>1. PICK v : v = CollectedFrom(Refilled(table))
  OBVIOUS
<1>2. /\ table' = v /\ UNCHANGED <<objs, mem, data, rooted, stack, dataroots>>
  BY <1>1 DEF CollectUnreachable, CollectedFrom, heapVars
<1>3. Sound(v, DOMAIN objs) /\ Spared(v)
  BY <1>1, CollectionRight DEF GcIInv, Accounted
<1>4. /\ v.follow_list = {} /\ v.free_list \cap Reachable = {}
      /\ DOMAIN objs \ v.free_list \subseteq Around(HeldLoosely)
  BY <1>3 DEF Spared
<1>5. /\ \A a : Body(a)' = Body(a)
      /\ \A a : Within(a)' = Within(a)
  BY <1>2 DEF Body, Extent, Within
<1>6. HeapOK'
  BY <1>2, <1>5 DEF GcIInv, HeapOK
<1>7. Reachable' \subseteq Reachable
  <2>1. PICK T : T = Reachable
    OBVIOUS
  <2>2. T \subseteq DOMAIN objs /\ Closed(T) /\ Held \subseteq T
    BY <2>1, AroundIs, HeldAre DEF Reachable
  <2>3. Held' = Held
    BY <1>2, <1>5 DEF Held
  <2>4. Closed(T)'
    BY <1>2, <1>5, <2>2 DEF Closed
  <2> QED BY <1>2, <2>1, <2>2, <2>3, <2>4, ReachableAfter
<1>8. RootsOK'
  BY <1>2 DEF GcIInv, RootsOK
<1>9. Accounted'
  BY <1>2, <1>3, <1>4 DEF Accounted
<1>10. table'.free_list \cap Reachable' = {}
  BY <1>2, <1>4, <1>7
<1>11. UNCHANGED heapVars
  BY <1>2 DEF heapVars
<1> QED BY <1>2, <1>4, <1>6, <1>8, <1>9, <1>10, <1>11 DEF GcIInv

LEMMA GcStep ==
  ASSUME GcIInv, [GcNext]_<<heapVars, gcVars>>
  PROVE  GcIInv' /\ [HeapNext]_heapVars
<1>1. CASE UNCHANGED <<heapVars, gcVars>>
  BY <1>1, GcStutters
<1>2. CASE Store /\ UNCHANGED gcVars
  BY <1>2, StoreStep DEF HeapNext
<1>3. ASSUME NEW g \in Global \ rooted, NEW w \in Reachable \cup {0}, AddRoots(g, w)
      PROVE  GcIInv' /\ [HeapNext]_heapVars
  <2>1. GCVar(g, w)
    BY <1>3 DEF AddRoots
  <2>2. Register
    BY <2>1 DEF Register
  <2> QED BY <1>3, <2>2, AddRootsStep DEF HeapNext
<1>4. ASSUME NEW kind \in Kind, NEW slot \in 1 .. StackSize, Malloc(kind, slot)
      PROVE  GcIInv' /\ [HeapNext]_heapVars
  <2>1. GcIInv' /\ Allocates(kind, slot)
    BY <1>4, MallocStep
  <2>2. PICK at \in Cell, gone \in SUBSET (DOMAIN objs \ Reachable) :
          Allocate(kind, at, slot, gone)
    BY <2>1 DEF Allocates
  <2>3. HeapNext
    BY <2>2 DEF HeapNext
  <2> QED BY <2>1, <2>3
<1>5. CASE CollectUnreachable
  BY <1>5, CollectStep
<1> QED BY <1>1, <1>2, <1>3, <1>4, <1>5 DEF GcNext

(* Between any two operations objects are apart, the regions are in order, *)
(* links are accounted for, and nothing on free_list is reachable, though  *)
(* the last collection may be undone only in part.                         *)
THEOREM GcIInvCorrect == GcSpec => []GcIInv
<1>1. GcInit => GcIInv
  BY GcStarts
<1>2. GcIInv /\ [GcNext]_<<heapVars, gcVars>> => GcIInv'
  BY GcStep
<1> QED BY <1>1, <1>2, PTL DEF GcSpec

(* Every object has its link in exactly one place, where it is looked for, *)
(* what has been found stays found, and the regions are the registered     *)
(* variables (GC_objlink_add and its callers, GC_roots_add).               *)
THEOREM LinksAccounted == GcSpec => []CollectorInv
<1>1. ASSUME GcIInv PROVE CollectorInv
  <2>1. Sound(table, DOMAIN objs) /\ table.follow_list = {} /\ RootsOK
    BY <1>1 DEF GcIInv, Accounted
  <2>2. PICK L : L = <<InTable(table), table.marked_list, table.follow_list, table.free_list>>
    OBVIOUS
  <2>3. Lists(table) = L
    BY <2>2 DEF Lists
  <2>4. Parts(table, DOMAIN objs)
    BY <2>1 DEF Sound
  <2>5. /\ L[1] = InTable(table) /\ L[2] = table.marked_list
        /\ L[3] = table.follow_list /\ L[4] = table.free_list
    BY <2>2
  <2>6. \A n \in 1 .. 4 : n = 1 \/ n = 2 \/ n = 3 \/ n = 4
    OBVIOUS
  <2>7. DOMAIN objs = L[1] \cup L[2] \cup L[3] \cup L[4]
    BY <2>4, <2>5 DEF Parts
  <2>8. UNION {L[n] : n \in 1 .. 4} = L[1] \cup L[2] \cup L[3] \cup L[4]
    BY <2>6
  <2>9. /\ L[1] \cap L[2] = {} /\ L[1] \cap L[3] = {} /\ L[1] \cap L[4] = {}
        /\ L[2] \cap L[3] = {} /\ L[2] \cap L[4] = {} /\ L[3] \cap L[4] = {}
    BY <2>4, <2>5 DEF Parts
  <2>10. ASSUME NEW n \in 1 .. 4, NEW k \in 1 .. n - 1
         PROVE  L[n] \cap L[k] = {}
    <3>1. (n = 2 /\ k = 1) \/ (n = 3 /\ k \in {1, 2}) \/ (n = 4 /\ k \in {1, 2, 3})
      OBVIOUS
    <3> QED BY <2>9, <3>1
  <2>11. DOMAIN table.hroots = 0 .. Power2[table.log2_size] - 1
    BY <2>1 DEF Sound, IsTable
  <2>12. \A n \in DOMAIN table.hroots : \A a \in table.hroots[n] :
           /\ n = bucket(block(a), table.log2_size)
           /\ table.min_obj_addr <= a /\ a + BlockSize <= table.max_obj_addr
    BY <2>1 DEF Sound, Chained
  <2>13. table.count = Cardinality(InTable(table))
    BY <2>1 DEF Sound
  <2>14. /\ rooted = UNION {dataroots[n].from .. dataroots[n].to - 1 : n \in DOMAIN dataroots}
         /\ \A n \in DOMAIN dataroots : /\ dataroots[n].from < dataroots[n].to
                                        /\ n > 1 => dataroots[n - 1].to < dataroots[n].from
    BY <2>1 DEF RootsOK
  <2> QED BY <2>1, <2>3, <2>7, <2>8, <2>10, <2>11, <2>12, <2>13, <2>14 DEF CollectorInv
<1> QED BY <1>1, GcIInvCorrect, PTL

(* To the program the collector is a heap that frees only what cannot be   *)
(* reached, whenever the collections come and however much of the last one *)
(* is still undone (GC_general_malloc, GC_collect_unreachable).            *)
THEOREM CollectorImplementsHeap == GcSpec => ImplementsHeap
<1>1. GcInit => HeapInit
  BY DEF GcInit
<1>2. GcIInv /\ [GcNext]_<<heapVars, gcVars>> => [HeapNext]_heapVars
  BY GcStep
<1> QED BY <1>1, <1>2, GcIInvCorrect, PTL DEF GcSpec, ImplementsHeap, HeapSpec

(* A collection puts on free_list all that is not held, directly or        *)
(* through other objects, by a registered variable or by a word of the     *)
(* stack that points into it (GC_collect_unreachable).                     *)
THEOREM CollectionsAreFull == GcSpec => CollectsGarbage
<1>1. GcIInv /\ [GcNext]_<<heapVars, gcVars>>
        => [CollectUnreachable => DOMAIN objs \ table'.free_list \subseteq Around(HeldLoosely)
           ]_<<heapVars, gcVars>>
  BY CollectStep
<1> QED BY <1>1, GcIInvCorrect, PTL DEF GcSpec, CollectsGarbage
=============================================================================
