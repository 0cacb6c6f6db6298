----------------------------- MODULE MergeSort -----------------------------
(***************************************************************************)
(* Arr<T>::sort_in_place of src/adlib/arr.h, the bottom-up merge sort that *)
(* puts the functions of a file in order before its text is spliced.       *)
(* Passes merge neighbouring runs of step elements from in to out and swap *)
(* the two.  The last run of a pass may be short or missing; the ends of   *)
(* both runs are clipped to the array, their starts are not.               *)
(*                                                                         *)
(* An element is a pair of what cmpfunc compares and its place in the      *)
(* argument, so that equal elements can be told apart.                     *)
(***************************************************************************)
EXTENDS Integers, FiniteSets, Functions

CONSTANTS SortKey,   \* what cmpfunc tells apart
          MaxLen,    \* bound on the length of the arrays that are enumerated
          Unset      \* what GC_MALLOC leaves in out

ASSUME SortKeyAssumption == SortKey \subseteq Int
ASSUME MaxLenAssumption == MaxLen \in Nat

VARIABLES array,     \* _data, replaced at the end
          in, out,   \* the two buffers
          step, i,   \* the length of a run, and the start of this pair
          p, l, r,   \* where to write, and where to read in the two runs
          sorting    \* is the call under way?

sortVars == <<array, in, out, step, i, p, l, r, sorting>>

_len == Cardinality(DOMAIN array)

Clipped(n) == IF n > _len THEN _len ELSE n

lmax == Clipped(i + step)
rmax == Clipped(i + 2 * step)

Arrays == UNION {{[n \in 0 .. size - 1 |-> <<keys[n], n>>] :
                    keys \in [0 .. size - 1 -> SortKey]} : size \in 0 .. MaxLen}

Precedes(a, b) == a[1] < b[1]   \* cmpfunc(a, b) < 0

SortInit == /\ array \in Arrays
            /\ in = array
            /\ out = [n \in DOMAIN array |-> Unset]
            /\ step = 1 /\ i = 0
            /\ p = 0 /\ l = 0 /\ r = 1
            /\ sorting = TRUE

(* The three inner loops: while both runs last the smaller head is taken,  *)
(* the right one if they are equal; then what is left of either.           *)
TakeLeft == /\ step < _len /\ l < lmax
            /\ r < rmax => Precedes(in[l], in[r])
            /\ out' = [out EXCEPT ![p] = in[l]]
            /\ p' = p + 1 /\ l' = l + 1
            /\ UNCHANGED <<array, in, step, i, r, sorting>>

(* Mutant: the heads are not compared. *)
TakeRightFirst == /\ step < _len /\ r < rmax
                  /\ out' = [out EXCEPT ![p] = in[r]]
                  /\ p' = p + 1 /\ r' = r + 1
                  /\ UNCHANGED <<array, in, step, i, l, sorting>>

TakeRight == /\ step < _len /\ r < rmax
             /\ l < lmax => ~Precedes(in[l], in[r])
             /\ out' = [out EXCEPT ![p] = in[r]]
             /\ p' = p + 1 /\ r' = r + 1
             /\ UNCHANGED <<array, in, step, i, l, sorting>>

PairDone == step < _len /\ l >= lmax /\ r >= rmax

StartPair(start, length) ==
    i' = start /\ p' = start /\ l' = start /\ r' = start + length

NextPair == /\ PairDone /\ i + 2 * step < _len
            /\ StartPair(i + 2 * step, step)
            /\ UNCHANGED <<array, in, out, step, sorting>>

(* Mutant: the buffers are not swapped. *)
NextPassUnswapped == /\ PairDone /\ i + 2 * step >= _len
                     /\ step' = 2 * step
                     /\ StartPair(0, 2 * step)
                     /\ UNCHANGED <<array, in, out, sorting>>

NextPass == /\ PairDone /\ i + 2 * step >= _len
            /\ in' = out /\ out' = in
            /\ step' = 2 * step
            /\ StartPair(0, 2 * step)
            /\ UNCHANGED <<array, sorting>>

PutBack == /\ sorting /\ step >= _len
          /\ array' = in
          /\ sorting' = FALSE
          /\ UNCHANGED <<in, out, step, i, p, l, r>>

SortNext == TakeLeft \/ TakeRight \/ NextPair \/ NextPass \/ PutBack

SortSpec == SortInit /\ [][SortNext]_sortVars

-----------------------------------------------------------------------------
SortedIn(buffer, first, last) ==
    \A m, n \in first .. last : m < n => ~Precedes(buffer[n], buffer[m])

Image(buffer, places) == {buffer[n] : n \in places}

(* The ranges that a pass with runs of the given length has merged, up to  *)
(* the place it has reached.                                               *)
RunsSorted(buffer, length, end) ==
    \A start \in 0 .. end :
       start % length = 0 =>
          SortedIn(buffer, start, IF start + length > end THEN end - 1
                                                   ELSE start + length - 1)

(* Between any two turns: in is the argument in another order with sorted  *)
(* runs; out holds, up to p, exactly the elements read so far, and nothing *)
(* left in the two runs precedes what is already written.  Every read and  *)
(* write lies in the array although the starts of the runs are not clipped.*)
SortInv ==
    LET read == 0 .. l - 1 \cup i + step .. r - 1
        unread == l .. lmax - 1 \cup r .. rmax - 1
    IN  /\ Range(in) = Range(array)
        /\ RunsSorted(in, step, _len)
        /\ sorting /\ step < _len =>
              /\ p <= _len /\ l <= lmax
              /\ Image(out, 0 .. p - 1) = Image(in, read)
              /\ RunsSorted(out, 2 * step, p)
              /\ \A m \in i .. p - 1, n \in unread :
                    ~Precedes(in[n], out[m])

(* The array that is put back is sorted and holds the elements it held.    *)
SortsArray ==
    [][PutBack => /\ SortedIn(array', 0, _len - 1)
                 /\ DOMAIN array' = DOMAIN array
                 /\ Range(array') = Range(array)]_sortVars
=============================================================================
