------------------------------ MODULE Buffers ------------------------------
(***************************************************************************)
(* AdLib's arrays and strings on their memory (src/adlib/arr.h, str.h and  *)
(* str.cc): a length and a block of cells, which is replaced when it gets  *)
(* too small or is made to fit.  A block of pointers is zeroed when it is  *)
(* allocated, one of characters is not; a string has one cell more than    *)
(* its capacity, for the NUL behind it.  Next to each stands the sequence  *)
(* that it is meant to be.                                                 *)
(*                                                                         *)
(* An offset counts the cells before a place, as an index of the code      *)
(* does; cells themselves are counted from 1.                              *)
(***************************************************************************)
EXTENDS Basic, Sequences, FiniteSets

SeqOps == INSTANCE SequencesExt

CONSTANTS Items,     \* what an array holds; not zero
          Chars,     \* what a string holds; not NUL
          CR, LF,    \* two of them
          HashMod,   \* 2^32 in the code
          MaxItems   \* bound on the lengths that are reached

ASSUME ItemsAssumption == Items \subseteq Int \ {0}
ASSUME CharsAssumption == Chars \subseteq Nat \ {0} /\ {CR, LF} \subseteq Chars
ASSUME HashModAssumption == HashMod \in Nat \ {0}
ASSUME MaxItemsAssumption == MaxItems \in Nat

VARIABLES arr, arrItems,   \* an Arr, and the sequence it stands for
          str, strText     \* a Str, and its text

arrayVars == <<arr, arrItems>>
stringVars == <<str, strText>>

Junk == -1      \* what is left in memory by others
NOWHERE == -1

Zeros(n) == [k \in 1 .. n |-> 0]
Junks(n) == [k \in 1 .. n |-> Junk]

(* memcpy, memmove and memset: s is written behind at cells. *)
Stored(data, at, s) ==
    [k \in DOMAIN data |-> IF at < k /\ k <= at + Len(s) THEN s[k - at] ELSE data[k]]

Short(lengths) == UNION {[1 .. n -> Items] : n \in lengths}

-----------------------------------------------------------------------------
(* Arr. *)
_cap(a) == Len(a.data)

ArrOf(items) == [len |-> Len(items), data |-> items]

NewArr(size) == [len |-> 0, data |-> Zeros(size)]

ArrResized(a, newcap) ==
    [a EXCEPT !.data = SubSeq(@, 1, a.len) \o Zeros(newcap - a.len)]

ArrExpanded(a, newlen) ==
    IF newlen > _cap(a) THEN ArrResized(a, nextPow2(newlen)) ELSE a

(* shrink(false) *)
ArrShrunk(a) == IF (a.len * 3) \div 2 + 1 < _cap(a) THEN ArrResized(a, a.len) ELSE a

ArrAdd(a, items) ==
    LET big == ArrExpanded(a, a.len + Len(items))
    IN  [len |-> a.len + Len(items), data |-> Stored(big.data, a.len, items)]

(* Mutant: what has been popped stays in memory. *)
ArrDropped(a, n) == [a EXCEPT !.len = @ - n]

ArrPopped(a, n) == [len |-> a.len - n, data |-> Stored(a.data, a.len - n, Zeros(n))]

ArrRemoved(a, start, count) ==
    LET moved == Stored(a.data, start, SubSeq(a.data, start + count + 1, a.len))
        left == a.len - count
    IN  IF count <= 0 THEN a
        ELSE ArrShrunk([len |-> left, data |-> Stored(moved, left, Zeros(count))])

ArrWithLen(a, len) ==
    IF len > a.len THEN [len |-> len, data |-> Stored(ArrExpanded(a, len).data, a.len,
                                                      Zeros(len - a.len))]
    ELSE IF len < a.len THEN ArrShrunk(ArrPopped(a, a.len - len))
    ELSE a

ArrFilled(a, start, count, value) ==
    [a EXCEPT !.data = Stored(@, start, [k \in 1 .. count |-> value])]

ArrSub(a, start, count) ==
    IF count <= 0 THEN NewArr(2) ELSE ArrOf(SubSeq(a.data, start + 1, start + count))

(* The loop writes over what it has read: turn[k] is its p and the data    *)
(* after k items.                                                          *)
ArrFiltered(a, drop) ==
    LET turn[k \in 0 .. a.len] ==
          IF k = 0 THEN [p |-> 0, data |-> a.data]
          ELSE LET t == turn[k - 1] IN
               IF t.data[k] = drop THEN t
               ELSE [p |-> t.p + 1, data |-> Stored(t.data, t.p, <<t.data[k]>>)]
        last == turn[a.len]
    IN  ArrShrunk(ArrPopped([a EXCEPT !.data = last.data], a.len - last.p))

(* map makes an array of the same capacity. *)
ArrMapped(a, from, to) ==
    [len |-> a.len, data |-> Stored(Zeros(_cap(a)), 0,
       [k \in 1 .. a.len |-> IF a.data[k] = from THEN to ELSE a.data[k]])]

Ranges(len) == {r \in (0 .. len) \X (0 .. len) : r[1] + r[2] <= len}   \* start, count

ArrInit == \/ \E size \in 0 .. 2 : arr = NewArr(size) /\ arrItems = <<>>
           \/ \E items \in Short({1, 3}) : arr = ArrOf(items) /\ arrItems = items

AddItems == \E items \in Short({1, 2}) \cup {arrItems} :   \* add(self) as well
    /\ Len(arrItems) + Len(items) <= MaxItems
    /\ arr' = ArrAdd(arr, items) /\ arrItems' = arrItems \o items

PopItems == \E n \in 1 .. 3 :
    LET m == IF n > arr.len THEN arr.len ELSE n
    IN  /\ arr' = ArrPopped(arr, m)
        /\ arrItems' = SubSeq(arrItems, 1, Len(arrItems) - m)

Without(s, r) == SubSeq(s, 1, r[1]) \o SubSeq(s, r[1] + r[2] + 1, Len(s))

(* remove; shift is the case of the first item. *)
RemoveItems == \E r \in Ranges(arr.len) :
    /\ arr' = ArrRemoved(arr, r[1], r[2]) /\ arrItems' = Without(arrItems, r)

SetArrLen == \E len \in 0 .. MaxItems :
    /\ arr' = ArrWithLen(arr, len)
    /\ arrItems' = [k \in 1 .. len |-> IF k <= Len(arrItems) THEN arrItems[k] ELSE 0]

FillItems == \E r \in Ranges(arr.len), x \in Items :
    /\ arr' = ArrFilled(arr, r[1], r[2], x)
    /\ arrItems' = [k \in DOMAIN arrItems |-> IF r[1] < k /\ k <= r[1] + r[2] THEN x
                                              ELSE arrItems[k]]

SubItems == \E r \in Ranges(arr.len) :
    /\ arr' = ArrSub(arr, r[1], r[2])
    /\ arrItems' = SubSeq(arrItems, r[1] + 1, r[1] + r[2])

Filtered(s, drop) ==
    LET kept[k \in 0 .. Len(s)] ==
          IF k = 0 THEN <<>>
          ELSE IF s[k] = drop THEN kept[k - 1] ELSE Append(kept[k - 1], s[k])
    IN  kept[Len(s)]

FilterItems == \E x \in Items :
    /\ arr' = ArrFiltered(arr, x) /\ arrItems' = Filtered(arrItems, x)

MapItems == \E x, y \in Items :
    /\ arr' = ArrMapped(arr, x, y)
    /\ arrItems' = [k \in DOMAIN arrItems |-> IF arrItems[k] = x THEN y ELSE arrItems[k]]

ArrNext == AddItems \/ PopItems \/ RemoveItems \/ SetArrLen \/ FillItems
           \/ SubItems \/ FilterItems \/ MapItems

-----------------------------------------------------------------------------
(* Str. *)
StrOf(text) == [len |-> Len(text), data |-> Append(text, 0)]

NewStr(size) == [len |-> 0, data |-> <<0>> \o Junks(size)]

(* resize copies the characters, not the NUL. *)
StrResized(s, newcap) ==
    [s EXCEPT !.data = SubSeq(@, 1, s.len) \o Junks(newcap + 1 - s.len)]

StrExpanded(s, newlen) ==
    IF newlen > Len(s.data) - 1 THEN StrResized(s, nextPow2(newlen)) ELSE s

(* shrink, whatever fit is *)
StrShrunk(s) == IF s.len # Len(s.data) - 1 THEN StrResized(s, s.len) ELSE s

StrAdd(s, text) ==
    LET big == StrExpanded(s, s.len + Len(text))
    IN  [len |-> s.len + Len(text),
         data |-> Stored(big.data, s.len, Append(text, 0))]

StrRemoved(s, start, count) ==
    LET moved == Stored(s.data, start, SubSeq(s.data, start + count + 1, s.len))
        left == s.len - count
    IN  IF count <= 0 THEN s
        ELSE StrShrunk([len |-> left, data |-> Stored(moved, left, <<0>>)])

StrWithLen(s, len) ==
    IF len > s.len THEN [len |-> len, data |-> Stored(StrExpanded(s, len).data, s.len,
                                                      Zeros(len - s.len + 1))]
    ELSE IF len < s.len
    THEN StrShrunk([len |-> len, data |-> Stored(s.data, len, Zeros(s.len - len))])
    ELSE s

(* One LF and one CR, in this order, at the end. *)
Chomped(text) ==
    LET cut(t, c) == IF t # <<>> /\ SeqOps!Last(t) = c THEN SeqOps!Front(t) ELSE t
    IN  cut(cut(text, LF), CR)

chomp(s) == LET left == Len(Chomped(SubSeq(s.data, 1, s.len)))
            IN  [len |-> left, data |-> Stored(s.data, left, <<0>>)]

Texts(lengths) == UNION {[1 .. n -> Chars] : n \in lengths}

StrInit == \/ \E size \in {0, 3} : str = NewStr(size) /\ strText = <<>>
           \/ \E text \in Texts({0, 1}) : str = StrOf(text) /\ strText = text

AddText == \E text \in Texts({1, 2}) \cup {strText} :
    /\ Len(strText) + Len(text) <= MaxItems
    /\ str' = StrAdd(str, text) /\ strText' = strText \o text

RemoveText == \E r \in Ranges(str.len) :
    /\ str' = StrRemoved(str, r[1], r[2]) /\ strText' = Without(strText, r)

SetStrLen == \E len \in 0 .. MaxItems :
    /\ str' = StrWithLen(str, len)
    /\ strText' = [k \in 1 .. len |-> IF k <= Len(strText) THEN strText[k] ELSE 0]

Chomp == str' = chomp(str) /\ strText' = Chomped(strText)

CloneText == \E r \in Ranges(str.len) :     \* substr; all of it is clone
    /\ strText' = SubSeq(strText, r[1] + 1, r[1] + r[2])
    /\ str' = StrOf(SubSeq(str.data, r[1] + 1, r[1] + r[2]))

StrNext == AddText \/ RemoveText \/ SetStrLen \/ Chomp \/ CloneText

BufferSpec ==
    /\ ArrInit /\ StrInit
    /\ [][\/ ArrNext /\ UNCHANGED stringVars
          \/ StrNext /\ UNCHANGED arrayVars]_<<arrayVars, stringVars>>

-----------------------------------------------------------------------------
(* Searching; the results are offsets. *)
FirstOf(S) == IF S = {} THEN NOWHERE ELSE CHOOSE k \in S : \A n \in S : k <= n
LastOf(S) == IF S = {} THEN NOWHERE ELSE CHOOSE k \in S : \A n \in S : n <= k

(* memcmp(_data + at, s, n) == 0 *)
SameAt(s, at, text) == SubSeq(s.data, at + 1, at + Len(text)) = text

HashOf(bytes) ==
    LET hash[k \in 0 .. Len(bytes)] ==
          IF k = 0 THEN 0 ELSE (hash[k - 1] * 3 + bytes[k]) % HashMod
    IN  hash[Len(bytes)]

(* Mutant: the first character of the window is taken off a place too low. *)
Power3Short(n) == HashOf(<<1>> \o Zeros(n - 1))

Power3(n) == HashOf(<<1>> \o Zeros(n))

(* The hash of a window is got from the one before it, by what leaves the  *)
(* window and what enters it; only where it is the pattern's are the two   *)
(* compared.                                                               *)
RabinKarp(s, text, from) ==
    LET n == Len(text)
        end == s.len - n
        byte(k) == IF k < Len(s.data) THEN s.data[k + 1] ELSE Junk
        rollhash[k \in from .. end] ==
          LET rest == IF k = from
                      THEN HashOf([j \in 1 .. n - 1 |-> byte(from + j - 1)])
                      ELSE rollhash[k - 1] - Power3(n - 1) * byte(k - 1)
          IN  (rest * 3 + byte(k + n - 1)) % HashMod
    IN  FirstOf({k \in from .. end : rollhash[k] = HashOf(text) /\ SameAt(s, k, text)})

StrFind(s, text, from) ==
    IF text = <<>> THEN from
    ELSE IF Len(text) > s.len THEN NOWHERE
    ELSE IF Len(text) <= 4
    THEN FirstOf({k \in from .. s.len - Len(text) : SameAt(s, k, text)})
    ELSE RabinKarp(s, text, from)

(* For more than one character the search begins one place too low.        *)
StrRfind(s, text) ==
    IF text = <<>> THEN s.len
    ELSE LastOf({k \in 0 .. s.len - Len(text) - (IF Len(text) = 1 THEN 0 ELSE 1) :
                     SameAt(s, k, text)})

(* split(ch); turn[k] is what it has made of the first k characters: the   *)
(* parts, and where the next one starts.                                   *)
split(s, ch) ==
    LET part(from, to) == StrOf(SubSeq(s.data, from + 1, to))
        turn[k \in 0 .. s.len] ==
          IF k = 0 THEN [parts |-> <<>>, last |-> 0]
          ELSE LET t == turn[k - 1]
               IN  IF s.data[k] # ch THEN t
                   ELSE [parts |-> Append(t.parts, part(t.last, k - 1)), last |-> k]
        end == turn[s.len]
    IN  Append(end.parts, part(end.last, s.len))

StrJoin(parts, text) ==
    LET size[k \in 0 .. Len(parts)] ==
          IF k = 0 THEN (Len(parts) - 1) * Len(text) ELSE size[k - 1] + parts[k].len
        joined[k \in 0 .. Len(parts)] ==
          IF k = 0 THEN NewStr(size[Len(parts)])
          ELSE LET t == joined[k - 1]
               IN  StrAdd(IF k = 1 THEN t ELSE StrAdd(t, text),
                          SubSeq(parts[k].data, 1, parts[k].len))
    IN  IF parts = <<>> THEN NewStr(15) ELSE joined[Len(parts)]

(* After k turns the text before from has been replaced; a turn that finds *)
(* the pattern no more is the last one that does anything.                 *)
replace_count(s, count, pattern, text) ==
    LET turn[k \in 0 .. count] ==
          IF k = 0 THEN [done |-> <<>>, from |-> 0]
          ELSE LET t == turn[k - 1]
                   pos == StrFind(s, pattern, t.from)
               IN  IF pos = NOWHERE THEN t
                   ELSE [done |-> t.done \o SubSeq(s.data, t.from + 1, pos) \o text,
                         from |-> pos + Len(pattern)]
        end == turn[count]
    IN  end.done \o SubSeq(s.data, end.from + 1, s.len)

-----------------------------------------------------------------------------
(* Whatever has been done to it, an array or a string holds the sequence   *)
(* it stands for.  An array keeps no old pointer behind its items.  Behind *)
(* a string is a NUL, unless its memory has just been cut to fit.          *)
BuffersHold ==
    /\ SubSeq(arr.data, 1, arr.len) = arrItems
    /\ \A k \in arr.len + 1 .. _cap(arr) : arr.data[k] = 0
    /\ SubSeq(str.data, 1, str.len) = strText
    /\ \/ str.data[str.len + 1] = 0
       \/ str.data[str.len + 1] = Junk /\ Len(str.data) = str.len + 1

Occurs(text, at) == /\ at + Len(text) <= Len(strText)
                    /\ \A k \in 1 .. Len(text) : strText[at + k] = text[k]

Patterns == Texts({0, 1, 2, 5, 6})

(* From any place, find returns the first one at or behind it, by the      *)
(* rolling hash as by comparing.                                           *)
Finds(text) == \A from \in 0 .. Len(strText) :
    StrFind(str, text, from) = FirstOf({k \in from .. Len(strText) : Occurs(text, k)})

(* rfind returns the last place, though not, if the text looked for is     *)
(* longer than one character, the one at the end of the string.            *)
FindsBack(text) ==
    StrRfind(str, text) =
      LastOf({k \in 0 .. Len(strText) :
                  Occurs(text, k) /\ (Len(text) > 1 => k + Len(text) < Len(strText))})

(* What is split at a character and joined with it is the old string;      *)
(* joined with a text, it is the string with the character replaced.       *)
JoinsAgain(ch, text) ==
    LET joined == StrJoin(split(str, ch), text)
    IN  /\ \A n \in DOMAIN split(str, ch) : ch \notin SeqOps!ToSet(split(str, ch)[n].data)
        /\ text = <<ch>> => SubSeq(joined.data, 1, joined.len) = strText
        /\ SubSeq(joined.data, 1, joined.len) = replace_count(str, str.len, <<ch>>, text)

(* A search by comparing, a split, a join and a replacement agree.         *)
SearchRight ==
    /\ \A text \in Patterns : Finds(text) /\ FindsBack(text)
    /\ \A ch \in Chars, text \in Texts({0, 1, 2}) : JoinsAgain(ch, text)
    /\ \A text \in Patterns \ {<<>>} : replace_count(str, str.len, text, text) = strText
=============================================================================
