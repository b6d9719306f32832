--------------------------- MODULE PagedWalk_proofs ---------------------------
(***************************************************************************)
(* Theorems about PagedWalk, proved for every set of items, every initial  *)
(* list, every limit and every bound.                                      *)
(***************************************************************************)
EXTENDS PagedWalk, SequenceTheorems, FiniteSetTheorems, TLAPS

-----------------------------------------------------------------------------
(* Adding an item at a place of a list that does not hold it keeps a list  *)
(* without repetitions: what UFM may do between two pages.                 *)
LEMMA InsertAtLemma ==
  ASSUME NEW S, NEW s \in Seq(S), IsInjective(s),
         NEW x \in S, x \notin Range(s), NEW i \in 1..(Len(s) + 1)
  PROVE  /\ InsertAt(s, i, x) \in Seq(S)
         /\ Len(InsertAt(s, i, x)) = Len(s) + 1
         /\ \A j \in 1..(Len(s) + 1) : InsertAt(s, i, x)[j] =
              IF j < i THEN s[j] ELSE IF j = i THEN x ELSE s[j - 1]
         /\ Range(InsertAt(s, i, x)) = Range(s) \cup {x}
         /\ IsInjective(InsertAt(s, i, x))
<1> DEFINE l == SubSeq(s, 1, i - 1)
           m == l \o <<x>>
           r == SubSeq(s, i, Len(s))
           t == InsertAt(s, i, x)
<1>1. Len(s) \in Nat /\ DOMAIN s = 1..Len(s) /\ \A j \in 1..Len(s) : s[j] \in S
  BY LenProperties, ElementOfSeq
<1>2. l \in Seq(S) /\ Len(l) = i - 1 /\ \A j \in 1..(i - 1) : l[j] = s[j]
  <2>1. l \in Seq(S) /\ Len(l) = (IF 1 <= i - 1 THEN (i - 1) - 1 + 1 ELSE 0)
        /\ \A j \in 1..((i - 1) - 1 + 1) : l[j] = s[1 + j - 1]
    <3>1. 1 \in Int /\ i - 1 \in Int /\ \A j \in 1..(i - 1) : s[j] \in S  BY <1>1
    <3> HIDE DEF l
    <3> QED  BY <3>1, SubSeqProperties DEF l
  <2> QED  BY <2>1, <1>1
<1>3. r \in Seq(S) /\ Len(r) = Len(s) - i + 1 /\ \A j \in 1..(Len(s) - i + 1) : r[j] = s[i + j - 1]
  <2>1. i \in Int /\ Len(s) \in Int /\ \A j \in i..Len(s) : s[j] \in S  BY <1>1
  <2>2. r \in Seq(S) /\ Len(r) = (IF i <= Len(s) THEN Len(s) - i + 1 ELSE 0)
        /\ \A j \in 1..(Len(s) - i + 1) : r[j] = s[i + j - 1]
    BY <2>1, SubSeqProperties
  <2> QED  BY <2>2, <1>1
<1>4. <<x>> \in Seq(S) /\ Len(<<x>>) = 1 /\ <<x>>[1] = x
  OBVIOUS
<1>5. m \in Seq(S) /\ Len(m) = i
      /\ \A j \in 1..i : m[j] = IF j < i THEN s[j] ELSE x
  <2>1. m \in Seq(S) /\ Len(m) = Len(l) + 1
        /\ \A j \in 1..(Len(l) + 1) : m[j] = IF j <= Len(l) THEN l[j] ELSE <<x>>[j - Len(l)]
    <3> HIDE DEF l
    <3> QED  BY <1>2, <1>4, ConcatProperties
  <2> DEFINE u == <<x>>
  <2>2. \A j \in 1..i : m[j] = IF j <= i - 1 THEN l[j] ELSE u[j - (i - 1)]
    <3> HIDE DEF m, l, u
    <3> QED  BY <2>1, <1>2 DEF u
  <2>3. \A j \in 1..i : j > i - 1 => u[j - (i - 1)] = x
    <3>1. \A j \in 1..i : j > i - 1 => j - (i - 1) = 1  OBVIOUS
    <3> QED  BY <3>1, <1>4
  <2> HIDE DEF m, l, u
  <2> QED  BY <2>1, <2>2, <2>3, <1>2
<1>6. /\ t \in Seq(S) /\ Len(t) = Len(s) + 1
      /\ \A j \in 1..(Len(s) + 1) : t[j] =
           IF j < i THEN s[j] ELSE IF j = i THEN x ELSE s[j - 1]
  <2>1. /\ t \in Seq(S) /\ Len(t) = Len(m) + Len(r)
        /\ \A j \in 1..(Len(m) + Len(r)) : t[j] = IF j <= Len(m) THEN m[j] ELSE r[j - Len(m)]
    <3>1. t = m \o r  BY DEF InsertAt
    <3> HIDE DEF m, r, t
    <3> QED  BY <3>1, <1>3, <1>5, ConcatProperties
  <2> HIDE DEF m, r, t
  <2>2. Len(t) = Len(s) + 1  BY <2>1, <1>1, <1>3, <1>5
  <2>3. ASSUME NEW j \in 1..(Len(s) + 1)
        PROVE  t[j] = IF j < i THEN s[j] ELSE IF j = i THEN x ELSE s[j - 1]
    <3>1. CASE j <= i  BY <3>1, <2>1, <1>1, <1>3, <1>5
    <3>2. CASE j > i
      <4>1. t[j] = r[j - i] /\ j - i \in 1..(Len(s) - i + 1)
        BY <3>2, <2>1, <1>1, <1>3, <1>5
      <4> QED  BY <4>1, <3>2, <1>1, <1>3
    <3> QED  BY <3>1, <3>2, <1>1
  <2> QED  BY <2>1, <2>2, <2>3
<1> HIDE DEF t
<1>7. DOMAIN t = 1..(Len(s) + 1)
  BY <1>6, LenProperties
<1>8. \A j \in 1..Len(s) : s[j] # x
  BY <1>1 DEF Range
<1>9. Range(t) = Range(s) \cup {x}
  <2>1. ASSUME NEW j \in 1..(Len(s) + 1)  PROVE t[j] \in Range(s) \cup {x}
    <3>1. CASE j < i  BY <3>1, <1>1, <1>6 DEF Range
    <3>2. CASE j = i  BY <3>2, <1>1, <1>6
    <3>3. CASE j > i
      <4>1. j - 1 \in 1..Len(s) /\ t[j] = s[j - 1]  BY <3>3, <1>1, <1>6
      <4> QED  BY <4>1, <1>1 DEF Range
    <3> QED  BY <3>1, <3>2, <3>3, <1>1
  <2>2. ASSUME NEW j \in 1..Len(s)  PROVE s[j] \in Range(t)
    <3>1. CASE j < i  BY <3>1, <1>1, <1>6, <1>7 DEF Range
    <3>2. CASE j >= i
      <4>1. j + 1 \in 1..(Len(s) + 1) /\ t[j + 1] = s[j]  BY <3>2, <1>1, <1>6
      <4> QED  BY <4>1, <1>7 DEF Range
    <3> QED  BY <3>1, <3>2, <1>1
  <2>3. x \in Range(t)
    BY <1>1, <1>6, <1>7 DEF Range
  <2> QED  BY <2>1, <2>2, <2>3, <1>1, <1>7 DEF Range
<1>10. IsInjective(t)
  <2> SUFFICES ASSUME NEW a \in 1..(Len(s) + 1), NEW b \in 1..(Len(s) + 1), t[a] = t[b]
               PROVE  a = b
    BY <1>7 DEF IsInjective
  <2>1. \A j, k \in 1..Len(s) : s[j] = s[k] => j = k
    BY <1>1 DEF IsInjective
  <2> QED  BY <2>1, <1>1, <1>6, <1>8
<1> QED  BY <1>6, <1>9, <1>10 DEF t

(* Removing an item from a list without repetitions removes just that item *)
(* and moves the later ones one place to the front: what a cursor that     *)
(* counts places cannot see.                                               *)
LEMMA RemoveAtLemma ==
  ASSUME NEW S, NEW s \in Seq(S), IsInjective(s), NEW i \in 1..Len(s)
  PROVE  /\ RemoveAt(s, i) \in Seq(S)
         /\ Len(RemoveAt(s, i)) = Len(s) - 1
         /\ \A j \in 1..(Len(s) - 1) : RemoveAt(s, i)[j] = IF j < i THEN s[j] ELSE s[j + 1]
         /\ Range(RemoveAt(s, i)) = Range(s) \ {s[i]}
         /\ IsInjective(RemoveAt(s, i))
<1> DEFINE l == SubSeq(s, 1, i - 1)
           r == SubSeq(s, i + 1, Len(s))
           t == RemoveAt(s, i)
<1>1. Len(s) \in Nat /\ DOMAIN s = 1..Len(s) /\ \A j \in 1..Len(s) : s[j] \in S
  BY LenProperties, ElementOfSeq
<1>2. l \in Seq(S) /\ Len(l) = i - 1 /\ \A j \in 1..(i - 1) : l[j] = s[j]
  <2>1. 1 \in Int /\ i - 1 \in Int /\ \A j \in 1..(i - 1) : s[j] \in S  BY <1>1
  <2>2. l \in Seq(S) /\ Len(l) = (IF 1 <= i - 1 THEN (i - 1) - 1 + 1 ELSE 0)
        /\ \A j \in 1..((i - 1) - 1 + 1) : l[j] = s[1 + j - 1]
    <3> HIDE DEF l
    <3> QED  BY <2>1, SubSeqProperties DEF l
  <2> QED  BY <2>2, <1>1
<1>3. r \in Seq(S) /\ Len(r) = Len(s) - i /\ \A j \in 1..(Len(s) - i) : r[j] = s[i + j]
  <2>1. i + 1 \in Int /\ Len(s) \in Int /\ \A j \in (i + 1)..Len(s) : s[j] \in S  BY <1>1
  <2>2. r \in Seq(S) /\ Len(r) = (IF i + 1 <= Len(s) THEN Len(s) - (i + 1) + 1 ELSE 0)
        /\ \A j \in 1..(Len(s) - (i + 1) + 1) : r[j] = s[(i + 1) + j - 1]
    BY <2>1, SubSeqProperties
  <2> HIDE DEF r
  <2>3. Len(r) = Len(s) - i
    <3>1. CASE i + 1 <= Len(s)
      <4>1. Len(r) = Len(s) - (i + 1) + 1  BY <3>1, <2>2
      <4> QED  BY <4>1, <1>1
    <3>2. CASE ~(i + 1 <= Len(s))
      <4>1. Len(r) = 0  BY <3>2, <2>2
      <4>2. Len(s) \in Int /\ i \in Int /\ i <= Len(s)  BY <2>1
      <4>3. i = Len(s)  BY <4>2, <3>2
      <4> QED  BY <4>1, <4>2, <4>3
    <3> QED  BY <3>1, <3>2
  <2>4. ASSUME NEW j \in 1..(Len(s) - i)  PROVE r[j] = s[i + j]
    <3>1. j \in 1..(Len(s) - (i + 1) + 1) /\ (i + 1) + j - 1 = i + j  BY <1>1
    <3> QED  BY <3>1, <2>2
  <2> QED  BY <2>2, <2>3, <2>4
<1>4. /\ t \in Seq(S) /\ Len(t) = Len(s) - 1
      /\ \A j \in 1..(Len(s) - 1) : t[j] = IF j < i THEN s[j] ELSE s[j + 1]
  <2>1. /\ t \in Seq(S) /\ Len(t) = Len(l) + Len(r)
        /\ \A j \in 1..(Len(l) + Len(r)) : t[j] = IF j <= Len(l) THEN l[j] ELSE r[j - Len(l)]
    <3>1. t = l \o r  BY DEF RemoveAt
    <3> HIDE DEF l, r, t
    <3> QED  BY <3>1, <1>2, <1>3, ConcatProperties
  <2> HIDE DEF l, r, t
  <2>2. Len(t) = Len(s) - 1  BY <2>1, <1>1, <1>2, <1>3
  <2>3. ASSUME NEW j \in 1..(Len(s) - 1)
        PROVE  t[j] = IF j < i THEN s[j] ELSE s[j + 1]
    <3>1. CASE j < i
      <4>1. j \in 1..(Len(l) + Len(r)) /\ j <= Len(l) /\ j \in 1..(i - 1)
        BY <3>1, <1>1, <1>2, <1>3
      <4> QED  BY <4>1, <3>1, <2>1, <1>2
    <3>2. CASE j >= i
      <4>1. j \in 1..(Len(l) + Len(r)) /\ ~(j <= Len(l)) /\ Len(l) = i - 1
        BY <3>2, <1>1, <1>2, <1>3
      <4>2. t[j] = r[j - (i - 1)]
        BY <4>1, <2>1
      <4>3. j - (i - 1) \in 1..(Len(s) - i)
        BY <3>2, <1>1
      <4>4. r[j - (i - 1)] = s[i + (j - (i - 1))] /\ i + (j - (i - 1)) = j + 1
        BY <4>3, <1>3
      <4> QED  BY <4>2, <4>4, <3>2
    <3> QED  BY <3>1, <3>2, <1>1
  <2> QED  BY <2>1, <2>2, <2>3
<1> HIDE DEF l, r, t
<1>5. DOMAIN t = 1..(Len(s) - 1)
  BY <1>4, LenProperties
<1>6. \A j, k \in 1..Len(s) : s[j] = s[k] => j = k
  BY <1>1 DEF IsInjective
<1>7. Range(t) = Range(s) \ {s[i]}
  <2>1. ASSUME NEW j \in 1..(Len(s) - 1)  PROVE t[j] \in Range(s) \ {s[i]}
    <3>1. CASE j < i
      <4>1. t[j] = s[j] /\ j \in 1..Len(s)  BY <3>1, <1>1, <1>4
      <4> QED  BY <4>1, <3>1, <1>1, <1>6 DEF Range
    <3>2. CASE j >= i
      <4>1. t[j] = s[j + 1] /\ j + 1 \in 1..Len(s)  BY <3>2, <1>1, <1>4
      <4>2. j + 1 # i  BY <3>2, <1>1
      <4> QED  BY <4>1, <4>2, <1>1, <1>6 DEF Range
    <3> QED  BY <3>1, <3>2, <1>1
  <2>2. ASSUME NEW j \in 1..Len(s), s[j] # s[i]  PROVE s[j] \in Range(t)
    <3>1. CASE j < i
      <4>1. j \in 1..(Len(s) - 1) /\ t[j] = s[j]  BY <3>1, <1>1, <1>4
      <4> QED  BY <4>1, <1>5 DEF Range
    <3>2. CASE j > i
      <4>1. j - 1 \in 1..(Len(s) - 1) /\ t[j - 1] = s[j]  BY <3>2, <1>1, <1>4
      <4> QED  BY <4>1, <1>5 DEF Range
    <3> QED  BY <2>2, <3>1, <3>2, <1>1
  <2> QED  BY <2>1, <2>2, <1>1, <1>5 DEF Range
<1>8. IsInjective(t)
  <2> SUFFICES ASSUME NEW a \in 1..(Len(s) - 1), NEW b \in 1..(Len(s) - 1), t[a] = t[b]
               PROVE  a = b
    BY <1>5 DEF IsInjective
  <2> DEFINE pos(j) == IF j < i THEN j ELSE j + 1
  <2>1. pos(a) \in 1..Len(s) /\ pos(b) \in 1..Len(s) /\ t[a] = s[pos(a)] /\ t[b] = s[pos(b)]
    BY <1>1, <1>4
  <2>2. pos(a) = pos(b)  BY <2>1, <1>6
  <2> QED  BY <2>2, <1>1
<1> QED  BY <1>4, <1>7, <1>8 DEF t

(* The items of a list are finitely many.                                  *)
LEMMA RangeFinite ==
  ASSUME NEW S, NEW s \in Seq(S)
  PROVE  IsFiniteSet(Range(s)) /\ Range(s) \subseteq S
<1>1. s \in [1..Len(s) -> S] /\ DOMAIN s = 1..Len(s) /\ Len(s) \in Nat
  BY LenProperties
<1>2. s \in Surjection(1..Len(s), Range(s))
  BY <1>1 DEF Surjection, Range
<1>3. IsFiniteSet(1..Len(s))
  BY <1>1, FS_Interval
<1> QED  BY <1>1, <1>2, <1>3, FS_Surjection DEF Range

-----------------------------------------------------------------------------
(* resolveLimit yields a page size from 1 to MaxLimit, whatever the client *)
(* sends: every page of a list that goes on has at least one item.         *)
LEMMA LimitLemma ==
  ASSUME NEW l \in OptionalInt
  PROVE  resolveLimit(l) \in 1..MaxLimit
BY LimitsAssumption DEF resolveLimit, OptionalInt

(* A cursor the server handed out decodes to the offset it was made from,  *)
(* and any cursor at all decodes to a natural number.                      *)
LEMMA CursorLemma ==
  /\ \A c \in Cursor : decodeCursor(c) \in Nat
  /\ \A n \in Nat : /\ encodeCursor(n) \in Cursor
                    /\ encodeCursor(n) # NoCursor
                    /\ decodeCursor(encodeCursor(n)) = n
  /\ NoCursor \in Cursor /\ decodeCursor(NoCursor) = 0
BY DEF Cursor, NoCursor, encodeCursor, decodeCursor

(* What a page holds: nothing and no next cursor from the end of the list  *)
(* on; otherwise at least the item at the offset, up to a place where the  *)
(* next page begins, or the end.                                           *)
LEMMA PageLemma ==
  ASSUME NEW S, NEW items \in Seq(S), NEW c \in Cursor, NEW l \in OptionalInt
  PROVE  LET page   == PageOf(items, c, l)
             offset == decodeCursor(c)
         IN /\ offset \in Nat /\ Len(items) \in Nat
            /\ page.items \in Seq(S) /\ page.next \in Cursor
            /\ offset >= Len(items) => page.items = << >> /\ page.next = NoCursor
            /\ offset < Len(items) =>
                 \E end \in (offset + 1)..Len(items) :
                   /\ page.items = SubSeq(items, offset + 1, end)
                   /\ page.next = IF end < Len(items) THEN encodeCursor(end) ELSE NoCursor
<1> DEFINE page   == PageOf(items, c, l)
           offset == decodeCursor(c)
           lim    == resolveLimit(l)
           total  == Len(items)
           end    == IF offset + lim > total THEN total ELSE offset + lim
<1>1. offset \in Nat /\ lim \in Nat /\ lim >= 1 /\ total \in Nat
  BY CursorLemma, LimitLemma, LimitsAssumption, LenProperties
<1>2. page = IF offset >= total
             THEN [items |-> << >>, total |-> total, next |-> NoCursor]
             ELSE [items |-> SubSeq(items, offset + 1, end), total |-> total,
                   next |-> IF end < total THEN encodeCursor(end) ELSE NoCursor]
  BY Zenon DEF PageOf, paginate
<1> HIDE DEF offset, lim, page
<1>3. CASE offset >= total
  <2>1. page.items = << >> /\ page.next = NoCursor  BY <1>2, <1>3
  <2>2. << >> \in Seq(S)  BY EmptySeq
  <2> QED  BY <2>1, <2>2, <1>1, <1>3, CursorLemma DEF page, offset
<1>4. CASE ~(offset >= total)
  <2>1. page.items = SubSeq(items, offset + 1, end)
        /\ page.next = IF end < total THEN encodeCursor(end) ELSE NoCursor
    BY <1>2, <1>4
  <2>2. end \in (offset + 1)..total  BY <1>1, <1>4
  <2>3. \A i \in (offset + 1)..end : items[i] \in S
    BY <2>2, <1>1, ElementOfSeq
  <2> HIDE DEF end
  <2>4. page.items \in Seq(S)
    BY <2>1, <2>2, <2>3, <1>1, SubSeqProperties
  <2>5. page.next \in Cursor
    BY <2>1, <2>2, <1>1, CursorLemma
  <2> QED  BY <2>1, <2>2, <2>4, <2>5, <1>1, <1>4 DEF page, offset
<1> QED  BY <1>3, <1>4

-----------------------------------------------------------------------------
(* Type correctness is inductive by itself.                                *)
LEMMA TypeInit == Init => TypeOK
<1> SUFFICES ASSUME Init PROVE TypeOK
  OBVIOUS
<1>1. list \in Seq(Items) /\ IsInjective(list)
  BY WalkAssumption DEF Init
<1>2. copy \in Seq(Items) /\ collected \in Seq(Items) /\ IsInjective(copy)
  BY EmptySeq DEF Init, IsInjective
<1>3. limit \in OptionalInt
  BY DEF Init, Omitted, OptionalInt
<1>4. cursor \in Cursor
  BY WalkAssumption DEF Init
<1> QED  BY <1>1, <1>2, <1>3, <1>4 DEF Init, TypeOK

LEMMA OffsetInit == Init => Offset = 0
BY WalkAssumption DEF Init, Offset, decodeCursor, Cursor

LEMMA TypeStep == TypeOK /\ [Next]_vars => TypeOK'
<1> SUFFICES ASSUME TypeOK, [Next]_vars PROVE TypeOK'
  OBVIOUS
<1> USE DEF TypeOK
<1>0. << >> \in Seq(Items) /\ IsInjective(<< >>) /\ Omitted \in OptionalInt
  BY EmptySeq DEF IsInjective, Omitted, OptionalInt
<1>1. CASE Ask
  BY <1>1, WalkAssumption DEF Ask
<1>2. CASE Fetch
  <2>1. copy' \in Seq(Items) /\ IsInjective(copy')
    <3>1. CASE FromMap
      <4> DEFINE n == Cardinality(Range(list))
      <4>1. Range(list) \subseteq Items /\ n \in Nat
        BY RangeFinite, FS_CardinalityType
      <4>2. copy' \in [1..n -> Range(list)] /\ \A i, j \in 1..n : i # j => copy'[i] # copy'[j]
        BY <1>2, <3>1 DEF Fetch, Obtained, SetToSeqs
      <4> HIDE DEF n
      <4>3. copy' \in [1..n -> Items]  BY <4>1, <4>2
      <4> QED  BY <4>1, <4>2, <4>3 DEF IsInjective
    <3>2. CASE ~FromMap
      BY <1>2, <3>2 DEF Fetch, Obtained
    <3> QED  BY <3>1, <3>2
  <2> QED  BY <2>1, <1>2 DEF Fetch
<1>3. CASE Answer
  <2>1. PageOf(copy, cursor, limit).items \in Seq(Items)
        /\ PageOf(copy, cursor, limit).next \in Cursor
    BY PageLemma
  <2>2. collected' \in Seq(Items)
    BY <2>1, <1>3, ConcatProperties DEF Answer
  <2> QED  BY <1>0, <1>3, <2>1, <2>2 DEF Answer
<1>4. CASE Fail
  BY <1>0, <1>4 DEF Fail
<1>5. CASE Insert
  <2>1. PICK x \in Items \ Range(list), i \in 1..(Len(list) + 1) : list' = InsertAt(list, i, x)
    BY <1>5 DEF Insert
  <2>2. list' \in Seq(Items) /\ IsInjective(list') /\ Range(list') = Range(list) \cup {x}
    BY <2>1, InsertAtLemma
  <2> QED  BY <2>2, <1>5 DEF Insert
<1>6. CASE Delete
  <2>1. PICK i \in 1..Len(list) : list' = RemoveAt(list, i) /\ lasting' = lasting \ {list[i]}
    BY <1>6 DEF Delete
  <2>2. list' \in Seq(Items) /\ IsInjective(list') /\ Range(list') = Range(list) \ {list[i]}
    BY <2>1, RemoveAtLemma
  <2> QED  BY <2>1, <2>2, <1>6 DEF Delete
<1>7. CASE UNCHANGED vars
  BY <1>7 DEF vars
<1> QED  BY <1>1, <1>2, <1>3, <1>4, <1>5, <1>6, <1>7 DEF Next, Serve

(* Every reachable state is of the type TypeOK states; in particular no    *)
(* listing and no copy of one ever holds an item twice, and the lasting    *)
(* items are always listed.                                                *)
THEOREM TypeCorrect == Spec => []TypeOK
BY TypeInit, TypeStep, PTL DEF Spec

-----------------------------------------------------------------------------
(***************************************************************************)
(* UnchangedListIsReadExactly.  It says nothing of the copy in flight, so  *)
(* it is not inductive; UnchangedInv adds that a fetched copy is the list  *)
(* and that the cursor never points beyond its end.                        *)
(***************************************************************************)
Unchanged == insertions = 0 /\ removals = 0

UnchangedInv ==
  Unchanged =>
    /\ pc # "done" => Offset \in 0..Len(list) /\ collected = SubSeq(list, 1, Offset)
    /\ pc = "fetched" => copy = list
    /\ pc = "done" => collected = list

LEMMA UnchangedInit == Init => UnchangedInv
<1> SUFFICES ASSUME Init PROVE UnchangedInv
  OBVIOUS
<1>1. list \in Seq(Items) /\ Len(list) \in Nat
  BY WalkAssumption, LenProperties DEF Init
<1>2. SubSeq(list, 1, 0) = << >>
  BY SubSeqEmpty
<1> QED  BY <1>1, <1>2, OffsetInit DEF Init, UnchangedInv

LEMMA UnchangedStep ==
  ASSUME ~FromMap, TypeOK, UnchangedInv, [Next]_vars
  PROVE  UnchangedInv'
<1> SUFFICES ASSUME Unchanged' PROVE UnchangedInv'
  BY DEF UnchangedInv
<1> USE DEF Unchanged
<1>0. list \in Seq(Items) /\ Len(list) \in Nat
  BY LenProperties DEF TypeOK
<1>1. CASE Ask
  BY <1>1 DEF Ask, UnchangedInv, Offset
<1>2. CASE Fetch
  BY <1>2 DEF Fetch, Obtained, UnchangedInv, Offset
<1>3. CASE Answer
  <2> DEFINE page == PageOf(list, cursor, limit)
  <2>1. Unchanged /\ copy = list /\ Offset \in 0..Len(list) /\ collected = SubSeq(list, 1, Offset)
    BY <1>3 DEF Answer, UnchangedInv
  <2>2. /\ collected' = collected \o page.items /\ cursor' = page.next /\ list' = list
        /\ pc' = IF page.next = NoCursor THEN "done" ELSE "ready"
    BY <1>3, <2>1 DEF Answer
  <2>3. /\ Offset >= Len(list) => page.items = << >> /\ page.next = NoCursor
        /\ Offset < Len(list) =>
                 \E end \in (Offset + 1)..Len(list) :
                   /\ page.items = SubSeq(list, Offset + 1, end)
                   /\ page.next = IF end < Len(list) THEN encodeCursor(end) ELSE NoCursor
    BY <1>0, PageLemma DEF TypeOK, Offset
  <2> HIDE DEF page
  <2>4. CASE Offset >= Len(list)
    <3>1. collected = list  BY <2>1, <2>4, <1>0, SubSeqFull
    <3>2. collected' = list /\ pc' = "done"
      BY <2>2, <2>3, <2>4, <3>1, <1>0, ConcatEmptySeq
    <3> QED  BY <3>2, <2>2 DEF UnchangedInv
  <2>5. CASE Offset < Len(list)
    <3>1. PICK end \in (Offset + 1)..Len(list) :
                   /\ page.items = SubSeq(list, Offset + 1, end)
                   /\ page.next = IF end < Len(list) THEN encodeCursor(end) ELSE NoCursor
      BY <2>3, <2>5
    <3>2. collected' = SubSeq(list, 1, end)
      <4>1. 1 \in 1..(Len(list) + 1) /\ Offset \in (1 - 1)..Len(list) /\ end \in Offset..Len(list)
        BY <1>0, <2>1, <3>1
      <4>2. SubSeq(list, 1, Offset) \o SubSeq(list, Offset + 1, end) = SubSeq(list, 1, end)
        BY <1>0, <4>1, ConcatAdjacentSubSeq
      <4> QED  BY <2>1, <2>2, <3>1, <4>2
    <3>3. CASE end < Len(list)
      <4>1. end \in Nat /\ pc' = "ready" /\ Offset' = end
        BY <2>1, <2>2, <3>1, <3>3, <1>0, CursorLemma DEF Offset
      <4> QED  BY <4>1, <3>2, <3>3, <2>2, <1>0 DEF UnchangedInv
    <3>4. CASE end = Len(list)
      <4>1. pc' = "done" /\ collected' = list
        <5>1. page.next = NoCursor  BY <3>1, <3>4, <1>0
        <5>2. SubSeq(list, 1, end) = list  BY <3>4, <1>0, SubSeqFull
        <5> QED  BY <5>1, <5>2, <2>2, <3>2
      <4> QED  BY <4>1, <2>2 DEF UnchangedInv
    <3> QED  BY <3>1, <3>3, <3>4, <1>0
  <2> QED  BY <2>1, <2>4, <2>5, <1>0
<1>4. CASE Fail
  BY <1>4 DEF Fail, UnchangedInv, Offset
<1>5. CASE Insert
  BY <1>5 DEF Insert, TypeOK
<1>6. CASE Delete
  BY <1>6 DEF Delete, TypeOK
<1>7. CASE UNCHANGED vars
  BY <1>7 DEF vars, UnchangedInv, Offset
<1> QED  BY <1>1, <1>2, <1>3, <1>4, <1>5, <1>6, <1>7 DEF Next, Serve

(* With the list endpoint, a client that walks a list nobody changes has   *)
(* at any time read exactly its beginning, and in the end all of it,       *)
(* whatever limits it sends and however many requests fail.                *)
THEOREM UnchangedListCorrect ==
  ASSUME ~FromMap
  PROVE  Spec => []UnchangedListIsReadExactly
<1>1. Init => TypeOK /\ UnchangedInv
  BY TypeInit, UnchangedInit
<1>2. TypeOK /\ UnchangedInv /\ [Next]_vars => (TypeOK /\ UnchangedInv)'
  BY TypeStep, UnchangedStep
<1>3. TypeOK /\ UnchangedInv => UnchangedListIsReadExactly
  BY DEF UnchangedInv, Unchanged, UnchangedListIsReadExactly
<1> QED  BY <1>1, <1>2, <1>3, PTL DEF Spec

-----------------------------------------------------------------------------
(***************************************************************************)
(* MissesBoundedByRemovals and RepeatsBoundedByInsertions.  An item is     *)
(* behind a place of the list when it stands at or before it and has not   *)
(* been received, and ahead of it when it stands after it and has been:    *)
(* what will be missed, and what will be received again, if the walk goes  *)
(* on from there.  At most one item per removal is ever behind, at most    *)
(* one per insertion received again or ahead.  While an answer is on its   *)
(* way both must hold for the place where it will leave the client, too,   *)
(* since it may also be lost.                                              *)
(***************************************************************************)
Behind(l, live, place, seen) ==
  {x \in live \ seen : \E i \in 1..Len(l) : i <= place /\ l[i] = x}

Ahead(l, place, seen) ==
  {x \in seen : \E i \in 1..Len(l) : i > place /\ l[i] = x}

Page == PageOf(copy, cursor, limit)

SeenAfter == Range(collected) \cup Range(Page.items)

MissedInv ==
  /\ pc # "done" => Cardinality(Behind(list, lasting, Offset, Range(collected))) <= removals
  /\ pc = "fetched" =>
       IF Page.next = NoCursor
       THEN Cardinality(lasting \ SeenAfter) <= removals
       ELSE Cardinality(Behind(list, lasting, decodeCursor(Page.next), SeenAfter)) <= removals
  /\ pc = "done" => Cardinality(Missed) <= removals

(* What is behind a place after an insertion was behind it before.         *)
LEMMA BehindInsert ==
  ASSUME NEW S, NEW l \in Seq(S), IsInjective(l), NEW live \in SUBSET Range(l),
         NEW x \in S, x \notin Range(l), NEW k \in 1..(Len(l) + 1),
         NEW place \in Nat, NEW seen
  PROVE  Behind(InsertAt(l, k, x), live, place, seen) \subseteq Behind(l, live, place, seen)
<1> DEFINE t == InsertAt(l, k, x)
<1>1. Len(t) = Len(l) + 1 /\ Len(l) \in Nat
  BY InsertAtLemma, LenProperties
<1>2. \A i \in 1..(Len(l) + 1) : t[i] = IF i < k THEN l[i] ELSE IF i = k THEN x ELSE l[i - 1]
  BY InsertAtLemma
<1> HIDE DEF t
<1> SUFFICES ASSUME NEW y \in live \ seen, NEW i \in 1..Len(t), i <= place, t[i] = y
             PROVE  \E j \in 1..Len(l) : j <= place /\ l[j] = y
  BY DEF Behind, t
<1>3. y # x
  OBVIOUS
<1>4. CASE i < k
  <2>1. i \in 1..Len(l) /\ l[i] = y  BY <1>1, <1>2, <1>4
  <2> QED  BY <2>1
<1>5. CASE i > k
  <2>1. i - 1 \in 1..Len(l) /\ i - 1 <= place /\ l[i - 1] = y  BY <1>1, <1>2, <1>5
  <2> QED  BY <2>1
<1> QED  BY <1>1, <1>2, <1>3, <1>4, <1>5

(* After a removal at most the item that stood right after the place is    *)
(* newly behind it.                                                        *)
LEMMA BehindDelete ==
  ASSUME NEW S, NEW l \in Seq(S), IsInjective(l), NEW live,
         NEW k \in 1..Len(l), NEW place \in Nat, NEW seen
  PROVE  Behind(RemoveAt(l, k), live \ {l[k]}, place, seen)
           \subseteq Behind(l, live, place, seen) \cup {l[place + 1]}
<1> DEFINE t == RemoveAt(l, k)
<1>1. Len(t) = Len(l) - 1 /\ Len(l) \in Nat
  BY RemoveAtLemma, LenProperties
<1>2. \A i \in 1..(Len(l) - 1) : t[i] = IF i < k THEN l[i] ELSE l[i + 1]
  BY RemoveAtLemma
<1> HIDE DEF t
<1> SUFFICES ASSUME NEW y \in live \ seen, NEW i \in 1..Len(t), i <= place, t[i] = y,
                    y # l[place + 1]
             PROVE  \E j \in 1..Len(l) : j <= place /\ l[j] = y
  BY DEF Behind, t
<1>3. CASE i < k
  <2>1. i \in 1..Len(l) /\ l[i] = y  BY <1>1, <1>2, <1>3
  <2> QED  BY <2>1
<1>4. CASE i >= k
  <2>1. i + 1 \in 1..Len(l) /\ l[i + 1] = y  BY <1>1, <1>2, <1>4
  <2>2. i + 1 # place + 1  BY <2>1
  <2>3. i + 1 <= place  BY <2>2, <1>1
  <2> QED  BY <2>1, <2>3
<1> QED  BY <1>1, <1>3, <1>4

(* One more element makes a finite set larger by at most one.              *)
LEMMA OneMore ==
  ASSUME NEW S, IsFiniteSet(S), NEW x, NEW T, T \subseteq S \cup {x}, NEW n \in Nat,
         Cardinality(S) <= n
  PROVE  Cardinality(T) <= n + 1
<1>1. IsFiniteSet(S \cup {x}) /\ Cardinality(S \cup {x}) <= Cardinality(S) + 1
      /\ Cardinality(S) \in Nat
  <2>1. Cardinality(S) \in Nat  BY FS_CardinalityType
  <2>2. IsFiniteSet(S \cup {x})
        /\ Cardinality(S \cup {x}) = IF x \in S THEN Cardinality(S) ELSE Cardinality(S) + 1
    BY FS_AddElement
  <2> QED  BY <2>1, <2>2
<1>2. IsFiniteSet(T) /\ Cardinality(T) <= Cardinality(S \cup {x})
  BY <1>1, FS_Subset
<1>3. Cardinality(T) \in Nat /\ Cardinality(S \cup {x}) \in Nat
  BY <1>1, <1>2, FS_CardinalityType
<1> QED  BY <1>1, <1>2, <1>3

LEMMA Fewer ==
  ASSUME NEW S, IsFiniteSet(S), NEW T, T \subseteq S, NEW n \in Nat, Cardinality(S) <= n
  PROVE  Cardinality(T) <= n
<1>1. IsFiniteSet(T) /\ Cardinality(T) <= Cardinality(S)
  BY FS_Subset
<1>2. Cardinality(T) \in Nat /\ Cardinality(S) \in Nat
  BY <1>1, FS_CardinalityType
<1> QED  BY <1>1, <1>2

LEMMA BehindFinite ==
  ASSUME NEW S, NEW l \in Seq(S), NEW live \in SUBSET Range(l), NEW place, NEW seen
  PROVE  /\ IsFiniteSet(live) /\ IsFiniteSet(live \ seen)
         /\ IsFiniteSet(Behind(l, live, place, seen))
         /\ Behind(l, live, place, seen) \subseteq live \ seen
<1>1. IsFiniteSet(live)
  BY RangeFinite, FS_Subset
<1>2. IsFiniteSet(live \ seen)
  BY <1>1, FS_Subset
<1>3. Behind(l, live, place, seen) \subseteq live \ seen
  BY DEF Behind
<1> QED  BY <1>1, <1>2, <1>3, FS_Subset

LEMMA MissedInit == Init => MissedInv
<1> SUFFICES ASSUME Init PROVE MissedInv
  OBVIOUS
<1>1. Behind(list, lasting, Offset, Range(collected)) = {}
  <2>1. Offset = 0  BY OffsetInit
  <2> QED  BY <2>1 DEF Behind
<1>2. Cardinality(Behind(list, lasting, Offset, Range(collected))) <= removals
  <2>1. Cardinality({}) = 0 /\ removals = 0  BY FS_EmptySet DEF Init
  <2> QED  BY <1>1, <2>1
<1>3. pc = "ready"
  BY DEF Init
<1> QED  BY <1>2, <1>3 DEF MissedInv

(* What the page just fetched leaves behind was already behind: the page   *)
(* begins where the items received so far end, and leaves no gap.          *)
LEMMA FetchLeavesNoneBehind ==
  ASSUME TypeOK
  PROVE  LET page == PageOf(list, cursor, limit)
             seen == Range(collected) \cup Range(page.items)
             here == Behind(list, lasting, Offset, Range(collected))
         IN IF page.next = NoCursor
            THEN lasting \ seen \subseteq here
            ELSE Behind(list, lasting, decodeCursor(page.next), seen) \subseteq here
<1> DEFINE page == PageOf(list, cursor, limit)
           seen == Range(collected) \cup Range(page.items)
           here == Behind(list, lasting, Offset, Range(collected))
<1>1. list \in Seq(Items) /\ Len(list) \in Nat /\ DOMAIN list = 1..Len(list)
      /\ lasting \subseteq Range(list)
  BY LenProperties DEF TypeOK
<1>2. /\ Offset \in Nat
      /\ Offset >= Len(list) => page.items = << >> /\ page.next = NoCursor
      /\ Offset < Len(list) =>
               \E end \in (Offset + 1)..Len(list) :
                 /\ page.items = SubSeq(list, Offset + 1, end)
                 /\ page.next = IF end < Len(list) THEN encodeCursor(end) ELSE NoCursor
  BY <1>1, PageLemma DEF TypeOK, Offset
<1> HIDE DEF page
<1>3. CASE Offset >= Len(list)
  <2>1. \A x \in lasting : \E i \in 1..Len(list) : i <= Offset /\ list[i] = x
    BY <1>1, <1>2, <1>3 DEF Range
  <2>2. lasting \ seen \subseteq here
    BY <2>1 DEF Behind
  <2> QED  BY <1>2, <1>3, <2>2 DEF page
<1>4. CASE Offset < Len(list)
  <2>1. PICK end \in (Offset + 1)..Len(list) :
                 /\ page.items = SubSeq(list, Offset + 1, end)
                 /\ page.next = IF end < Len(list) THEN encodeCursor(end) ELSE NoCursor
    BY <1>2, <1>4
  <2>2. \A i \in (Offset + 1)..end : list[i] \in Range(page.items)
    <3> TAKE i \in (Offset + 1)..end
    <3>1. \A j \in (Offset + 1)..end : list[j] \in Items
      BY <1>1, <1>2, <2>1, ElementOfSeq
    <3>2. /\ page.items \in Seq(Items)
          /\ Len(page.items) = end - Offset
          /\ \A j \in 1..(end - Offset) : page.items[j] = list[Offset + j]
      <4>1. Offset + 1 \in Int /\ end \in Int /\ Offset + 1 <= end  BY <1>2, <2>1
      <4>2. /\ SubSeq(list, Offset + 1, end) \in Seq(Items)
            /\ Len(SubSeq(list, Offset + 1, end)) = end - (Offset + 1) + 1
            /\ \A j \in 1..(end - (Offset + 1) + 1) :
                 SubSeq(list, Offset + 1, end)[j] = list[(Offset + 1) + j - 1]
        BY <3>1, <4>1, SubSeqProperties
      <4>3. end - (Offset + 1) + 1 = end - Offset  BY <1>2, <4>1
      <4>4. \A j \in 1..(end - Offset) : (Offset + 1) + j - 1 = Offset + j  BY <1>2, <4>1
      <4> QED  BY <2>1, <4>2, <4>3, <4>4
    <3>3. i - Offset \in 1..(end - Offset) /\ Offset + (i - Offset) = i
      BY <1>2, <2>1
    <3>4. DOMAIN page.items = 1..(end - Offset)
      BY <3>2, LenProperties
    <3> QED  BY <3>2, <3>3, <3>4 DEF Range
  <2>3. Behind(list, lasting, end, seen) \subseteq here
    <3> SUFFICES ASSUME NEW x \in lasting \ seen, NEW i \in 1..Len(list), i <= end, list[i] = x
                 PROVE  i <= Offset
      BY DEF Behind
    <3>1. ~(i \in (Offset + 1)..end)  BY <2>2
    <3> QED  BY <3>1, <1>2, <2>1
  <2>4. CASE end < Len(list)
    <3>1. page.next # NoCursor /\ decodeCursor(page.next) = end
      BY <2>1, <2>4, <1>2, CursorLemma
    <3> QED  BY <3>1, <2>3 DEF page
  <2>5. CASE ~(end < Len(list))
    <3>1. page.next = NoCursor /\ end = Len(list)
      <4>1. page.next = NoCursor  BY <2>1, <2>5
      <4>2. end \in Int /\ Len(list) \in Int /\ end <= Len(list)  BY <1>1, <1>2, <2>1
      <4> QED  BY <4>1, <4>2, <2>5
    <3>2. lasting \ seen \subseteq Behind(list, lasting, end, seen)
      <4> SUFFICES ASSUME NEW x \in lasting
                   PROVE  \E i \in 1..Len(list) : i <= end /\ list[i] = x
        BY DEF Behind
      <4> QED  BY <3>1, <1>1 DEF Range
    <3> QED  BY <3>1, <3>2, <2>3 DEF page
  <2> QED  BY <2>4, <2>5
<1>5. Offset >= Len(list) \/ Offset < Len(list)
  BY <1>1, <1>2
<1> QED  BY <1>3, <1>4, <1>5 DEF page

LEMMA MissedStep ==
  ASSUME ~FromMap, TypeOK, MissedInv, [Next]_vars
  PROVE  MissedInv'
<1> DEFINE seen == Range(collected)
           here == Behind(list, lasting, Offset, seen)
           next == decodeCursor(Page.next)
           there == Behind(list, lasting, next, SeenAfter)
<1>0. /\ list \in Seq(Items) /\ IsInjective(list) /\ lasting \subseteq Range(list)
      /\ removals \in Nat /\ Offset \in Nat /\ next \in Nat
      /\ Page.items \in Seq(Items) /\ collected \in Seq(Items)
  BY PageLemma, CursorLemma DEF TypeOK, Page, Offset
<1>1. IsFiniteSet(here) /\ IsFiniteSet(there) /\ IsFiniteSet(lasting \ seen)
      /\ IsFiniteSet(lasting \ SeenAfter)
  <2>1. IsFiniteSet(here) /\ IsFiniteSet(lasting \ seen)  BY <1>0, BehindFinite
  <2>2. IsFiniteSet(there) /\ IsFiniteSet(lasting \ SeenAfter)
    <3> HIDE DEF next
    <3> QED  BY <1>0, BehindFinite
  <2> QED  BY <2>1, <2>2
<1>2. CASE Ask
  BY <1>2 DEF Ask, MissedInv, Offset
<1>3. CASE Fetch
  <2>1. copy' = list /\ pc = "asked" /\ pc' = "fetched"
        /\ UNCHANGED <<list, limit, cursor, collected, lasting, removals>>
    BY <1>3 DEF Fetch, Obtained
  <2> DEFINE page == PageOf(list, cursor, limit)
             after == seen \cup Range(page.items)
  <2>2. Page' = page /\ SeenAfter' = after
    BY <2>1 DEF Page, SeenAfter
  <2>3. Cardinality(here) <= removals
    BY <2>1 DEF MissedInv
  <2>4. IF page.next = NoCursor THEN lasting \ after \subseteq here
        ELSE Behind(list, lasting, decodeCursor(page.next), after) \subseteq here
    BY FetchLeavesNoneBehind
  <2>5. IF page.next = NoCursor
        THEN Cardinality(lasting \ after) <= removals
        ELSE Cardinality(Behind(list, lasting, decodeCursor(page.next), after)) <= removals
    BY <2>3, <2>4, <1>0, <1>1, Fewer
  <2>6. Offset' = Offset
    BY <2>1 DEF Offset
  <2> HIDE DEF page, after
  <2> QED  BY <2>1, <2>2, <2>3, <2>5, <2>6 DEF MissedInv
<1>4. CASE Answer
  <2>1. /\ pc = "fetched" /\ collected' = collected \o Page.items /\ cursor' = Page.next
        /\ pc' = IF Page.next = NoCursor THEN "done" ELSE "ready"
        /\ UNCHANGED <<list, lasting, removals>>
    BY <1>4 DEF Answer, Page
  <2>2. Range(collected') = SeenAfter
    BY <1>0, <2>1, RangeConcatenation DEF SeenAfter
  <2>3. CASE Page.next = NoCursor
    <3>1. Missed' = lasting \ SeenAfter /\ pc' = "done"
      BY <2>1, <2>2, <2>3 DEF Missed
    <3>2. Cardinality(lasting \ SeenAfter) <= removals
      BY <2>1, <2>3 DEF MissedInv
    <3> QED  BY <2>1, <3>1, <3>2 DEF MissedInv
  <2>4. CASE Page.next # NoCursor
    <3>1. Cardinality(there) <= removals
      BY <2>1, <2>4 DEF MissedInv
    <3>2. pc' = "ready" /\ Offset' = next
      BY <2>1, <2>4 DEF Offset
    <3> QED  BY <2>1, <2>2, <3>1, <3>2 DEF MissedInv
  <2> QED  BY <2>3, <2>4
<1>5. CASE Fail
  <2>1. pc \in {"asked", "fetched"} /\ pc' = "ready"
        /\ UNCHANGED <<list, lasting, removals, collected, cursor>>
    BY <1>5 DEF Fail
  <2> QED  BY <2>1 DEF MissedInv, Offset
<1>6. CASE Insert
  <2>1. PICK x \in Items \ Range(list), k \in 1..(Len(list) + 1) : list' = InsertAt(list, k, x)
    BY <1>6 DEF Insert
  <2>2. UNCHANGED <<copy, pc, limit, cursor, collected, lasting, removals>>
    BY <1>6 DEF Insert
  <2>3. /\ Behind(list', lasting, Offset, seen) \subseteq here
        /\ Behind(list', lasting, next, SeenAfter) \subseteq there
    BY <1>0, <2>1, BehindInsert
  <2>4. /\ pc # "done" => Cardinality(Behind(list', lasting, Offset, seen)) <= removals
        /\ pc = "fetched" /\ Page.next # NoCursor =>
             Cardinality(Behind(list', lasting, next, SeenAfter)) <= removals
    BY <2>3, <1>0, <1>1, Fewer DEF MissedInv
  <2>5. Offset' = Offset /\ Page' = Page /\ SeenAfter' = SeenAfter /\ Missed' = Missed
    BY <2>2 DEF Offset, Page, SeenAfter, Missed
  <2> QED  BY <2>2, <2>4, <2>5 DEF MissedInv
<1>7. CASE Delete
  <2>1. PICK k \in 1..Len(list) : list' = RemoveAt(list, k) /\ lasting' = lasting \ {list[k]}
    BY <1>7 DEF Delete
  <2>2. removals' = removals + 1 /\ UNCHANGED <<copy, pc, limit, cursor, collected>>
    BY <1>7 DEF Delete
  <2>3. /\ Behind(list', lasting', Offset, seen) \subseteq here \cup {list[Offset + 1]}
        /\ Behind(list', lasting', next, SeenAfter) \subseteq there \cup {list[next + 1]}
    BY <1>0, <2>1, BehindDelete
  <2>4. /\ pc # "done" =>
             Cardinality(Behind(list', lasting', Offset, seen)) <= removals + 1
        /\ pc = "fetched" /\ Page.next # NoCursor =>
             Cardinality(Behind(list', lasting', next, SeenAfter)) <= removals + 1
    BY <2>3, <1>0, <1>1, OneMore DEF MissedInv
  <2>5. lasting' \ SeenAfter \subseteq lasting \ SeenAfter /\ lasting' \ seen \subseteq lasting \ seen
    BY <2>1
  <2>6. /\ pc = "fetched" /\ Page.next = NoCursor =>
             Cardinality(lasting' \ SeenAfter) <= removals + 1
        /\ pc = "done" => Cardinality(lasting' \ seen) <= removals + 1
    BY <2>5, <1>0, <1>1, OneMore DEF MissedInv, Missed
  <2>7. Offset' = Offset /\ Page' = Page /\ SeenAfter' = SeenAfter
        /\ Missed' = lasting' \ seen
    BY <2>2 DEF Offset, Page, SeenAfter, Missed
  <2> QED  BY <2>2, <2>4, <2>6, <2>7 DEF MissedInv
<1>8. CASE UNCHANGED vars
  BY <1>8 DEF vars, MissedInv, Offset, Page, SeenAfter, Missed
<1> QED  BY <1>2, <1>3, <1>4, <1>5, <1>6, <1>7, <1>8 DEF Next, Serve

(* However UFM's list changes while a client walks it, the walk misses at  *)
(* most as many of the items that were there throughout as items were      *)
(* removed meanwhile; if none was, it misses nothing.                      *)
THEOREM MissesBounded ==
  ASSUME ~FromMap
  PROVE  Spec => []MissesBoundedByRemovals
<1>1. Init => TypeOK /\ MissedInv
  BY TypeInit, MissedInit
<1>2. TypeOK /\ MissedInv /\ [Next]_vars => (TypeOK /\ MissedInv)'
  BY TypeStep, MissedStep
<1>3. MissedInv => MissesBoundedByRemovals
  BY DEF MissedInv, MissesBoundedByRemovals
<1> QED  BY <1>1, <1>2, <1>3, PTL DEF Spec

(***************************************************************************)
(* What a walk has received again, together   *)
(* with what it will receive again if it goes on from where it is, is at   *)
(* most what was inserted; and so it is once the answer that is on its way *)
(* has arrived.                                                            *)
(***************************************************************************)
Repeats == Len(collected) - Cardinality(Range(collected))

Again == Range(Page.items) \cap Range(collected)

AheadAfter ==
  IF Page.next = NoCursor THEN {} ELSE Ahead(list, decodeCursor(Page.next), SeenAfter)

RepeatInv ==
  /\ pc # "done" => Repeats + Cardinality(Ahead(list, Offset, Range(collected))) <= insertions
  /\ pc = "fetched" => Repeats + Cardinality(Again) + Cardinality(AheadAfter) <= insertions
  /\ pc = "done" => Repeats <= insertions

(* After an insertion at most one item is newly ahead of a place: the item *)
(* inserted after it, or the one that an insertion before it moved there.  *)
LEMMA AheadInsert ==
  ASSUME NEW S, NEW l \in Seq(S), IsInjective(l), NEW x \in S, x \notin Range(l),
         NEW k \in 1..(Len(l) + 1), NEW place \in Nat, NEW seen
  PROVE  \E y : Ahead(InsertAt(l, k, x), place, seen) \subseteq Ahead(l, place, seen) \cup {y}
<1> DEFINE t == InsertAt(l, k, x)
           new == IF k <= place THEN l[place] ELSE x
<1>1. Len(t) = Len(l) + 1 /\ Len(l) \in Nat
  BY InsertAtLemma, LenProperties
<1>2. \A i \in 1..(Len(l) + 1) : t[i] = IF i < k THEN l[i] ELSE IF i = k THEN x ELSE l[i - 1]
  BY InsertAtLemma
<1> HIDE DEF t
<1> HIDE DEF new
<1> SUFFICES ASSUME NEW y \in seen, NEW i \in 1..Len(t), i > place, t[i] = y, y # new
             PROVE  \E j \in 1..Len(l) : j > place /\ l[j] = y
  <2> SUFFICES Ahead(t, place, seen) \subseteq Ahead(l, place, seen) \cup {new}
    BY DEF t
  <2> QED  BY DEF Ahead
<1>3. CASE i < k
  <2>1. i \in 1..Len(l) /\ l[i] = y  BY <1>1, <1>2, <1>3
  <2> QED  BY <2>1
<1>4. CASE i = k
  <2>1. y = x /\ ~(k <= place)  BY <1>1, <1>2, <1>4
  <2> QED  BY <2>1 DEF new
<1>5. CASE i > k
  <2>1. i - 1 \in 1..Len(l) /\ l[i - 1] = y  BY <1>1, <1>2, <1>5
  <2>2. i - 1 # place
    <3> SUFFICES ASSUME i - 1 = place PROVE FALSE  OBVIOUS
    <3>1. k <= place  BY <1>1, <1>5
    <3>2. y = l[place]  BY <2>1
    <3> QED  BY <3>1, <3>2 DEF new
  <2>3. i - 1 > place  BY <2>2, <1>1
  <2> QED  BY <2>1, <2>3
<1> QED  BY <1>1, <1>3, <1>4, <1>5

(* A removal brings nothing ahead of a place.                              *)
LEMMA AheadDelete ==
  ASSUME NEW S, NEW l \in Seq(S), IsInjective(l), NEW k \in 1..Len(l), NEW place \in Nat, NEW seen
  PROVE  Ahead(RemoveAt(l, k), place, seen) \subseteq Ahead(l, place, seen)
<1> DEFINE t == RemoveAt(l, k)
<1>1. Len(t) = Len(l) - 1 /\ Len(l) \in Nat
  BY RemoveAtLemma, LenProperties
<1>2. \A i \in 1..(Len(l) - 1) : t[i] = IF i < k THEN l[i] ELSE l[i + 1]
  BY RemoveAtLemma
<1> HIDE DEF t
<1> SUFFICES ASSUME NEW y \in seen, NEW i \in 1..Len(t), i > place, t[i] = y
             PROVE  \E j \in 1..Len(l) : j > place /\ l[j] = y
  BY DEF Ahead, t
<1>3. CASE i < k
  <2>1. i \in 1..Len(l) /\ l[i] = y  BY <1>1, <1>2, <1>3
  <2> QED  BY <2>1
<1>4. CASE i >= k
  <2>1. i + 1 \in 1..Len(l) /\ l[i + 1] = y /\ i + 1 > place  BY <1>1, <1>2, <1>4
  <2> QED  BY <2>1
<1> QED  BY <1>1, <1>3, <1>4

LEMMA AheadFinite ==
  ASSUME NEW S, NEW l \in Seq(S), NEW place, NEW seen
  PROVE  IsFiniteSet(Ahead(l, place, seen)) /\ Cardinality(Ahead(l, place, seen)) \in Nat
<1>1. Ahead(l, place, seen) \subseteq Range(l)
  BY LenProperties DEF Ahead, Range
<1>2. IsFiniteSet(Ahead(l, place, seen))
  BY <1>1, RangeFinite, FS_Subset
<1> QED  BY <1>2, FS_CardinalityType

(* A sequence that holds nothing twice is as long as it holds items.       *)
LEMMA InjectiveSize ==
  ASSUME NEW S, NEW s \in Seq(S), IsInjective(s)
  PROVE  Cardinality(Range(s)) = Len(s)
<1>1. s \in [1..Len(s) -> S] /\ DOMAIN s = 1..Len(s) /\ Len(s) \in Nat
  BY LenProperties
<1>2. s \in Bijection(1..Len(s), Range(s))
  BY <1>1 DEF Bijection, Injection, Surjection, IsInjective, Range
<1>3. IsFiniteSet(1..Len(s)) /\ Cardinality(1..Len(s)) = Len(s)
  <2>1. 1 \in Int /\ Len(s) \in Int  BY <1>1
  <2>2. IsFiniteSet(1..Len(s)) /\ Cardinality(1..Len(s)) = IF 1 > Len(s) THEN 0 ELSE Len(s) - 1 + 1
    BY <2>1, FS_Interval
  <2>3. (IF 1 > Len(s) THEN 0 ELSE Len(s) - 1 + 1) = Len(s)  BY <1>1
  <2> QED  BY <2>2, <2>3
<1>4. ExistsBijection(1..Len(s), Range(s))
  BY <1>2 DEF ExistsBijection
<1> QED  BY <1>3, <1>4, FS_Bijection

(* A page: where it stands in the list it was cut out of, which tells that *)
(* it holds nothing twice if the list does not.                            *)
LEMMA PagePlaces ==
  ASSUME NEW S, NEW items \in Seq(S), IsInjective(items), NEW c \in Cursor, NEW l \in OptionalInt
  PROVE  LET page == PageOf(items, c, l)
             from == decodeCursor(c)
         IN \E end \in Nat :
              /\ \A j \in DOMAIN page.items :
                   \E i \in 1..Len(items) : i > from /\ i <= end /\ page.items[j] = items[i]
              /\ page.next # NoCursor => decodeCursor(page.next) = end
              /\ from <= end
              /\ IsInjective(page.items)
<1> DEFINE page == PageOf(items, c, l)
           from == decodeCursor(c)
<1>1. /\ from \in Nat /\ Len(items) \in Nat
      /\ from >= Len(items) => page.items = << >> /\ page.next = NoCursor
      /\ from < Len(items) =>
               \E end \in (from + 1)..Len(items) :
                 /\ page.items = SubSeq(items, from + 1, end)
                 /\ page.next = IF end < Len(items) THEN encodeCursor(end) ELSE NoCursor
  BY PageLemma
<1> HIDE DEF page, from
<1>2. CASE from >= Len(items)
  <2>1. DOMAIN page.items = {} /\ page.next = NoCursor /\ IsInjective(page.items)
    BY <1>1, <1>2 DEF IsInjective
  <2> QED  BY <2>1, <1>1 DEF page, from
<1>3. CASE from < Len(items)
  <2>1. PICK end \in (from + 1)..Len(items) :
                 /\ page.items = SubSeq(items, from + 1, end)
                 /\ page.next = IF end < Len(items) THEN encodeCursor(end) ELSE NoCursor
    BY <1>1, <1>3
  <2>2. \A i \in (from + 1)..end : items[i] \in S
    BY <1>1, <2>1, ElementOfSeq
  <2>3. /\ page.items \in Seq(S)
        /\ Len(page.items) = end - from
        /\ \A j \in 1..(end - from) : page.items[j] = items[from + j]
    <3>1. from + 1 \in Int /\ end \in Int /\ from + 1 <= end  BY <1>1, <2>1
    <3>2. /\ SubSeq(items, from + 1, end) \in Seq(S)
          /\ Len(SubSeq(items, from + 1, end)) = end - (from + 1) + 1
          /\ \A j \in 1..(end - (from + 1) + 1) :
               SubSeq(items, from + 1, end)[j] = items[(from + 1) + j - 1]
      BY <2>2, <3>1, SubSeqProperties
    <3>3. end - (from + 1) + 1 = end - from  BY <1>1, <3>1
    <3>4. \A j \in 1..(end - from) : (from + 1) + j - 1 = from + j  BY <1>1, <3>1
    <3> QED  BY <2>1, <3>2, <3>3, <3>4
  <2>4. DOMAIN page.items = 1..(end - from)
    BY <2>3, LenProperties
  <2>5. \A j \in 1..(end - from) : from + j \in 1..Len(items) /\ from + j > from /\ from + j <= end
    BY <1>1, <2>1
  <2>6. IsInjective(page.items)
    <3> SUFFICES ASSUME NEW a \in 1..(end - from), NEW b \in 1..(end - from),
                        page.items[a] = page.items[b]
                 PROVE  a = b
      BY <2>4 DEF IsInjective
    <3>1. items[from + a] = items[from + b]  BY <2>3
    <3>2. from + a = from + b  BY <3>1, <2>5, LenProperties DEF IsInjective
    <3> QED  BY <3>2, <1>1
  <2>7. page.next # NoCursor => decodeCursor(page.next) = end
    BY <1>1, <2>1, CursorLemma
  <2>8. end \in Nat /\ from <= end  BY <1>1, <2>1
  <2>9. \A j \in DOMAIN page.items :
          \E i \in 1..Len(items) : i > from /\ i <= end /\ page.items[j] = items[i]
    BY <2>3, <2>4, <2>5
  <2> QED  BY <2>6, <2>7, <2>8, <2>9 DEF page, from
<1> QED  BY <1>1, <1>2, <1>3

(* What the page just fetched holds again, and what will be ahead after    *)
(* it, are different items that were ahead before.                         *)
LEMMA FetchBringsNoneAhead ==
  ASSUME TypeOK
  PROVE  LET page  == PageOf(list, cursor, limit)
             seen  == Range(collected)
             again == Range(page.items) \cap seen
             after == IF page.next = NoCursor THEN {}
                      ELSE Ahead(list, decodeCursor(page.next), seen \cup Range(page.items))
         IN again \cup after \subseteq Ahead(list, Offset, seen) /\ again \cap after = {}
<1> DEFINE page  == PageOf(list, cursor, limit)
           seen  == Range(collected)
           again == Range(page.items) \cap seen
           after == IF page.next = NoCursor THEN {}
                    ELSE Ahead(list, decodeCursor(page.next), seen \cup Range(page.items))
<1>1. list \in Seq(Items) /\ IsInjective(list) /\ DOMAIN list = 1..Len(list) /\ Len(list) \in Nat
      /\ Offset \in Nat
  BY LenProperties, CursorLemma DEF TypeOK, Offset
<1>2. PICK end \in Nat :
              /\ \A j \in DOMAIN page.items :
                   \E i \in 1..Len(list) : i > Offset /\ i <= end /\ page.items[j] = list[i]
              /\ page.next # NoCursor => decodeCursor(page.next) = end
              /\ Offset <= end
  BY <1>1, PagePlaces DEF TypeOK, Offset
<1> HIDE DEF page
<1>3. \A x \in Range(page.items) : \E i \in 1..Len(list) : i > Offset /\ i <= end /\ x = list[i]
  BY <1>2 DEF Range
<1>4. \A x \in after : \E i \in 1..Len(list) : i > end /\ x = list[i]
  BY <1>2 DEF Ahead
<1>5. \A i, j \in 1..Len(list) : list[i] = list[j] => i = j
  BY <1>1 DEF IsInjective
<1>6. \A x \in after : x \notin Range(page.items)
  BY <1>1, <1>3, <1>4, <1>5
<1>7. \A x \in after : x \in seen
  BY <1>6 DEF Ahead
<1>8. again \subseteq Ahead(list, Offset, seen)
  BY <1>3 DEF Ahead
<1>9. after \subseteq Ahead(list, Offset, seen)
  <2> SUFFICES ASSUME NEW x \in after
               PROVE  \E i \in 1..Len(list) : i > Offset /\ list[i] = x
    BY <1>7 DEF Ahead
  <2>1. PICK i \in 1..Len(list) : i > end /\ x = list[i]  BY <1>4
  <2> QED  BY <2>1, <1>1, <1>2
<1> QED  BY <1>6, <1>8, <1>9 DEF page

LEMMA RepeatInit == Init => RepeatInv
<1> SUFFICES ASSUME Init PROVE RepeatInv
  OBVIOUS
<1>1. collected = << >> /\ pc = "ready" /\ insertions = 0
  BY DEF Init
<1>2. Range(collected) = {}
  BY <1>1 DEF Range
<1>3. Ahead(list, Offset, Range(collected)) = {}
  BY <1>2 DEF Ahead
<1>4. Cardinality({}) = 0 /\ Len(collected) = 0
  BY <1>1, FS_EmptySet
<1>5. Repeats = 0
  BY <1>2, <1>4 DEF Repeats
<1>6. Repeats + Cardinality(Ahead(list, Offset, Range(collected))) <= insertions
  BY <1>1, <1>3, <1>4, <1>5
<1> QED  BY <1>1, <1>6 DEF RepeatInv

LEMMA RepeatStep ==
  ASSUME ~FromMap, TypeOK, RepeatInv, [Next]_vars
  PROVE  RepeatInv'
<1> DEFINE seen == Range(collected)
           ahead == Ahead(list, Offset, seen)
           next == decodeCursor(Page.next)
<1>0. /\ list \in Seq(Items) /\ IsInjective(list) /\ copy \in Seq(Items) /\ IsInjective(copy)
      /\ insertions \in Nat /\ Offset \in Nat /\ next \in Nat
      /\ Page.items \in Seq(Items) /\ collected \in Seq(Items)
      /\ cursor \in Cursor /\ limit \in OptionalInt
  BY PageLemma, CursorLemma DEF TypeOK, Page, Offset
<1>1. /\ IsFiniteSet(seen) /\ Cardinality(seen) \in Nat /\ Len(collected) \in Nat
      /\ IsFiniteSet(Range(Page.items)) /\ IsFiniteSet(Again) /\ Cardinality(Again) \in Nat
      /\ Repeats \in Int
  <2>1. IsFiniteSet(seen) /\ Cardinality(seen) \in Nat /\ Len(collected) \in Nat
    BY <1>0, RangeFinite, FS_CardinalityType, LenProperties
  <2>2. IsFiniteSet(Range(Page.items))  BY <1>0, RangeFinite
  <2>3. IsFiniteSet(Again)  BY <2>2, FS_Subset DEF Again
  <2> QED  BY <2>1, <2>2, <2>3, FS_CardinalityType DEF Repeats
<1>2. /\ IsFiniteSet(ahead) /\ Cardinality(ahead) \in Nat
      /\ IsFiniteSet(AheadAfter) /\ Cardinality(AheadAfter) \in Nat
  <2>1. IsFiniteSet(ahead) /\ Cardinality(ahead) \in Nat  BY <1>0, AheadFinite
  <2>2. IsFiniteSet(AheadAfter)  BY <1>0, AheadFinite, FS_EmptySet DEF AheadAfter
  <2> QED  BY <2>1, <2>2, FS_CardinalityType
<1>3. CASE Ask
  <2>1. pc = "ready" /\ pc' = "asked" /\ UNCHANGED <<list, cursor, collected, insertions>>
    BY <1>3 DEF Ask
  <2> QED  BY <2>1 DEF RepeatInv, Offset, Repeats
<1>4. CASE Fetch
  <2>1. copy' = list /\ pc = "asked" /\ pc' = "fetched"
        /\ UNCHANGED <<list, limit, cursor, collected, insertions>>
    BY <1>4 DEF Fetch, Obtained
  <2> DEFINE page  == PageOf(list, cursor, limit)
             again == Range(page.items) \cap seen
             after == IF page.next = NoCursor THEN {}
                      ELSE Ahead(list, decodeCursor(page.next), seen \cup Range(page.items))
  <2>2. Again' = again /\ AheadAfter' = after
    BY <2>1 DEF Page, Again, AheadAfter, SeenAfter
  <2>3. again \cup after \subseteq ahead /\ again \cap after = {}
    BY FetchBringsNoneAhead
  <2> HIDE DEF page, again, after
  <2>4. Cardinality(again) + Cardinality(after) <= Cardinality(ahead)
        /\ Cardinality(again) \in Nat /\ Cardinality(after) \in Nat
    <3>1. IsFiniteSet(again) /\ IsFiniteSet(after) /\ IsFiniteSet(again \cup after)
          /\ Cardinality(again \cup after) <= Cardinality(ahead)
      BY <2>3, <1>2, FS_Subset
    <3>2. Cardinality(again \cup after)
            = Cardinality(again) + Cardinality(after) - Cardinality(again \cap after)
      BY <3>1, FS_Union
    <3>3. Cardinality(again \cap after) = 0
      BY <2>3, FS_EmptySet
    <3>4. Cardinality(again) \in Nat /\ Cardinality(after) \in Nat
      BY <3>1, FS_CardinalityType
    <3> QED  BY <3>1, <3>2, <3>3, <3>4
  <2>5. Repeats + Cardinality(ahead) <= insertions
    BY <2>1 DEF RepeatInv
  <2>6. Repeats + Cardinality(again) + Cardinality(after) <= insertions
    BY <2>4, <2>5, <1>0, <1>1, <1>2
  <2>7. Offset' = Offset /\ Repeats' = Repeats
    BY <2>1 DEF Offset, Repeats
  <2> QED  BY <2>1, <2>2, <2>5, <2>6, <2>7 DEF RepeatInv
<1>5. CASE Answer
  <2>1. /\ pc = "fetched" /\ collected' = collected \o Page.items /\ cursor' = Page.next
        /\ pc' = IF Page.next = NoCursor THEN "done" ELSE "ready"
        /\ UNCHANGED <<list, insertions>>
    BY <1>5 DEF Answer, Page
  <2>2. Range(collected') = seen \cup Range(Page.items)
    BY <1>0, <2>1, RangeConcatenation
  <2>3. Repeats' = Repeats + Cardinality(Again)
    <3>1. Len(collected') = Len(collected) + Len(Page.items)
      BY <1>0, <2>1, ConcatProperties
    <3>2. IsInjective(Page.items)
      BY <1>0, PagePlaces DEF Page
    <3>3. Cardinality(Range(Page.items)) = Len(Page.items)
      BY <1>0, <3>2, InjectiveSize
    <3>4. Cardinality(seen \cup Range(Page.items))
            = Cardinality(seen) + Cardinality(Range(Page.items)) - Cardinality(seen \cap Range(Page.items))
      BY <1>1, FS_Union
    <3>5. seen \cap Range(Page.items) = Again
      BY DEF Again
    <3>6. Len(Page.items) \in Nat
      BY <1>0, LenProperties
    <3>7. Cardinality(Range(collected')) = Cardinality(seen) + Len(Page.items) - Cardinality(Again)
      BY <2>2, <3>3, <3>4, <3>5
    <3> HIDE DEF seen
    <3>8. Repeats = Len(collected) - Cardinality(seen)
          /\ Repeats' = Len(collected') - Cardinality(Range(collected'))
      BY DEF Repeats, seen
    <3> QED  BY <3>1, <3>6, <3>7, <3>8, <1>1
  <2>4. Repeats + Cardinality(Again) + Cardinality(AheadAfter) <= insertions
    BY <2>1 DEF RepeatInv
  <2>5. Repeats' <= insertions
    BY <2>3, <2>4, <1>0, <1>1, <1>2
  <2>6. CASE Page.next = NoCursor
    <3>1. pc' = "done"  BY <2>1, <2>6
    <3> QED  BY <2>1, <2>5, <3>1 DEF RepeatInv
  <2>7. CASE Page.next # NoCursor
    <3>1. pc' = "ready" /\ Offset' = next
      BY <2>1, <2>7 DEF Offset
    <3>2. Ahead(list, Offset, Range(collected))' = AheadAfter
      BY <2>1, <2>2, <2>7, <3>1 DEF AheadAfter, SeenAfter
    <3>3. Repeats' + Cardinality(AheadAfter) <= insertions
      BY <2>3, <2>4
    <3> QED  BY <2>1, <3>1, <3>2, <3>3 DEF RepeatInv
  <2> QED  BY <2>6, <2>7
<1>6. CASE Fail
  <2>1. pc \in {"asked", "fetched"} /\ pc' = "ready"
        /\ UNCHANGED <<list, insertions, collected, cursor>>
    BY <1>6 DEF Fail
  <2> QED  BY <2>1 DEF RepeatInv, Offset, Repeats
<1>7. CASE Insert
  <2>1. PICK x \in Items \ Range(list), k \in 1..(Len(list) + 1) : list' = InsertAt(list, k, x)
    BY <1>7 DEF Insert
  <2>2. insertions' = insertions + 1 /\ UNCHANGED <<copy, pc, limit, cursor, collected>>
    BY <1>7 DEF Insert
  <2>3. /\ Offset' = Offset /\ Page' = Page /\ SeenAfter' = SeenAfter /\ Again' = Again
        /\ Repeats' = Repeats
    BY <2>2 DEF Offset, Page, SeenAfter, Again, Repeats
  <2>10. ASSUME NEW place \in Nat, NEW old
         PROVE  \E y : Ahead(list', place, old) \subseteq Ahead(list, place, old) \cup {y}
    <3>1. /\ list \in Seq(Items) /\ IsInjective(list)
          /\ x \in Items /\ x \notin Range(list) /\ k \in 1..(Len(list) + 1)
      BY <1>0
    <3>2. \E y : Ahead(InsertAt(list, k, x), place, old) \subseteq Ahead(list, place, old) \cup {y}
      BY <3>1, AheadInsert, ZenonT(30)
    <3> QED  BY <2>1, <3>2
  <2>4. Cardinality(Ahead(list', Offset, seen)) <= Cardinality(ahead) + 1
    <3>1. \E y : Ahead(list', Offset, seen) \subseteq ahead \cup {y}
      BY <1>0, <2>10
    <3>2. PICK y : Ahead(list', Offset, seen) \subseteq ahead \cup {y}  BY <3>1
    <3> HIDE DEF ahead
    <3>3. Cardinality(ahead) <= Cardinality(ahead)  BY <1>2
    <3> QED  BY <3>2, <3>3, <1>2, OneMore
  <2>5. Cardinality(AheadAfter') <= Cardinality(AheadAfter) + 1
    <3>1. CASE Page.next = NoCursor
      BY <2>3, <3>1, <1>2 DEF AheadAfter
    <3>2. CASE Page.next # NoCursor
      <4>1. AheadAfter = Ahead(list, next, SeenAfter) /\ AheadAfter' = Ahead(list', next, SeenAfter)
        BY <2>3, <3>2 DEF AheadAfter
      <4>2. \E y : Ahead(list', next, SeenAfter) \subseteq Ahead(list, next, SeenAfter) \cup {y}
        BY <1>0, <2>10
      <4>3. PICK y : AheadAfter' \subseteq AheadAfter \cup {y}  BY <4>1, <4>2
      <4>4. Cardinality(AheadAfter) <= Cardinality(AheadAfter)  BY <1>2
      <4> QED  BY <4>3, <4>4, <1>2, OneMore
    <3> QED  BY <3>1, <3>2
  <2>6. Cardinality(Ahead(list', Offset, seen)) \in Nat /\ Cardinality(AheadAfter') \in Nat
    <3>1. list' \in Seq(Items)  BY <1>0, <2>1, InsertAtLemma
    <3>2. Cardinality(Ahead(list', Offset, seen)) \in Nat
          /\ Cardinality(Ahead(list', next, SeenAfter)) \in Nat
      BY <3>1, AheadFinite
    <3>3. AheadAfter' = IF Page.next = NoCursor THEN {} ELSE Ahead(list', next, SeenAfter)
      BY <2>3 DEF AheadAfter
    <3> QED  BY <3>2, <3>3, FS_EmptySet
  <2>7. pc # "done" => Repeats + Cardinality(Ahead(list', Offset, seen)) <= insertions + 1
    <3>1. pc # "done" => Repeats + Cardinality(ahead) <= insertions  BY DEF RepeatInv
    <3>2. Repeats \in Int /\ insertions \in Nat /\ Cardinality(ahead) \in Nat  BY <1>0, <1>1, <1>2
    <3> HIDE DEF ahead, seen
    <3> QED  BY <3>1, <3>2, <2>4, <2>6
  <2>8. pc = "fetched" => Repeats + Cardinality(Again) + Cardinality(AheadAfter') <= insertions + 1
    <3>1. pc = "fetched" => Repeats + Cardinality(Again) + Cardinality(AheadAfter) <= insertions
      BY DEF RepeatInv
    <3>2. /\ Repeats \in Int /\ insertions \in Nat
          /\ Cardinality(Again) \in Nat /\ Cardinality(AheadAfter) \in Nat
      BY <1>0, <1>1, <1>2
    <3> QED  BY <3>1, <3>2, <2>5, <2>6
  <2>9. pc = "done" => Repeats <= insertions + 1
    BY <1>0, <1>1 DEF RepeatInv
  <2> QED  BY <2>2, <2>3, <2>7, <2>8, <2>9 DEF RepeatInv
<1>8. CASE Delete
  <2>1. PICK k \in 1..Len(list) : list' = RemoveAt(list, k)
    BY <1>8 DEF Delete
  <2>2. UNCHANGED <<copy, pc, limit, cursor, collected, insertions>>
    BY <1>8 DEF Delete
  <2>3. /\ Offset' = Offset /\ Page' = Page /\ SeenAfter' = SeenAfter /\ Again' = Again
        /\ Repeats' = Repeats
    BY <2>2 DEF Offset, Page, SeenAfter, Again, Repeats
  <2>4. Ahead(list', Offset, seen) \subseteq ahead /\ AheadAfter' \subseteq AheadAfter
    <3>1. Ahead(list', Offset, seen) \subseteq ahead
          /\ Ahead(list', next, SeenAfter) \subseteq Ahead(list, next, SeenAfter)
      BY <1>0, <2>1, AheadDelete
    <3> QED  BY <2>3, <3>1 DEF AheadAfter
  <2>5. /\ Cardinality(Ahead(list', Offset, seen)) <= Cardinality(ahead)
        /\ Cardinality(AheadAfter') <= Cardinality(AheadAfter)
        /\ Cardinality(Ahead(list', Offset, seen)) \in Nat /\ Cardinality(AheadAfter') \in Nat
    BY <2>4, <1>2, FS_Subset, FS_CardinalityType
  <2>6. pc # "done" => Repeats + Cardinality(Ahead(list', Offset, seen)) <= insertions
    BY <2>5, <1>0, <1>1, <1>2 DEF RepeatInv
  <2>7. pc = "fetched" => Repeats + Cardinality(Again) + Cardinality(AheadAfter') <= insertions
    BY <2>5, <1>0, <1>1, <1>2 DEF RepeatInv
  <2> QED  BY <2>2, <2>3, <2>6, <2>7 DEF RepeatInv
<1>9. CASE UNCHANGED vars
  BY <1>9 DEF vars, RepeatInv, Offset, Page, SeenAfter, Again, AheadAfter, Repeats
<1> QED  BY <1>3, <1>4, <1>5, <1>6, <1>7, <1>8, <1>9 DEF Next, Serve

(* However UFM's list changes while a client walks it, at most as many     *)
(* items are received again as were inserted meanwhile.                    *)
THEOREM RepeatsBounded ==
  ASSUME ~FromMap
  PROVE  Spec => []RepeatsBoundedByInsertions
<1>1. Init => TypeOK /\ RepeatInv
  BY TypeInit, RepeatInit
<1>2. TypeOK /\ RepeatInv /\ [Next]_vars => (TypeOK /\ RepeatInv)'
  BY TypeStep, RepeatStep
<1>3. TypeOK /\ RepeatInv => RepeatsBoundedByInsertions
  <2> SUFFICES ASSUME TypeOK, RepeatInv PROVE Repeats <= insertions
    BY DEF RepeatsBoundedByInsertions, Repeats
  <2>1. list \in Seq(Items) /\ collected \in Seq(Items) /\ insertions \in Nat
    BY DEF TypeOK
  <2>2. Cardinality(Ahead(list, Offset, Range(collected))) \in Nat
    BY <2>1, AheadFinite
  <2>3. Cardinality(Range(collected)) \in Nat /\ Len(collected) \in Nat
    BY <2>1, RangeFinite, FS_CardinalityType, LenProperties
  <2> QED  BY <2>1, <2>2, <2>3 DEF RepeatInv, Repeats
<1> QED  BY <1>1, <1>2, <1>3, PTL DEF Spec

-----------------------------------------------------------------------------
(***************************************************************************)
(* The refinement of OrderedRead, but for its fairness: an answer over a   *)
(* list nobody changed delivers a chunk, a change disturbs, and no other   *)
(* step is seen.                                                           *)
(***************************************************************************)
LEMMA AnswerDelivers ==
  ASSUME TypeOK, UnchangedInv, Unchanged, Answer, UnchangedInv', TypeOK'
  PROVE  Abstract!Deliver
<1> DEFINE page == PageOf(list, cursor, limit)
<1>1. /\ pc = "fetched" /\ copy = list /\ Offset \in 0..Len(list)
      /\ collected = SubSeq(list, 1, Offset)
      /\ list \in Seq(Items) /\ Len(list) \in Nat
  BY LenProperties DEF Answer, UnchangedInv, TypeOK
<1>2. /\ cursor' = page.next
      /\ pc' = IF page.next = NoCursor THEN "done" ELSE "ready"
      /\ UNCHANGED <<list, insertions, removals>>
  BY <1>1 DEF Answer
<1>3. /\ Offset >= Len(list) => page.next = NoCursor
      /\ Offset < Len(list) =>
               \E end \in (Offset + 1)..Len(list) :
                 page.next = IF end < Len(list) THEN encodeCursor(end) ELSE NoCursor
  BY <1>1, PageLemma DEF TypeOK, Offset
<1> HIDE DEF page
<1>4. Len(collected) = Offset
  <2>1. \A i \in 1..Offset : list[i] \in Items  BY <1>1, ElementOfSeq
  <2>2. 1 \in Int /\ Offset \in Int  BY <1>1
  <2>3. Len(SubSeq(list, 1, Offset)) = IF 1 <= Offset THEN Offset - 1 + 1 ELSE 0
    BY <2>1, <2>2, SubSeqProperties
  <2>4. Len(collected) = IF 1 <= Offset THEN Offset - 1 + 1 ELSE 0  BY <1>1, <2>3
  <2> QED  BY <2>4, <1>1
<1>5. Unchanged'
  BY <1>2 DEF Unchanged
<1> SUFFICES \E n \in Len(collected)..Len(list) :
               /\ collected' = SubSeq(list, 1, n)
               /\ (pc' = "done") = (n = Len(list))
               /\ n > Len(collected) \/ pc' = "done"
  <2>1. ~(insertions + removals > 0) /\ pc # "done"
    BY <1>1 DEF Unchanged
  <2>2. list' = list /\ (insertions' + removals' > 0) = (insertions + removals > 0)
    BY <1>2
  <2> QED  BY <2>1, <2>2 DEF Abstract!Deliver
<1>6. CASE page.next = NoCursor
  <2>1. pc' = "done" /\ collected' = list
    BY <1>2, <1>5, <1>6 DEF UnchangedInv
  <2>2. collected' = SubSeq(list, 1, Len(list))
    BY <2>1, <1>1, SubSeqFull
  <2>3. Len(list) \in Len(collected)..Len(list)
    BY <1>1, <1>4
  <2> QED  BY <2>1, <2>2, <2>3
<1>7. CASE page.next # NoCursor
  <2>1. PICK end \in (Offset + 1)..Len(list) : page.next = encodeCursor(end) /\ end < Len(list)
    BY <1>1, <1>3, <1>7
  <2>2. pc' = "ready" /\ Offset' = end
    BY <1>1, <1>2, <1>7, <2>1, CursorLemma DEF Offset
  <2>3. collected' = SubSeq(list, 1, end)
    BY <1>2, <1>5, <2>2 DEF UnchangedInv
  <2>4. end \in Len(collected)..Len(list) /\ end > Len(collected) /\ end # Len(list)
    BY <1>1, <1>4, <2>1
  <2> QED  BY <2>2, <2>3, <2>4
<1> QED  BY <1>6, <1>7

LEMMA ReadStep ==
  ASSUME ~FromMap, TypeOK, UnchangedInv, [Next]_vars
  PROVE  [Abstract!Deliver \/ Abstract!Disturb]_(Abstract!rvars)
<1> USE DEF Abstract!rvars, Abstract!Disturb
<1>0. TypeOK' /\ UnchangedInv' /\ insertions \in Nat /\ removals \in Nat
  BY TypeStep, UnchangedStep DEF TypeOK
<1>1. CASE Ask
  BY <1>1 DEF Ask
<1>2. CASE Fetch
  BY <1>2 DEF Fetch
<1>3. CASE Answer
  <2>1. CASE Unchanged
    BY <1>0, <1>3, <2>1, AnswerDelivers
  <2>2. CASE ~Unchanged
    <3>1. insertions' + removals' > 0
      BY <1>0, <1>3, <2>2 DEF Answer, Unchanged
    <3> QED  BY <3>1
  <2> QED  BY <2>1, <2>2
<1>4. CASE Fail
  <2>1. pc # "done" /\ pc' # "done" /\ UNCHANGED <<list, collected, insertions, removals>>
    BY <1>4 DEF Fail
  <2> QED  BY <2>1
<1>5. CASE Insert
  <2>1. insertions' + removals' > 0
    BY <1>0, <1>5 DEF Insert
  <2> QED  BY <2>1
<1>6. CASE Delete
  <2>1. insertions' + removals' > 0
    BY <1>0, <1>6 DEF Delete
  <2> QED  BY <2>1
<1>7. CASE UNCHANGED vars
  BY <1>7 DEF vars
<1> QED  BY <1>1, <1>2, <1>3, <1>4, <1>5, <1>6, <1>7 DEF Next, Serve

(* With the list endpoint a walk is one ordered read of UFM's list for as  *)
(* long as nobody changes it.  That the read ends is left to the runs.     *)
THEOREM ReadsInOrder ==
  ASSUME ~FromMap
  PROVE  Spec => Abstract!Safe
<1>1. Init => TypeOK /\ UnchangedInv
  BY TypeInit, UnchangedInit
<1>2. TypeOK /\ UnchangedInv /\ [Next]_vars => (TypeOK /\ UnchangedInv)'
  BY TypeStep, UnchangedStep
<1>3. Init => Abstract!Init
  BY DEF Init, Abstract!Init
<1>4. TypeOK /\ UnchangedInv /\ [Next]_vars
        => [Abstract!Deliver \/ Abstract!Disturb]_(Abstract!rvars)
  BY ReadStep
<1> QED  BY <1>1, <1>2, <1>3, <1>4, PTL DEF Spec, Abstract!Safe
=============================================================================
