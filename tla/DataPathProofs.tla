--------------------------- MODULE DataPathProofs ---------------------------
(***************************************************************************)
(* Theorems about the read side: what a client sees that walks through the *)
(* pages of an answer while analyses are stored, for any files, filters    *)
(* and page sizes; and that nothing that is wrong in a file, and nothing   *)
(* that is right, is lost on the way.  First, ORDER BY, LIMIT and OFFSET   *)
(* over a finite set of joined pairs; then the tables an analysis leaves   *)
(* behind, and the walk; last, what is refused, reported and stored.       *)
(***************************************************************************)
EXTENDS DataPath, FiniteSetTheorems, WellFoundedInduction, TLAPS

LEMMA LeastNat ==
  ASSUME NEW T, T \subseteq Nat, T # {}
  PROVE  \E x \in T : \A y \in T : x <= y
<1> DEFINE Less == {pair \in Nat \X Nat : pair[1] < pair[2]}
<1>1. IsWellFoundedOn(Less, Nat)
  BY NatLessThanWellFounded DEF OpToRel
<1>2. \A m, n \in Nat : m < n => <<m, n>> \in Less
  OBVIOUS
<1> HIDE DEF Less
<1>3. PICK x \in T : \A y \in T : <<y, x>> \notin Less
  BY <1>1, WFMin
<1>4. \A y \in T : y \in Nat /\ x \in Nat /\ ~(y < x)
  BY <1>2, <1>3
<1> QED BY <1>4

LEMMA SmallerOf ==
  ASSUME NEW a \in Int, NEW b \in Int
  PROVE  Min({a, b}) = IF a <= b THEN a ELSE b
BY DEF Min

\* Joined pairs whose rows can be ordered.
Sortable(hits) == IsFiniteSet(hits) /\ \A hit \in hits : hit[1].id \in Int

LEMMA Counted ==
  ASSUME NEW hits, Sortable(hits), NEW id \in Int
  PROVE  /\ IsFiniteSet(Before(hits, id)) /\ Cardinality(Before(hits, id)) \in Nat
         /\ IsFiniteSet(UpTo(hits, id)) /\ Cardinality(UpTo(hits, id)) \in Nat
         /\ Cardinality(hits) \in Nat
         /\ Cardinality(Before(hits, id)) <= Cardinality(UpTo(hits, id))
         /\ Cardinality(UpTo(hits, id)) <= Cardinality(hits)
<1>1. /\ Before(hits, id) \subseteq UpTo(hits, id)
      /\ UpTo(hits, id) \subseteq hits /\ Before(hits, id) \subseteq hits
  BY DEF Before, UpTo, Sortable
<1> QED BY <1>1, FS_Subset, FS_CardinalityType DEF Sortable

\* A finite set of pairs has one with the greatest id.
LEMMA Highest ==
  ASSUME NEW hits, Sortable(hits), hits # {}
  PROVE  \E hit \in hits : \A other \in hits : other[1].id <= hit[1].id
<1> DEFINE Upper(hit) == UpTo(hits, hit[1].id)
           Rest == {Cardinality(hits) - Cardinality(Upper(hit)) : hit \in hits}
<1>1. \A hit \in hits : /\ hit[1].id \in Int /\ IsFiniteSet(Upper(hit))
                        /\ Cardinality(Upper(hit)) \in Nat
                        /\ Cardinality(Upper(hit)) <= Cardinality(hits)
  BY Counted DEF Sortable
<1>2. Cardinality(hits) \in Nat
  BY FS_CardinalityType DEF Sortable
<1>3. Rest \subseteq Nat /\ Rest # {}
  BY <1>1, <1>2
<1>4. PICK m \in Rest : \A n \in Rest : m <= n
  BY <1>3, LeastNat
<1>5. PICK hit \in hits : m = Cardinality(hits) - Cardinality(Upper(hit))
  BY <1>4
<1>6. ASSUME NEW other \in hits, ~(other[1].id <= hit[1].id) PROVE FALSE
  <2>1. Upper(hit) \subseteq Upper(other) /\ other \in Upper(other) \ Upper(hit)
    BY <1>6 DEF UpTo, Sortable
  <2>2. Cardinality(Upper(hit)) < Cardinality(Upper(other))
    BY <1>1, <2>1, FS_Subset
  <2>3. m <= Cardinality(hits) - Cardinality(Upper(other))
    BY <1>4
  <2> QED BY <1>1, <1>2, <1>5, <2>2, <2>3
<1> QED BY <1>6

\* Every place of an answer has a row.
LEMMA PlaceTaken ==
  ASSUME NEW hits, Sortable(hits), NEW i \in 1 .. Cardinality(hits)
  PROVE  \E hit \in hits : i \in Cardinality(Before(hits, hit[1].id)) + 1
                                   .. Cardinality(UpTo(hits, hit[1].id))
<1> DEFINE Upper(hit) == UpTo(hits, hit[1].id)
           Enough == {n \in {Cardinality(Upper(hit)) : hit \in hits} : i <= n}
<1>1. \A hit \in hits : /\ hit[1].id \in Int /\ IsFiniteSet(Upper(hit))
                        /\ Cardinality(Upper(hit)) \in Nat
                        /\ Cardinality(Upper(hit)) <= Cardinality(hits)
                        /\ IsFiniteSet(Before(hits, hit[1].id))
                        /\ Cardinality(Before(hits, hit[1].id)) \in Nat
  BY Counted DEF Sortable
<1>2. Cardinality(hits) \in Nat /\ hits # {}
  BY FS_CardinalityType, FS_EmptySet DEF Sortable
<1>3. PICK top \in hits : \A other \in hits : other[1].id <= top[1].id
  BY <1>2, Highest
<1>4. Upper(top) = hits
  BY <1>3 DEF UpTo
<1>5. Enough \subseteq Nat /\ Enough # {}
  BY <1>1, <1>2, <1>4
<1>6. PICK m \in Enough : \A n \in Enough : m <= n
  BY <1>5, LeastNat
<1>7. PICK hit \in hits : m = Cardinality(Upper(hit))
  BY <1>6
<1>8. ASSUME i <= Cardinality(Before(hits, hit[1].id)) PROVE FALSE
  <2>1. Before(hits, hit[1].id) # {} /\ Sortable(Before(hits, hit[1].id))
    BY <1>1, <1>8, FS_EmptySet DEF Sortable, Before
  <2>2. PICK next \in Before(hits, hit[1].id) :
          \A other \in Before(hits, hit[1].id) : other[1].id <= next[1].id
    BY <2>1, Highest
  <2>3. next \in hits /\ next[1].id < hit[1].id
    BY <2>2 DEF Before
  <2>4. Upper(next) = Before(hits, hit[1].id)
    BY <2>2, <2>3 DEF UpTo, Before, Sortable
  <2>5. Cardinality(Upper(next)) \in Enough
    BY <1>8, <2>3, <2>4
  <2>6. Upper(next) \subseteq Upper(hit) /\ hit \in Upper(hit) \ Upper(next)
    BY <2>3 DEF UpTo, Sortable
  <2>7. Cardinality(Upper(next)) < Cardinality(Upper(hit))
    BY <1>1, <2>3, <2>6, FS_Subset, SMTT(30)
  <2> QED BY <1>1, <1>6, <1>7, <2>3, <2>5, <2>7
<1> QED BY <1>1, <1>6, <1>7, <1>8

LEMMA PlacedRow ==
  ASSUME NEW hits, Sortable(hits), NEW i \in 1 .. Cardinality(hits)
  PROVE  /\ \E hit \in hits : RowAt(hits, i) = hit[1]
         /\ RowAt(hits, i).id \in Int
         /\ Cardinality(Before(hits, RowAt(hits, i).id)) < i
         /\ i <= Cardinality(UpTo(hits, RowAt(hits, i).id))
<1> DEFINE At(row) == i \in Cardinality(Before(hits, row.id)) + 1 .. Cardinality(UpTo(hits, row.id))
<1>1. \E row \in {hit[1] : hit \in hits} : At(row)
  BY PlaceTaken
<1>2. RowAt(hits, i) \in {hit[1] : hit \in hits} /\ At(RowAt(hits, i))
  BY <1>1 DEF RowAt
<1>3. RowAt(hits, i).id \in Int
  BY <1>2 DEF Sortable
<1> QED BY <1>2, <1>3, Counted

\* Rows are in the order of their ids.
LEMMA PlacesAreOrdered ==
  ASSUME NEW hits, Sortable(hits), NEW id \in Int, NEW j \in 1 .. Cardinality(hits)
  PROVE  /\ RowAt(hits, j).id < id => j <= Cardinality(Before(hits, id))
         /\ RowAt(hits, j).id > id => Cardinality(UpTo(hits, id)) < j
         /\ RowAt(hits, j).id = id => /\ Cardinality(Before(hits, id)) < j
                                      /\ j <= Cardinality(UpTo(hits, id))
<1> DEFINE row == RowAt(hits, j)
<1>1. /\ row.id \in Int /\ Cardinality(Before(hits, row.id)) < j
      /\ j <= Cardinality(UpTo(hits, row.id))
  BY PlacedRow
<1> HIDE DEF row
<1>2. \A x \in {id, row.id} : /\ IsFiniteSet(Before(hits, x)) /\ Cardinality(Before(hits, x)) \in Nat
                              /\ IsFiniteSet(UpTo(hits, x)) /\ Cardinality(UpTo(hits, x)) \in Nat
  BY <1>1, Counted
<1>3. row.id < id => UpTo(hits, row.id) \subseteq Before(hits, id)
  BY <1>1 DEF UpTo, Before, Sortable
<1>4. row.id > id => UpTo(hits, id) \subseteq Before(hits, row.id)
  BY <1>1 DEF UpTo, Before, Sortable
<1>5. row.id < id => Cardinality(UpTo(hits, row.id)) <= Cardinality(Before(hits, id))
  BY <1>2, <1>3, FS_Subset
<1>6. row.id > id => Cardinality(UpTo(hits, id)) <= Cardinality(Before(hits, row.id))
  BY <1>2, <1>4, FS_Subset
<1> QED BY <1>1, <1>2, <1>5, <1>6 DEF row

\* The first place of an id, and its only one when only one pair has it.
LEMMA FirstPlace ==
  ASSUME NEW hits, Sortable(hits), NEW id \in Ids(hits)
  PROVE  /\ id \in Int /\ Cardinality(Before(hits, id)) + 1 \in 1 .. Cardinality(hits)
         /\ RowAt(hits, Cardinality(Before(hits, id)) + 1).id = id
<1> DEFINE place == Cardinality(Before(hits, id)) + 1
<1>1. PICK hit \in hits : hit[1].id = id
  BY DEF Ids
<1>2. id \in Int
  BY <1>1 DEF Sortable
<1>3. Before(hits, id) \subseteq UpTo(hits, id) /\ hit \in UpTo(hits, id) \ Before(hits, id)
  BY <1>1, <1>2 DEF UpTo, Before, Sortable
<1>4. Cardinality(Before(hits, id)) < Cardinality(UpTo(hits, id))
  <2>1. /\ IsFiniteSet(UpTo(hits, id)) /\ Cardinality(UpTo(hits, id)) \in Nat
        /\ Cardinality(Before(hits, id)) \in Nat
    BY <1>2, Counted
  <2> QED BY <1>3, <2>1, FS_Subset
<1>5. place \in 1 .. Cardinality(hits)
  BY <1>2, <1>4, Counted
<1>6. RowAt(hits, place).id \in Int
  BY <1>5, PlacedRow
<1>7. /\ RowAt(hits, place).id < id => place <= Cardinality(Before(hits, id))
      /\ RowAt(hits, place).id > id => Cardinality(UpTo(hits, id)) < place
  BY <1>2, <1>5, PlacesAreOrdered
<1> QED BY <1>2, <1>4, <1>5, <1>6, <1>7, Counted

LEMMA OnlyPlace ==
  ASSUME NEW hits, Sortable(hits), NEW id \in Int, NEW j \in 1 .. Cardinality(hits),
         RowAt(hits, j).id = id,
         \A g, h \in hits : g[1].id = id /\ h[1].id = id => g = h
  PROVE  j = Cardinality(Before(hits, id)) + 1
<1>1. PICK hit \in hits : hit[1].id = id
  BY PlacedRow
<1>2. UpTo(hits, id) = Before(hits, id) \union {hit} /\ hit \notin Before(hits, id)
  <2>1. \A h \in hits : h[1].id <= id <=> h[1].id < id \/ h = hit
    BY <1>1 DEF Sortable
  <2> QED BY <1>1, <2>1 DEF UpTo, Before
<1>3. Cardinality(UpTo(hits, id)) = Cardinality(Before(hits, id)) + 1
  BY <1>2, Counted, FS_AddElement
<1>4. Cardinality(Before(hits, id)) < j /\ j <= Cardinality(UpTo(hits, id))
  BY PlacesAreOrdered
<1> QED BY <1>3, <1>4, Counted

-----------------------------------------------------------------------------
\* LIMIT and OFFSET.
IsSlice(rows, hits, offset, size) ==
  /\ DOMAIN rows = {i \in 1 .. size : offset + i <= Cardinality(hits)}
  /\ \A i \in DOMAIN rows : /\ offset + i \in 1 .. Cardinality(hits)
                            /\ rows[i] = RowAt(hits, offset + i)
                            /\ rows[i].id \in Int
                            /\ \E hit \in hits : rows[i] = hit[1]
  /\ rows # <<>> => Len(rows) \in DOMAIN rows /\ \A i \in DOMAIN rows : i <= Len(rows)
  /\ rows = <<>> => DOMAIN rows = {}

LEMMA SliceRows ==
  ASSUME NEW hits, Sortable(hits), NEW offset \in Nat, NEW size \in Nat \ {0}
  PROVE  IsSlice(Slice(hits, offset, size), hits, offset, size)
<1> DEFINE n == Min({size, Cardinality(hits) - offset})
           rows == Slice(hits, offset, size)
<1>1. Cardinality(hits) \in Nat
  BY FS_CardinalityType DEF Sortable
<1>2. n \in Int /\ n <= size /\ n <= Cardinality(hits) - offset
      /\ (n = size \/ n = Cardinality(hits) - offset)
  BY <1>1, SmallerOf
<1>3. rows = [i \in 1 .. n |-> RowAt(hits, offset + i)]
  BY DEF Slice
<1> HIDE DEF n, rows
<1>4. DOMAIN rows = {i \in 1 .. size : offset + i <= Cardinality(hits)}
  <2>1. DOMAIN rows = 1 .. n
    BY <1>3
  <2> QED BY <1>1, <1>2, <2>1
<1>5. ASSUME NEW i \in DOMAIN rows
      PROVE  /\ offset + i \in 1 .. Cardinality(hits) /\ rows[i] = RowAt(hits, offset + i)
             /\ rows[i].id \in Int /\ \E hit \in hits : rows[i] = hit[1]
  <2> DEFINE k == offset + i
  <2>1. k \in 1 .. Cardinality(hits)
    BY <1>1, <1>4, <1>5
  <2>2. rows[i] = RowAt(hits, k)
    BY <1>3, <1>5
  <2> HIDE DEF k
  <2> QED BY <2>1, <2>2, PlacedRow DEF k
<1>6. ASSUME rows # <<>> PROVE Len(rows) \in DOMAIN rows /\ \A i \in DOMAIN rows : i <= Len(rows)
  <2>1. rows \in Seq({RowAt(hits, offset + i) : i \in 1 .. n}) \/ ~(n \in Nat)
    BY <1>3
  <2>2. n \in Nat \ {0}
    <3>1. CASE n \in Int /\ n < 1
      <4>1. DOMAIN rows = {}
        BY <1>3, <3>1
      <4> QED BY <1>3, <1>6, <4>1
    <3> QED BY <1>2, <3>1
  <2>3. Len(rows) = n /\ DOMAIN rows = 1 .. n
    BY <1>3, <2>1, <2>2
  <2> QED BY <2>2, <2>3
<1>7. rows = <<>> => DOMAIN rows = {}
  OBVIOUS
<1> QED BY <1>4, <1>5, <1>6, <1>7 DEF rows, IsSlice

\* What was not read before is read now, or lies behind what was read.
LEMMA OffsetReads ==
  ASSUME NEW hits, Sortable(hits), NEW offset \in Nat, NEW size \in Nat \ {0},
         NEW id \in Ids(hits), offset <= Cardinality(Before(hits, id))
  PROVE  \/ id \in IdsOf(Slice(hits, offset, size))
         \/ offset + size <= Cardinality(Before(hits, id))
<1> DEFINE rows == Slice(hits, offset, size)
           place == Cardinality(Before(hits, id)) + 1
<1>1. /\ id \in Int /\ place \in 1 .. Cardinality(hits) /\ RowAt(hits, place).id = id
      /\ Cardinality(Before(hits, id)) \in Nat /\ Cardinality(hits) \in Nat
  BY FirstPlace, Counted
<1>2. IsSlice(rows, hits, offset, size)
  BY SliceRows
<1> HIDE DEF rows
<1>3. CASE place <= offset + size
  <2>1. place - offset \in DOMAIN rows
    BY <1>1, <1>2, <1>3 DEF IsSlice
  <2>2. offset + (place - offset) = place
    BY <1>1
  <2>3. rows[place - offset].id = id
    BY <1>1, <1>2, <2>1, <2>2 DEF IsSlice
  <2> QED BY <2>1, <2>3 DEF IdsOf, rows
<1> QED BY <1>1, <1>3

\* Nothing is read before its time, but for rows that were joined several times.
LEMMA OffsetReadsOnce ==
  ASSUME NEW hits, Sortable(hits), NEW offset \in Nat, NEW size \in Nat \ {0},
         NEW i \in DOMAIN Slice(hits, offset, size), NEW id, Slice(hits, offset, size)[i].id = id
  PROVE  /\ id \in Int /\ Cardinality(Before(hits, id)) < offset + size
         /\ (\A g, h \in hits : g[1].id = id /\ h[1].id = id => g = h) =>
              offset + i = Cardinality(Before(hits, id)) + 1
<1>1. /\ i \in 1 .. size /\ offset + i \in 1 .. Cardinality(hits)
      /\ RowAt(hits, offset + i).id = id /\ id \in Int
  <2>1. IsSlice(Slice(hits, offset, size), hits, offset, size)
    BY SliceRows
  <2> QED BY <2>1 DEF IsSlice
<1>2. Cardinality(Before(hits, id)) < offset + i /\ Cardinality(Before(hits, id)) \in Nat
  BY <1>1, PlacesAreOrdered, Counted
<1>3. (\A g, h \in hits : g[1].id = id /\ h[1].id = id => g = h) =>
         offset + i = Cardinality(Before(hits, id)) + 1
  BY <1>1, OnlyPlace
<1> QED BY <1>1, <1>2, <1>3

LEMMA AfterIsSortable ==
  ASSUME NEW hits, Sortable(hits), NEW a \in Int
  PROVE  /\ Sortable(After(hits, a))
         /\ \A id : id \in Ids(After(hits, a)) <=> id \in Ids(hits) /\ id > a
BY FS_Subset DEF Sortable, After, Ids

\* The rows after a cursor come in the order of their ids; what is not among them lies
\* behind the last one, which is the next cursor.
IsCursorPage(rows, hits, a) ==
  /\ \A i \in DOMAIN rows : /\ rows[i].id \in Int /\ a < rows[i].id
                            /\ rows[i].id <= rows[Len(rows)].id
  /\ \A id \in Ids(hits) :
       a < id => id \in IdsOf(rows) \/ (rows # <<>> /\ rows[Len(rows)].id < id)
  /\ rows # <<>> => Len(rows) \in DOMAIN rows

LEMMA CursorReads ==
  ASSUME NEW hits, Sortable(hits), NEW a \in Int, NEW size \in Nat \ {0}
  PROVE  IsCursorPage(Slice(After(hits, a), 0, size), hits, a)
<1> DEFINE rest == After(hits, a)
           rows == Slice(rest, 0, size)
           last == Len(rows)
<1>1. Sortable(rest) /\ Cardinality(rest) \in Nat
  BY AfterIsSortable, FS_CardinalityType DEF Sortable
<1>2. \A id : id \in Ids(rest) <=> id \in Ids(hits) /\ id > a
  BY AfterIsSortable
<1> HIDE DEF rest
<1>0. IsSlice(rows, rest, 0, size)
  BY <1>1, SliceRows
<1> HIDE DEF rows
<1>3. /\ DOMAIN rows = {i \in 1 .. size : i <= Cardinality(rest)}
      /\ \A i \in DOMAIN rows : /\ i \in 1 .. Cardinality(rest) /\ rows[i] = RowAt(rest, i)
                                /\ rows[i].id \in Int /\ \E hit \in rest : rows[i] = hit[1]
      /\ rows # <<>> => last \in DOMAIN rows /\ \A i \in DOMAIN rows : i <= last
      /\ rows = <<>> => DOMAIN rows = {}
  BY <1>0, <1>1 DEF IsSlice
<1> HIDE DEF last
<1>4. ASSUME NEW i \in DOMAIN rows
      PROVE  rows[i].id \in Int /\ a < rows[i].id /\ rows[i].id <= rows[last].id
  <2>1. rows[i].id \in Ids(rest) /\ rows[i].id \in Int
    BY <1>3 DEF Ids
  <2>2. last \in DOMAIN rows /\ i <= last
    BY <1>3, <1>4
  <2>3. /\ rows[last] = RowAt(rest, last) /\ rows[i] = RowAt(rest, i)
        /\ rows[last].id \in Int /\ i \in 1 .. Cardinality(rest) /\ last \in 1 .. Cardinality(rest)
    BY <1>3, <2>2
  <2>4. rows[last].id < rows[i].id => last <= Cardinality(Before(rest, rows[i].id))
    BY <1>1, <2>1, <2>3, PlacesAreOrdered
  <2>5. Cardinality(Before(rest, rows[i].id)) < i /\ Cardinality(Before(rest, rows[i].id)) \in Nat
    BY <1>1, <2>1, <2>3, PlacesAreOrdered, Counted
  <2> QED BY <1>2, <2>1, <2>2, <2>3, <2>4, <2>5
<1>5. ASSUME NEW id \in Ids(hits), a < id, id \notin IdsOf(rows)
      PROVE  rows # <<>> /\ rows[last].id < id
  <2>1. id \in Ids(rest) /\ id \in Int
    BY <1>2, <1>5 DEF Ids, Sortable
  <2>2. /\ 0 <= Cardinality(Before(rest, id)) /\ Cardinality(Before(rest, id)) \in Nat
        /\ Cardinality(Before(rest, id)) + 1 <= Cardinality(rest)
    BY <1>1, <2>1, FirstPlace, Counted
  <2>3. 0 + size <= Cardinality(Before(rest, id))
    BY <1>1, <1>5, <2>1, <2>2, OffsetReads DEF rows
  <2>4. size \in DOMAIN rows
    BY <1>1, <1>3, <2>2, <2>3
  <2>5. rows # <<>> /\ last = size
    BY <1>3, <2>4
  <2>6. rows[last] = RowAt(rest, size) /\ rows[last].id \in Int /\ size \in 1 .. Cardinality(rest)
    BY <1>3, <2>4, <2>5
  <2>7. /\ RowAt(rest, size).id = id => Cardinality(Before(rest, id)) < size
        /\ RowAt(rest, size).id > id => Cardinality(UpTo(rest, id)) < size
    BY <1>1, <2>1, <2>6, PlacesAreOrdered
  <2>8. Cardinality(Before(rest, id)) <= Cardinality(UpTo(rest, id)) /\ Cardinality(UpTo(rest, id)) \in Nat
    BY <1>1, <2>1, Counted
  <2> QED BY <2>1, <2>2, <2>3, <2>5, <2>6, <2>7, <2>8
<1> QED BY <1>3, <1>4, <1>5 DEF rows, last, rest, IsCursorPage

-----------------------------------------------------------------------------
(***************************************************************************)
(* What the refiners accept.  A record has the value of every field, and   *)
(* no field went wrong.                                                    *)
(***************************************************************************)
Distinct(fields) == \A i, j \in DOMAIN fields : fields[i].attr = fields[j].attr => i = j

LEMMA Accepts ==
  ASSUME NEW source, NEW fields, Distinct(fields), Refine(source, fields).record # None
  PROVE  \A i \in DOMAIN fields :
           /\ fields[i].res.error = None
           /\ Refine(source, fields).record[fields[i].attr] = fields[i].res.v
<1> DEFINE built == [a \in {fields[i].attr : i \in DOMAIN fields} |->
                       fields[CHOOSE i \in DOMAIN fields : fields[i].attr = a].res.v]
<1>1. /\ \A i \in DOMAIN fields : fields[i].res.error = None
      /\ Refine(source, fields).record = built
  BY Zenon DEF Refine, Raised
<1>2. ASSUME NEW i \in DOMAIN fields
      PROVE  (CHOOSE j \in DOMAIN fields : fields[j].attr = fields[i].attr) = i
  BY DEF Distinct
<1>3. ASSUME NEW i \in DOMAIN fields
      PROVE  Refine(source, fields).record[fields[i].attr] = fields[i].res.v
  <2>1. fields[i].attr \in {fields[j].attr : j \in DOMAIN fields}
    BY <1>3
  <2>2. Refine(source, fields).record[fields[i].attr] =
          fields[CHOOSE j \in DOMAIN fields : fields[j].attr = fields[i].attr].res.v
    <3>1. built[fields[i].attr] =
            fields[CHOOSE j \in DOMAIN fields : fields[j].attr = fields[i].attr].res.v
      BY <2>1
    <3> HIDE DEF built
    <3> QED BY <1>1, <3>1
  <2>3. (CHOOSE j \in DOMAIN fields : fields[j].attr = fields[i].attr) = i
    BY <1>2
  <2> QED BY <2>2, <2>3
<1> HIDE DEF built
<1> QED BY <1>1, <1>3

\* A result that is no exception.
Succeeds(res) == res.error = None

LEMMA Results ==
  /\ \A v : Ok(v).v = v /\ Ok(v).error = None
  /\ \A e \in Exceptions : ~Succeeds(Raise(e))
BY NoneAssumption DEF Ok, Raise, Succeeds

LEMMA Parsed ==
  ASSUME NEW c \in Cells
  PROVE  /\ Succeeds(ParseInt(c)) => ParseInt(c).v \in Int
         /\ Succeeds(ParseFloat(c)) => ParseFloat(c).v \in Cells
         /\ Succeeds(Bool(c)) => Bool(c).v \in BOOLEAN
         /\ Succeeds(IsoDate(c)) => IsoDate(c).v \in Int
<1>1. c.n \in Int /\ c.n \div 1000 \in Int /\ -((-c.n) \div 1000) \in Int
  BY DEF Cells
<1>2. Succeeds(ParseInt(c)) => ParseInt(c).v \in Int
  BY <1>1, Results DEF Exceptions, RowErrors, DomainErrors, ParseInt, Get
<1>3. Succeeds(ParseFloat(c)) => ParseFloat(c).v \in Cells
  BY Results DEF Exceptions, RowErrors, DomainErrors, ParseFloat, Get
<1>4. Truth(c) \in BOOLEAN
  BY DEF Truth, Cells
<1>5. Succeeds(Bool(c)) => Bool(c).v \in BOOLEAN
  BY <1>4, Results DEF Exceptions, RowErrors, DomainErrors, Bool, Get
<1>6. Succeeds(IsoDate(c)) => IsoDate(c).v \in Int
  BY <1>1, Results DEF Exceptions, RowErrors, DomainErrors, IsoDate, Get
<1> QED BY <1>2, <1>3, <1>5, <1>6

LEMMA Enumerated ==
  ASSUME NEW c \in Cells, NEW Values
  PROVE  Succeeds(Member(c, Values)) => Member(c, Values).v \in Values
BY Results DEF Exceptions, RowErrors, DomainErrors, Member, Get

\* What has passed the check of a path.
Paths == [name : STRING, length : Int, suffix : {".mp4"}]
PathOf(c) == [name |-> c.text, length |-> c.n, suffix |-> ".mp4"]

\* The ranges of the value objects.
LEMMA ValueObjects ==
  /\ \A n \in Int : Succeeds(VideoId(n)) => VideoId(n).v \in Nat \ {0}
  /\ \A h \in Int : Succeeds(Temperature(h)) => Temperature(h).v \in Temperatures
  /\ \A x \in Cells : Succeeds(Confidence(x)) => Confidence(x).v \in 0 .. 1000
  /\ \A n \in Int : Succeeds(ObjectCount(n)) => ObjectCount(n).v \in Nat
  /\ \A active \in BOOLEAN : \A level : Succeeds(WiperState(active, level)) =>
       WiperState(active, level).v \in [active : BOOLEAN, level : Opt(0 .. 3)]
  /\ \A x \in Cells : Succeeds(SourcePath(x)) =>
       SourcePath(x).v \in Paths /\ SourcePath(x).v = PathOf(x)
<1>1. \A n \in Int : Succeeds(VideoId(n)) => VideoId(n).v \in Nat \ {0}
  BY Results DEF Exceptions, RowErrors, DomainErrors, VideoId
<1>2. \A h \in Int : Succeeds(Temperature(h)) => Temperature(h).v \in Temperatures
  <2>1. ASSUME NEW h \in Int, Succeeds(Temperature(h)) PROVE Temperature(h).v \in Temperatures
    <3>1. CASE h \in Temperatures
      BY <3>1, Results DEF Temperature
    <3>2. CASE h \notin Temperatures
      BY <2>1, <3>2, Results DEF Temperature, Exceptions, DomainErrors
    <3> QED BY <3>1, <3>2
  <2> QED BY <2>1
<1>3. \A x \in Cells : Succeeds(Confidence(x)) => Confidence(x).v \in 0 .. 1000
  <2>1. ASSUME NEW x \in Cells, Finite(x), x.n \in 0 .. 1000 PROVE Confidence(x).v = x.n
    BY <2>1, Results DEF Confidence
  <2>2. ASSUME NEW x \in Cells, ~(Finite(x) /\ x.n \in 0 .. 1000) PROVE ~Succeeds(Confidence(x))
    BY <2>2, Results DEF Confidence, Exceptions, DomainErrors
  <2> QED BY <2>1, <2>2
<1>4. \A n \in Int : Succeeds(ObjectCount(n)) => ObjectCount(n).v \in Nat
  BY Results DEF Exceptions, RowErrors, DomainErrors, ObjectCount
<1>5. \A active \in BOOLEAN : \A level : Succeeds(WiperState(active, level)) =>
        WiperState(active, level).v \in [active : BOOLEAN, level : Opt(0 .. 3)]
  BY Results DEF Exceptions, RowErrors, DomainErrors, WiperState, Opt
<1>6. \A x \in Cells : Succeeds(SourcePath(x)) =>
        SourcePath(x).v \in Paths /\ SourcePath(x).v = PathOf(x)
  <2>1. {"InvalidFormatError", "AttributeError"} \subseteq Exceptions
    BY DEF Exceptions, DomainErrors
  <2>2. ASSUME NEW x \in Cells
        PROVE  SourcePath(x) \in {Raise("InvalidFormatError"), Raise("AttributeError"), Ok(PathOf(x))}
    BY Zenon DEF SourcePath, PathOf
  <2>3. \A x \in Cells : PathOf(x) \in Paths
    BY DEF Cells, Paths, PathOf
  <2> QED BY <2>1, <2>2, <2>3, Results
<1> QED BY <1>1, <1>2, <1>3, <1>4, <1>5, <1>6, Zenon

Wipers == [active : BOOLEAN, level : Opt(0 .. 3)]

\* The fields of the nested schema.
LEMMA NestedFields ==
  ASSUME NEW row \in [SelectionFields -> Cells]
  PROVE  /\ TemperatureField(row).attr = "temperature"
         /\ Succeeds(TemperatureField(row).res) => TemperatureField(row).res.v \in Temperatures
         /\ WiperField(row).attr = "wiper"
         /\ Succeeds(WiperField(row).res) => WiperField(row).res.v \in Wipers
<1>0. \A f \in SelectionFields : row[f] \in Cells
  OBVIOUS
<1>1. \A x \in Cells : /\ Succeeds(FromCelsius(x)) => FromCelsius(x).v \in Temperatures
                       /\ Succeeds(FromFahrenheit(x)) => FromFahrenheit(x).v \in Temperatures
  <2>1. \A x \in Cells : (x.n + 5) \div 10 \in Int /\ ((x.n - 32000) * 5 + 45) \div 90 \in Int
    BY DEF Cells
  <2> QED BY <2>1, Results, ValueObjects DEF FromCelsius, FromFahrenheit, Exceptions, DomainErrors
<1>2. TemperatureField(row).attr = "temperature"
  BY DEF TemperatureField, Field
<1>3. ASSUME Succeeds(TemperatureField(row).res)
      PROVE  TemperatureField(row).res.v \in Temperatures
  <2> DEFINE value == row["sensor.temperature.value"]
  <2>1. value \in Cells
    BY <1>0 DEF SelectionFields
  <2>2. \/ TemperatureField(row).res = FromFahrenheit(value)
        \/ TemperatureField(row).res = Then(ParseFloat(value), FromCelsius)
    BY <1>3, Results DEF TemperatureField, Field, Get, Succeeds, Exceptions, RowErrors, DomainErrors
  <2> HIDE DEF value
  <2>3. CASE TemperatureField(row).res = FromFahrenheit(value)
    BY <1>1, <1>3, <2>1, <2>3
  <2>4. CASE TemperatureField(row).res = Then(ParseFloat(value), FromCelsius)
    <3>1. Succeeds(ParseFloat(value)) /\ TemperatureField(row).res = FromCelsius(ParseFloat(value).v)
      BY <1>3, <2>4 DEF Then, Succeeds
    <3> QED BY <1>1, <1>3, <2>1, <3>1, Parsed
  <2> QED BY <2>2, <2>3, <2>4
<1>4. WiperField(row).attr = "wiper"
  BY DEF WiperField, Field
<1>5. ASSUME Succeeds(WiperField(row).res) PROVE WiperField(row).res.v \in Wipers
  <2> DEFINE active == Bool(row["sensor.wiper.isActive"])
             level == ParseInt(row["sensor.wiper.level"])
  <2>1. Succeeds(active) /\ Succeeds(level) /\ WiperField(row).res = WiperState(active.v, level.v)
    BY <1>5, Results
    DEF WiperField, Field, Then, Succeeds, Exceptions, RowErrors, DomainErrors
  <2>2. active.v \in BOOLEAN
    BY <1>0, <2>1, Parsed DEF SelectionFields
  <2> HIDE DEF active, level
  <2> QED BY <1>5, <2>1, <2>2, ValueObjects DEF Wipers
<1> QED BY <1>2, <1>3, <1>4, <1>5

SelectionRecord(rec) ==
  /\ rec.id \in Nat \ {0} /\ rec.recordedAt \in Int /\ rec.temperature \in Temperatures
  /\ rec.wiper \in Wipers /\ rec.headlightsOn \in BOOLEAN
  /\ rec.sourcePath \in Paths

LEMMA CommonFields ==
  ASSUME NEW row \in [SelectionFields -> Cells]
  PROVE  /\ Succeeds(IdField(row).res) => IdField(row).res.v \in Nat \ {0}
         /\ Succeeds(DateField(row).res) => DateField(row).res.v \in Int
         /\ Succeeds(PathField(row).res) =>
              PathField(row).res.v \in Paths /\ PathField(row).res.v = PathOf(row["sourcePath"])
<1>1. row["id"] \in Cells /\ row["recordedAt"] \in Cells /\ row["sourcePath"] \in Cells
  BY DEF SelectionFields
<1>2. \A x \in Cells : x.n \div 1000 \in Int
  BY DEF Cells
<1>3. Succeeds(SelectionId(row["id"])) => SelectionId(row["id"]).v \in Nat \ {0}
  BY <1>1, <1>2, Results, ValueObjects DEF SelectionId, Get, Exceptions, RowErrors, DomainErrors
<1>4. Succeeds(Get(row["sourcePath"], SourcePath)) =>
        /\ Get(row["sourcePath"], SourcePath).v \in Paths
        /\ Get(row["sourcePath"], SourcePath).v = PathOf(row["sourcePath"])
  BY <1>1, Results, ValueObjects DEF Get, Exceptions, RowErrors, DomainErrors
<1> QED BY <1>1, <1>3, <1>4, Parsed DEF IdField, DateField, PathField, Field

LEMMA SelectionRecords ==
  ASSUME NEW row \in [SelectionFields -> Cells], RefineSelection(row).record # None
  PROVE  /\ SelectionRecord(RefineSelection(row).record)
         /\ RefineSelection(row).record.sourcePath = PathOf(row["sourcePath"])
<1> DEFINE source == row["id"].text
           rec == RefineSelection(row).record
           Missing(res) == Field("sensor", "sensor", res, SelectionCaught)
           Temp == Field("temperature", "temperature",
                         Then(ParseFloat(row["temperature"]), FromCelsius), SelectionCaught)
           Wiper == Field("wiper", "isWiperOn",
                          Then(Bool(row["isWiperOn"]), LAMBDA on : WiperState(on, None)), MissingOnly)
           Lights == Field("headlightsOn", "headlightsOn", Bool(row["headlightsOn"]), MissingOnly)
           Nested == Field("headlightsOn", "headlights", Bool(row["sensor.headlights"]), MissingOnly)
           v1 == <<IdField(row), DateField(row), Temp, Wiper, Lights, PathField(row)>>
           v2 == <<IdField(row), DateField(row), PathField(row), TemperatureField(row),
                   WiperField(row), Nested>>
           none == <<IdField(row), DateField(row), PathField(row), Missing(Raise("TypeError"))>>
           unknown == <<Field("schema", "schema", Raise("UnknownSchema"),
                              As({"UnknownSchema"}, "unknown_schema"))>>
<1>1. /\ IdField(row).attr = "id" /\ DateField(row).attr = "recordedAt"
      /\ PathField(row).attr = "sourcePath" /\ Temp.attr = "temperature" /\ Wiper.attr = "wiper"
      /\ Lights.attr = "headlightsOn" /\ Nested.attr = "headlightsOn"
      /\ TemperatureField(row).attr = "temperature" /\ WiperField(row).attr = "wiper"
  BY NestedFields DEF IdField, DateField, PathField, Field
<1>2. /\ row["temperature"] \in Cells /\ row["isWiperOn"] \in Cells /\ row["headlightsOn"] \in Cells
      /\ row["sensor.headlights"] \in Cells
  BY DEF SelectionFields
<1>3. CASE RefineSelection(row) = Refine(source, v1)
  <2>1. Succeeds(Temp.res) => Temp.res.v \in Temperatures
    <3>1. \A x \in Cells : Succeeds(FromCelsius(x)) => FromCelsius(x).v \in Temperatures
      <4>1. \A x \in Cells : (x.n + 5) \div 10 \in Int
        BY DEF Cells
      <4> QED BY <4>1, Results, ValueObjects DEF FromCelsius, Exceptions, DomainErrors
    <3> QED BY <1>2, <3>1, Parsed DEF Field, Then, Succeeds
  <2>2. Succeeds(Wiper.res) => Wiper.res.v \in Wipers
    BY <1>2, Parsed, ValueObjects DEF Field, Then, Succeeds, Wipers
  <2>3. Succeeds(Lights.res) => Lights.res.v \in BOOLEAN
    BY <1>2, Parsed DEF Field
  <2> HIDE DEF Temp, Wiper, Lights
  <2>4. Distinct(v1)
    BY <1>1 DEF Distinct
  <2>5. \A i \in 1 .. 6 : Succeeds(v1[i].res) /\ rec[v1[i].attr] = v1[i].res.v
    BY <1>3, <2>4, Accepts DEF Succeeds
  <2>6. /\ Succeeds(IdField(row).res) /\ rec.id = IdField(row).res.v
        /\ Succeeds(DateField(row).res) /\ rec.recordedAt = DateField(row).res.v
        /\ Succeeds(Temp.res) /\ rec.temperature = Temp.res.v
        /\ Succeeds(Wiper.res) /\ rec.wiper = Wiper.res.v
        /\ Succeeds(Lights.res) /\ rec.headlightsOn = Lights.res.v
        /\ Succeeds(PathField(row).res) /\ rec.sourcePath = PathField(row).res.v
    BY <1>1, <2>5
  <2> HIDE DEF rec
  <2> QED BY <2>1, <2>2, <2>3, <2>6, CommonFields DEF SelectionRecord, rec
<1>4. CASE RefineSelection(row) = Refine(source, v2)
  <2>3. Succeeds(Nested.res) => Nested.res.v \in BOOLEAN
    BY <1>2, Parsed DEF Field
  <2> HIDE DEF Nested
  <2>4. Distinct(v2)
    BY <1>1 DEF Distinct
  <2>5. \A i \in 1 .. 6 : Succeeds(v2[i].res) /\ rec[v2[i].attr] = v2[i].res.v
    BY <1>4, <2>4, Accepts DEF Succeeds
  <2>6. /\ Succeeds(IdField(row).res) /\ rec.id = IdField(row).res.v
        /\ Succeeds(DateField(row).res) /\ rec.recordedAt = DateField(row).res.v
        /\ Succeeds(TemperatureField(row).res) /\ rec.temperature = TemperatureField(row).res.v
        /\ Succeeds(WiperField(row).res) /\ rec.wiper = WiperField(row).res.v
        /\ Succeeds(Nested.res) /\ rec.headlightsOn = Nested.res.v
        /\ Succeeds(PathField(row).res) /\ rec.sourcePath = PathField(row).res.v
    BY <1>1, <2>5
  <2> HIDE DEF rec
  <2> QED BY <2>3, <2>6, CommonFields, NestedFields DEF SelectionRecord, rec
<1>5. CASE RefineSelection(row) = Refine(source, none)
  <2>1. Missing(Raise("TypeError")).attr = "sensor" /\ ~Succeeds(Missing(Raise("TypeError")).res)
    BY Results DEF Field, Exceptions, RowErrors
  <2> HIDE DEF Missing
  <2>2. Distinct(none)
    BY <1>1, <2>1 DEF Distinct
  <2> QED BY <1>5, <2>1, <2>2, Accepts DEF Succeeds
<1>6. CASE RefineSelection(row) = Refine(source, unknown)
  <2>1. ~Succeeds(unknown[1].res) /\ Distinct(unknown)
    BY Results DEF Field, Exceptions, Distinct
  <2> QED BY <1>6, <2>1, Accepts DEF Succeeds
<1> HIDE DEF source
<1> QED BY <1>3, <1>4, <1>5, <1>6 DEF RefineSelection, RefineV1, RefineV2, source

OddTagRecord(rec) ==
  /\ rec.video \in Nat \ {0} /\ rec.weather \in Weather /\ rec.time_of_day \in TimeOfDay
  /\ rec.road_surface \in RoadSurface
LabelRecord(rec) ==
  /\ rec.video \in Nat \ {0} /\ rec.object_class \in ObjectClass /\ rec.count \in Nat
  /\ rec.confidence \in 0 .. 1000 /\ rec.labeled_at \in Int

LEMMA OddTagRecords ==
  ASSUME NEW row \in [OddTagFields -> Cells], RefineOddTag(row).record # None
  PROVE  OddTagRecord(RefineOddTag(row).record)
<1> DEFINE source == row["id"].text
           Id == Field("id", "id", ParseInt(row["id"]), InvalidFormat)
           Video == Field("video", "video_id", OddVideoId(row["video_id"]), InvalidFormat)
           W == EnumField("weather", row["weather"], Weather)
           T == EnumField("time_of_day", row["time_of_day"], TimeOfDay)
           R == EnumField("road_surface", row["road_surface"], RoadSurface)
           fields == <<Id, Video, W, T, R>>
           rec == RefineOddTag(row).record
<1>1. /\ row["video_id"] \in Cells /\ row["weather"] \in Cells /\ row["time_of_day"] \in Cells
      /\ row["road_surface"] \in Cells
  BY DEF OddTagFields
<1>2. /\ Id.attr = "id" /\ Video.attr = "video" /\ W.attr = "weather" /\ T.attr = "time_of_day"
      /\ R.attr = "road_surface"
  BY DEF Field, EnumField
<1>3. Succeeds(Video.res) => Video.res.v \in Nat \ {0}
  <2>1. \A x \in Cells : x.n \div 1000 \in Int
    BY DEF Cells
  <2>2. ASSUME NEW c \in Cells
        PROVE  OddVideoId(c) \in {Raise("KeyError"), VideoId(0), VideoId(c.n \div 1000),
                                  Raise("ValueError")}
    BY DEF OddVideoId, Get
  <2>3. "KeyError" \in Exceptions /\ "ValueError" \in Exceptions
    BY DEF Exceptions, RowErrors
  <2>4. Succeeds(OddVideoId(row["video_id"])) => OddVideoId(row["video_id"]).v \in Nat \ {0}
    BY <1>1, <2>1, <2>2, <2>3, Results, ValueObjects
  <2> QED BY <2>4 DEF Field
<1>4. /\ Succeeds(W.res) => W.res.v \in Weather
      /\ Succeeds(T.res) => T.res.v \in TimeOfDay
      /\ Succeeds(R.res) => R.res.v \in RoadSurface
  BY <1>1, Enumerated DEF EnumField, Field
<1>5. RefineOddTag(row) = OddTag(Refine(source, fields))
  BY DEF RefineOddTag
<1> HIDE DEF Id, Video, W, T, R
<1>6. Refine(source, fields).record # None /\ rec = Refine(source, fields).record
  BY <1>5 DEF OddTag, Raised
<1>7. Distinct(fields)
  BY <1>2 DEF Distinct
<1>8. \A i \in 1 .. 5 : Succeeds(fields[i].res) /\ rec[fields[i].attr] = fields[i].res.v
  BY <1>6, <1>7, Accepts DEF Succeeds
<1>9. /\ Succeeds(Video.res) /\ rec.video = Video.res.v /\ Succeeds(W.res) /\ rec.weather = W.res.v
      /\ Succeeds(T.res) /\ rec.time_of_day = T.res.v
      /\ Succeeds(R.res) /\ rec.road_surface = R.res.v
  BY <1>2, <1>8
<1> HIDE DEF rec
<1> QED BY <1>3, <1>4, <1>9 DEF OddTagRecord, rec

LEMMA LabelRecords ==
  ASSUME NEW row \in [LabelFields -> Cells], RefineLabel(row).record # None
  PROVE  LabelRecord(RefineLabel(row).record)
<1> DEFINE source == row["video_id"].text \o ":" \o row["object_class"].text
           Video == Field("video", "video_id", Then(ParseInt(row["video_id"]), VideoId), InvalidFormat)
           C == EnumField("object_class", row["object_class"], ObjectClass)
           N == ObjCountField(row["obj_count"])
           P == Field("confidence", "avg_confidence",
                      Then(ParseFloat(row["avg_confidence"]), Confidence), InvalidFormat)
           At == Field("labeled_at", "labeled_at", IsoDate(row["labeled_at"]), InvalidFormat)
           fields == <<Video, C, N, P, At>>
           rec == RefineLabel(row).record
<1>1. /\ row["video_id"] \in Cells /\ row["object_class"] \in Cells /\ row["obj_count"] \in Cells
      /\ row["avg_confidence"] \in Cells /\ row["labeled_at"] \in Cells
  BY DEF LabelFields
<1>2. /\ Video.attr = "video" /\ C.attr = "object_class" /\ N.attr = "count"
      /\ P.attr = "confidence" /\ At.attr = "labeled_at"
  BY DEF Field, EnumField, ObjCountField
<1>3. Succeeds(Video.res) => Video.res.v \in Nat \ {0}
  BY <1>1, Parsed, ValueObjects DEF Field, Then, Succeeds
<1>4. Succeeds(C.res) => C.res.v \in ObjectClass
  BY <1>1, Enumerated DEF EnumField, Field
<1>5. Succeeds(N.res) => N.res.v \in Nat
  <2> DEFINE parsed == ParseFloat(row["obj_count"])
             Whole(x) == CASE x.spells = "nan" -> Raise("ValueErrorOfInt")
                           [] x.spells = "inf" -> Raise("OverflowError")
                           [] Finite(x) /\ x.n % 1000 # 0 -> Raise("Fractional")
                           [] OTHER -> ObjectCount(x.n \div 1000)
  <2>1. \A x \in Cells : x.n \div 1000 \in Int
    BY DEF Cells
  <2>2. ASSUME NEW x \in Cells, Succeeds(Whole(x)) PROVE Whole(x).v \in Nat
    <3>1. {"ValueErrorOfInt", "OverflowError", "Fractional"} \subseteq Exceptions
      BY DEF Exceptions, RowErrors, DomainErrors
    <3>2. \/ Whole(x) \in {Raise("ValueErrorOfInt"), Raise("OverflowError"), Raise("Fractional")}
          \/ Whole(x) = ObjectCount(x.n \div 1000)
      OBVIOUS
    <3> HIDE DEF Whole
    <3>3. Whole(x) = ObjectCount(x.n \div 1000)
      <4>1. ~Succeeds(Raise("ValueErrorOfInt")) /\ ~Succeeds(Raise("OverflowError"))
            /\ ~Succeeds(Raise("Fractional"))
        BY <3>1, Results
      <4> QED BY <2>2, <3>2, <4>1
    <3> QED BY <2>1, <2>2, <3>3, ValueObjects
  <2>3. N.res = IF parsed.error = None THEN Whole(parsed.v) ELSE parsed
    BY DEF ObjCountField, ObjCount, Field, Then
  <2>4. parsed.error = None => parsed.v \in Cells
    BY <1>1, Parsed DEF Succeeds
  <2> HIDE DEF Whole, N, parsed
  <2>5. Succeeds(N.res) => parsed.error = None
    BY <2>3 DEF Succeeds
  <2>6. Succeeds(N.res) => N.res = Whole(parsed.v) /\ parsed.v \in Cells
    BY <2>3, <2>4, <2>5
  <2> QED BY <2>2, <2>6
<1>6. Succeeds(P.res) => P.res.v \in 0 .. 1000
  <2> DEFINE parsed == ParseFloat(row["avg_confidence"])
  <2>1. parsed.error = None => parsed.v \in Cells
    BY <1>1, Parsed DEF Succeeds
  <2>2. P.res = IF parsed.error = None THEN Confidence(parsed.v) ELSE parsed
    BY DEF Field, Then
  <2> HIDE DEF parsed, P
  <2>3. Succeeds(P.res) => P.res = Confidence(parsed.v) /\ parsed.v \in Cells
    BY <2>1, <2>2 DEF Succeeds
  <2>4. \A x \in Cells : Succeeds(Confidence(x)) => Confidence(x).v \in 0 .. 1000
    BY ValueObjects
  <2> QED BY <2>3, <2>4
<1>7. Succeeds(At.res) => At.res.v \in Int
  BY <1>1, Parsed DEF Field
<1>8. RefineLabel(row) = Refine(source, fields)
  BY DEF RefineLabel
<1> HIDE DEF Video, C, N, P, At, source
<1>9. Distinct(fields)
  BY <1>2 DEF Distinct
<1>10. \A i \in 1 .. 5 : Succeeds(fields[i].res) /\ rec[fields[i].attr] = fields[i].res.v
  BY <1>8, <1>9, Accepts DEF Succeeds
<1>11. /\ Succeeds(Video.res) /\ rec.video = Video.res.v
       /\ Succeeds(C.res) /\ rec.object_class = C.res.v
       /\ Succeeds(N.res) /\ rec.count = N.res.v /\ Succeeds(P.res) /\ rec.confidence = P.res.v
       /\ Succeeds(At.res) /\ rec.labeled_at = At.res.v
  BY <1>2, <1>10
<1> HIDE DEF rec
<1> QED BY <1>3, <1>4, <1>5, <1>6, <1>7, <1>11 DEF LabelRecord, rec

\* The rejections of a row have places of their own.
IsRejected(R) ==
  IsFiniteSet(R) /\ \A x, y \in R : x.nth \in 1 .. 6 /\ (x.nth = y.nth => x = y)

LEMMA NumberedIsFinite ==
  ASSUME NEW R, \A x, y \in R : x.nth \in 1 .. 6 /\ (x.nth = y.nth => x = y)
  PROVE  IsRejected(R)
<1> DEFINE nth == [x \in R |-> x.nth]
<1>0. PICK n \in Nat : n = 6
  OBVIOUS
<1>1. nth \in Injection(R, 1 .. n)
  BY <1>0 DEF Injection, IsInjective
<1> HIDE DEF nth
<1>2. IsFiniteSet(1 .. n)
  BY FS_Interval
<1>3. IsFiniteSet(R)
  BY <1>1, <1>2, FS_Injection
<1> QED BY <1>3 DEF IsRejected

LEMMA Rejects ==
  ASSUME NEW source, NEW fields, DOMAIN fields \subseteq 1 .. 6
  PROVE  IsRejected(Refine(source, fields).rejections)
<1> DEFINE R == Refine(source, fields).rejections
           One(i) == [nth |-> i, source |-> source, field |-> fields[i].field,
                      reason |-> fields[i].caught[fields[i].res.error]]
<1>1. R = {} \/ \E wrong \in SUBSET DOMAIN fields : R = {One(i) : i \in wrong}
  BY DEF Refine, Raised, Reports
<1>2. \A i : One(i).nth = i
  OBVIOUS
<1> HIDE DEF R, One
<1> QED BY <1>1, <1>2, NumberedIsFinite, SMTT(30) DEF R

-----------------------------------------------------------------------------
(***************************************************************************)
(* The phases.                                                             *)
(***************************************************************************)
FieldsOf(stage) ==
  CASE stage = "selection" -> SelectionFields
    [] stage = "odd_tagging" -> OddTagFields
    [] stage = "auto_labeling" -> LabelFields
RecordOf(stage, rec) ==
  CASE stage = "selection" -> SelectionRecord(rec)
    [] stage = "odd_tagging" -> OddTagRecord(rec)
    [] stage = "auto_labeling" -> LabelRecord(rec)

LEMMA SelectionRejects ==
  ASSUME NEW row
  PROVE  IsRejected(RefineSelection(row).rejections)
<1>1. \A source : IsRejected(RefineV1(source, row).rejections)
  BY Rejects DEF RefineV1
<1>2. \A source : IsRejected(RefineV2(source, row).rejections)
  BY Rejects DEF RefineV2
<1>3. \A source, field : IsRejected(Refine(source, <<field>>).rejections)
  BY Rejects
<1> QED BY <1>1, <1>2, <1>3 DEF RefineSelection

LEMMA Singles ==
  ASSUME NEW stage \in Stages, NEW cells \in [FieldsOf(stage) -> Cells], NEW ids
  PROVE  /\ IsRejected(RefineSingle(stage, cells, ids).rejections)
         /\ RefineSingle(stage, cells, ids).record # None =>
              RecordOf(stage, RefineSingle(stage, cells, ids).record)
<1> DEFINE one == RefineSingle(stage, cells, ids)
<1>1. IsRejected({}) /\ \A x : x.nth = 1 => IsRejected({x})
  BY NumberedIsFinite
<1>2. ASSUME NEW refined, IsRejected(refined.rejections)
      PROVE  /\ IsRejected(Link(stage, refined, ids).rejections)
             /\ Link(stage, refined, ids).record # None =>
                  Link(stage, refined, ids).record = refined.record
  BY <1>1, <1>2 DEF Link
<1>3. CASE stage = "selection"
  BY <1>3, SelectionRejects, SelectionRecords DEF RefineSingle, FieldsOf, RecordOf
<1>4. CASE stage = "odd_tagging"
  <2> DEFINE refined == RefineOddTag(cells)
  <2>1. IsRejected(refined.rejections)
    BY <1>1, Rejects DEF RefineOddTag, OddTag, Raised
  <2>2. one = Link(stage, refined, ids) /\ cells \in [OddTagFields -> Cells]
    BY <1>4 DEF RefineSingle, FieldsOf
  <2>3. refined.record # None => OddTagRecord(refined.record)
    BY <2>2, OddTagRecords
  <2>4. RecordOf(stage, one.record) <=> OddTagRecord(one.record)
    BY <1>4 DEF RecordOf
  <2> HIDE DEF refined, one
  <2>5. IsRejected(one.rejections) /\ (one.record # None => one.record = refined.record)
    BY <1>2, <2>1, <2>2
  <2> QED BY <2>3, <2>4, <2>5 DEF one
<1>5. CASE stage = "auto_labeling"
  <2> DEFINE refined == RefineLabel(cells)
  <2>1. IsRejected(refined.rejections)
    BY Rejects DEF RefineLabel
  <2>2. one = Link(stage, refined, ids) /\ cells \in [LabelFields -> Cells]
    BY <1>5 DEF RefineSingle, FieldsOf
  <2>3. refined.record # None => LabelRecord(refined.record)
    BY <2>2, LabelRecords
  <2>4. RecordOf(stage, one.record) <=> LabelRecord(one.record)
    BY <1>5 DEF RecordOf
  <2> HIDE DEF refined, one
  <2>5. IsRejected(one.rejections) /\ (one.record # None => one.record = refined.record)
    BY <1>2, <2>1, <2>2
  <2> QED BY <2>3, <2>4, <2>5 DEF one
<1> QED BY <1>3, <1>4, <1>5 DEF Stages

\* The columns of the three tables.
SelectionTyped(s) ==
  /\ s.task \in Tasks /\ s.id \in 1 .. MaxInt /\ s.recordedAt \in Int
  /\ s.temperature \in Temperatures
  /\ s.wiper.active \in BOOLEAN /\ s.wiper.level \in Opt(0 .. 3)
  /\ s.headlightsOn \in BOOLEAN /\ s.sourcePath.length <= MaxPath
OddTagTyped(o) ==
  /\ o.task \in Tasks /\ o.video \in 1 .. MaxInt /\ o.weather \in Weather
  /\ o.time_of_day \in TimeOfDay /\ o.road_surface \in RoadSurface
LabelTyped(l) ==
  /\ l.task \in Tasks /\ l.video \in 1 .. MaxInt /\ l.object_class \in ObjectClass
  /\ l.count \in 0 .. MaxInt /\ l.confidence \in 0 .. 1000 /\ l.labeled_at \in Int
RowTyped(stage, x) ==
  CASE stage = "selection" -> SelectionTyped(x)
    [] stage = "odd_tagging" -> OddTagTyped(x)
    [] stage = "auto_labeling" -> LabelTyped(x)

LEMMA Clamped ==
  /\ \A n \in Nat \ {0} : Clamp(n) \in 1 .. MaxInt
  /\ \A n \in Nat : Clamp(n) \in 0 .. MaxInt
  /\ \A path \in Paths : /\ CutPath(path).length <= MaxPath
                         /\ CutPath(path).suffix # ".mp4" => path.length > MaxPath
<1>1. MaxInt \in Nat \ {0} /\ MaxPath \in Nat \ {0}
  BY DataAssumption
<1>2. \A n \in Int : Clamp(n) = IF n <= MaxInt THEN n ELSE MaxInt
  BY <1>1, SmallerOf DEF Clamp
<1>3. \A path \in Paths : /\ CutPath(path).length <= MaxPath
                          /\ CutPath(path).suffix # ".mp4" => path.length > MaxPath
  <2>1. ASSUME NEW path \in Paths, path.length <= MaxPath PROVE CutPath(path) = path /\ path.suffix = ".mp4"
    BY <2>1 DEF CutPath, Paths
  <2>2. ASSUME NEW path \in Paths, ~(path.length <= MaxPath)
        PROVE  CutPath(path).length = MaxPath /\ path.length > MaxPath
    BY <1>1, <2>2 DEF CutPath, Paths
  <2> QED BY <1>1, <2>1, <2>2
<1> QED BY <1>1, <1>2, <1>3

LEMMA RowsAreTyped ==
  ASSUME NEW stage \in Stages, NEW t \in Tasks, NEW rec, RecordOf(stage, rec)
  PROVE  RowTyped(stage, Row(stage, t, rec)) /\ Row(stage, t, rec).task = t
<1>1. CASE stage = "selection"
  <2>1. SelectionRecord(rec) /\ Row(stage, t, rec) = SelectionRow(t, rec)
    BY <1>1 DEF RecordOf, Row
  <2>2. /\ SelectionRow(t, rec).wiper.active \in BOOLEAN
        /\ SelectionRow(t, rec).wiper.level \in Opt(0 .. 3)
        /\ SelectionRow(t, rec).wiper = rec.wiper
    BY <2>1 DEF SelectionRow, SelectionRecord, Wipers
  <2>3. SelectionTyped(SelectionRow(t, rec)) /\ SelectionRow(t, rec).task = t
    <3>1. /\ Clamp(rec.id) \in 1 .. MaxInt /\ CutPath(rec.sourcePath).length <= MaxPath
      <4>1. rec.id \in Nat \ {0} /\ rec.sourcePath \in Paths
        BY <2>1 DEF SelectionRecord
      <4> QED BY <4>1, Clamped
    <3> QED BY <2>1, <2>2, <3>1 DEF SelectionRow, SelectionRecord, SelectionTyped
  <2> QED BY <1>1, <2>1, <2>3 DEF RowTyped
<1>2. CASE stage = "odd_tagging"
  BY <1>2, Clamped DEF RecordOf, Row, OddTagRecord, OddTagRow, OddTagTyped, RowTyped
<1>3. CASE stage = "auto_labeling"
  BY <1>3, Clamped DEF RecordOf, Row, LabelRecord, LabelRow, LabelTyped, RowTyped
<1> QED BY <1>1, <1>2, <1>3 DEF Stages

LEMMA EvaluatedIsItself ==
  ASSUME NEW n \in Nat, NEW f, f = [i \in 1 .. n |-> f[i]]
  PROVE  Evaluated(f) = f /\ Len(f) = n
<1>1. f \in Seq({f[i] : i \in 1 .. n})
  OBVIOUS
<1> QED BY <1>1, f = [i \in 1 .. n |-> f[i]] DEF Evaluated

LEMMA ImageIsFinite ==
  ASSUME NEW S, IsFiniteSet(S), NEW f, S \subseteq DOMAIN f
  PROVE  IsFiniteSet({f[x] : x \in S})
<1> DEFINE T == {f[x] : x \in S}
           g == [x \in S |-> f[x]]
<1>1. g \in Surjection(S, T)
  BY DEF Surjection
<1> HIDE DEF g
<1> QED BY <1>1, FS_Surjection

LEMMA ImageIsAsLarge ==
  ASSUME NEW f, NEW S, S \subseteq DOMAIN f, IsFiniteSet(S),
         \A x, y \in S : f[x] = f[y] => x = y
  PROVE  Cardinality({f[x] : x \in S}) = Cardinality(S)
<1> DEFINE T == {f[x] : x \in S}
           g == [x \in S |-> f[x]]
<1>1. g \in Surjection(S, T) /\ g \in Injection(S, T)
  BY DEF Surjection, Injection, IsInjective
<1> HIDE DEF g
<1>2. Cardinality(T) = Cardinality(S)
  BY <1>1, FS_Surjection
<1> QED BY <1>2

\* A phase only adds rows to its table, its own and with keys the table did not have.
Keyed(stage, table) == \A x, y \in table : Key(stage, x) = Key(stage, y) => x = y
Stores(t, stage, table, new) ==
  /\ table \subseteq new /\ IsFiniteSet(new) /\ Keyed(stage, new)
  /\ \A x \in new \ table : RowTyped(stage, x) /\ x.task = t

\* Its rejections have preliminary ids of their own.
Numbers(t, stage, R) ==
  /\ IsFiniteSet(R)
  /\ \A x, y \in R : /\ {"id", "task", "stage"} \subseteq DOMAIN x
                     /\ x.task = t /\ x.stage = stage /\ x.id \in Nat
                     /\ x.id < 8 * (MaxRows + 2)
                     /\ x.id = y.id => x = y

\* Its progress counts the rows it added and its rejections.
OwnRows(table, t) == {x \in table : x.task = t}
Tallied(t, table, p) ==
  /\ OwnRows(table, t) = {} => p.progress.processed = Cardinality(OwnRows(p.table, t))
  /\ p.progress.rejected = Cardinality(p.rejections)

LEMMA RefinedRows ==
  ASSUME NEW stage \in Stages, NEW file \in File(FieldsOf(stage)), NEW ids, NEW refined,
         refined = [i \in DOMAIN file |-> refined[i]],
         \A i \in DOMAIN file : refined[i] = RefineSingle(stage, file[i].cells, ids)
  PROVE  /\ Len(file) \in Nat /\ Len(file) <= MaxRows /\ DOMAIN file = 1 .. Len(file)
         /\ Evaluated(refined) = refined /\ DOMAIN refined = 1 .. Len(file)
         /\ Len(refined) = Len(file)
         /\ \A i \in 1 .. Len(file) :
              /\ IsRejected(refined[i].rejections)
              /\ refined[i].record # None => RecordOf(stage, refined[i].record)
<1>1. /\ Len(file) \in Nat /\ Len(file) <= MaxRows /\ DOMAIN file = 1 .. Len(file)
      /\ \A i \in 1 .. Len(file) : file[i] \in RawRows(FieldsOf(stage))
  BY DEF File
<1>2. \A i \in 1 .. Len(file) : file[i].cells \in [FieldsOf(stage) -> Cells]
  BY <1>1 DEF RawRows
<1>3. \A i \in 1 .. Len(file) : refined[i] = RefineSingle(stage, file[i].cells, ids)
  BY <1>1
<1>4. refined = [i \in 1 .. Len(file) |-> refined[i]]
  BY <1>1
<1>5. Evaluated(refined) = refined /\ DOMAIN refined = 1 .. Len(file) /\ Len(refined) = Len(file)
  BY <1>1, <1>4, EvaluatedIsItself
<1> QED BY <1>1, <1>2, <1>3, <1>5, Singles

LEMMA OwnAreNumbered ==
  ASSUME NEW stage, NEW t, NEW n \in Nat, NEW refined, n <= MaxRows, DOMAIN refined = 1 .. n,
         Len(refined) = n, \A i \in 1 .. n : IsRejected(refined[i].rejections), NEW ignored
  PROVE  Numbers(t, stage, Rejections(t, stage, refined, ignored))
<1> DEFINE R == Rejections(t, stage, refined, ignored)
           top == 8 * (MaxRows + 2)
<1>0. MaxRows \in Nat /\ top \in Nat
  BY DataAssumption
<1> DEFINE Own == OwnRejections(t, stage, refined)
           Extra == R \ Own
<1>1. ASSUME NEW x \in Own
      PROVE  \E i \in 1 .. n : \E y \in refined[i].rejections :
               /\ y.nth \in 1 .. 6 /\ x = Rejection(t, stage, i, y)
               /\ x.id = 8 * i + y.nth /\ x.task = t /\ x.stage = stage
               /\ {"id", "task", "stage"} \subseteq DOMAIN x
  <2>1. PICK i \in 1 .. n : x \in {Rejection(t, stage, i, y) : y \in refined[i].rejections}
    BY DEF OwnRejections
  <2>2. PICK y \in refined[i].rejections : x = Rejection(t, stage, i, y)
    BY <2>1
  <2>3. y.nth \in 1 .. 6
    BY DEF IsRejected
  <2>4. /\ x.id = 8 * i + y.nth /\ x.task = t /\ x.stage = stage
        /\ {"id", "task", "stage"} \subseteq DOMAIN x
    BY <2>2 DEF Rejection
  <2> QED BY <2>2, <2>3, <2>4
<1>2. /\ \A x \in Extra : /\ x.id = 8 * (n + 1) + 1 /\ x.task = t /\ x.stage = stage
                          /\ {"id", "task", "stage"} \subseteq DOMAIN x
      /\ \A x, y \in Extra : x = y
  BY DEF Rejections, Rejection
<1> HIDE DEF R, Own, top
<1>3. ASSUME NEW x \in R
      PROVE  /\ {"id", "task", "stage"} \subseteq DOMAIN x
             /\ x.task = t /\ x.stage = stage /\ x.id \in Nat /\ x.id < top
  <2>1. CASE x \in Own
    <3>1. PICK i \in 1 .. n : \E y \in refined[i].rejections :
            /\ y.nth \in 1 .. 6 /\ x.id = 8 * i + y.nth /\ x.task = t /\ x.stage = stage
            /\ {"id", "task", "stage"} \subseteq DOMAIN x
      BY <1>1, <2>1
    <3> QED BY <1>0, <3>1 DEF top
  <2>2. CASE x \in Extra
    BY <1>0, <1>2, <2>2 DEF top
  <2> QED BY <1>3, <2>1, <2>2
<1>4. ASSUME NEW x \in Own, NEW y \in R, x.id = y.id PROVE x = y
  <2>1. PICK i \in 1 .. n : \E a \in refined[i].rejections :
          a.nth \in 1 .. 6 /\ x = Rejection(t, stage, i, a) /\ x.id = 8 * i + a.nth
    BY <1>1
  <2>2. PICK a \in refined[i].rejections :
          a.nth \in 1 .. 6 /\ x = Rejection(t, stage, i, a) /\ x.id = 8 * i + a.nth
    BY <2>1
  <2>3. CASE y \in Own
    <3>1. PICK j \in 1 .. n : \E b \in refined[j].rejections :
            b.nth \in 1 .. 6 /\ y = Rejection(t, stage, j, b) /\ y.id = 8 * j + b.nth
      BY <1>1, <2>3
    <3>2. PICK b \in refined[j].rejections :
            b.nth \in 1 .. 6 /\ y = Rejection(t, stage, j, b) /\ y.id = 8 * j + b.nth
      BY <3>1
    <3>3. i = j /\ a.nth = b.nth
      <4>1. i \in Int /\ j \in Int /\ 8 * i + a.nth = 8 * j + b.nth
        BY <1>4, <2>2, <3>2
      <4>2. \A k \in 1 .. 6 : k \in Int /\ 0 < k /\ k < 8
        OBVIOUS
      <4>3. \A k, l \in Int : 0 < k /\ k < 8 /\ 0 < l /\ l < 8 /\ 8 * i + k = 8 * j + l =>
              i = j /\ k = l
        BY <4>1
      <4> QED BY <2>2, <3>2, <4>1, <4>2, <4>3
    <3>4. a = b
      BY <3>3 DEF IsRejected
    <3> QED BY <2>2, <3>2, <3>3, <3>4
  <2>4. CASE y \in Extra
    BY <1>2, <1>4, <2>2, <2>4
  <2> QED BY <2>3, <2>4
<1>5. \A x, y \in R : x.id = y.id => x = y
  BY <1>2, <1>4
<1>6. IsFiniteSet(R)
  <2> DEFINE id == [x \in R |-> x.id]
  <2>1. id \in Injection(R, 0 .. top)
    BY <1>0, <1>3, <1>5 DEF Injection, IsInjective
  <2> HIDE DEF id
  <2>2. IsFiniteSet(0 .. top)
    BY <1>0, FS_Interval
  <2> QED BY <2>1, <2>2, FS_Injection
<1> QED BY <1>3, <1>5, <1>6 DEF Numbers, R, top

LEMMA ChunkStores ==
  ASSUME NEW stage \in Stages, NEW t \in Tasks, NEW table, IsFiniteSet(table),
         Keyed(stage, table), NEW n \in Nat, n <= MaxRows, NEW refined,
         DOMAIN refined = 1 .. n, Len(refined) = n,
         \A i \in 1 .. n : /\ IsRejected(refined[i].rejections)
                           /\ refined[i].record # None => RecordOf(stage, refined[i].record)
  PROVE  /\ Stores(t, stage, table, Chunk(t, stage, refined, table).table)
         /\ Numbers(t, stage, Chunk(t, stage, refined, table).rejections)
         /\ Chunk(t, stage, refined, table).progress \in
              [total : Nat, processed : Nat, rejected : Nat]
         /\ Tallied(t, table, Chunk(t, stage, refined, table))
<1> DEFINE accepted == {i \in DOMAIN refined : refined[i].record # None}
           row == [i \in accepted |-> Row(stage, t, refined[i].record)]
           keys == [i \in accepted |-> Key(stage, row[i])]
           ignored == Ignored({Key(stage, x) : x \in table}, keys)
           rejections == Rejections(t, stage, refined, ignored)
           added == {row[i] : i \in accepted \ ignored}
           p == Chunk(t, stage, refined, table)
<1>2. /\ p.table = table \union added /\ p.rejections = rejections
      /\ p.progress = PhaseProgress(n, Cardinality(accepted \ ignored), Cardinality(rejections),
                                    Cardinality(ignored))
  BY DEF Chunk
<1> HIDE DEF p
<1>3. Numbers(t, stage, rejections)
  BY OwnAreNumbered
<1>4. accepted \ ignored \subseteq 1 .. n /\ IsFiniteSet(accepted \ ignored)
  <2>1. accepted \ ignored \in SUBSET (1 .. n) /\ IsFiniteSet(1 .. n)
    BY FS_Interval
  <2> QED BY <2>1, FS_Subset
<1>5. \A i \in accepted : RowTyped(stage, row[i]) /\ row[i].task = t
  BY RowsAreTyped
<1>6. ASSUME NEW i \in accepted \ ignored
      PROVE  /\ \A x \in table : Key(stage, row[i]) # Key(stage, x)
             /\ \A j \in accepted : j < i => Key(stage, row[i]) # Key(stage, row[j])
  <2>1. keys[i] \notin {Key(stage, x) : x \in table} \union
                       {keys[j] : j \in {k \in DOMAIN keys : k < i}}
    BY DEF Ignored
  <2> QED BY <2>1
<1>7. IsFiniteSet(added)
  <2>1. accepted \ ignored \subseteq DOMAIN row
    OBVIOUS
  <2> HIDE DEF row, ignored, accepted
  <2> QED BY <1>4, <2>1, ImageIsFinite
<1>13. ASSUME NEW i \in accepted \ ignored, NEW j \in accepted \ ignored,
              Key(stage, row[i]) = Key(stage, row[j])
       PROVE  i = j
  <2>1. i \in accepted /\ j \in accepted
    OBVIOUS
  <2> HIDE DEF row, ignored, accepted
  <2>2. ~(i < j) /\ ~(j < i)
    BY <1>6, <1>13, <2>1
  <2>3. i \in Int /\ j \in Int
    BY <1>4
  <2> QED BY <2>2, <2>3
<1>8. Keyed(stage, table \union added)
  <2> HIDE DEF row, ignored, accepted
  <2>2. \A x \in added : \E i \in accepted \ ignored : x = row[i]
    OBVIOUS
  <2>3. \A x \in added, y \in table : Key(stage, x) # Key(stage, y)
    BY <1>6, <2>2
  <2>4. \A x, y \in added : Key(stage, x) = Key(stage, y) => x = y
    BY <1>13, <2>2
  <2> QED BY <2>3, <2>4 DEF Keyed
<1>14. Cardinality(added) = Cardinality(accepted \ ignored)
  <2>1. accepted \ ignored \subseteq DOMAIN row
    OBVIOUS
  <2> HIDE DEF row, ignored, accepted
  <2>2. \A i, j \in accepted \ ignored : row[i] = row[j] => i = j
    BY <1>13
  <2> QED BY <1>4, <2>1, <2>2, ImageIsAsLarge
<1>15. \A x \in added : x.task = t
  BY <1>5
<1>9. IsFiniteSet(table \union added)
  BY <1>7, FS_Union
<1>10. Stores(t, stage, table, table \union added)
  BY <1>5, <1>8, <1>9 DEF Stores
<1>11. Cardinality(accepted \ ignored) \in Nat /\ Cardinality(rejections) \in Nat
  BY <1>3, <1>4, FS_CardinalityType DEF Numbers
<1> HIDE DEF accepted, ignored, rejections, added
<1>12. p.progress \in [total : Nat, processed : Nat, rejected : Nat]
  BY <1>2, <1>11 DEF PhaseProgress
<1>16. Tallied(t, table, p)
  <2>1. ASSUME OwnRows(table, t) = {} PROVE OwnRows(p.table, t) = added
    BY <1>2, <1>15, <2>1 DEF OwnRows
  <2> QED BY <1>2, <1>14, <2>1 DEF Tallied, PhaseProgress
<1> QED BY <1>2, <1>3, <1>10, <1>12, <1>16 DEF p

\* A phase is the chunk of its refined rows.
RowsOf(refined, stage, file, ids) ==
  /\ Len(file) \in Nat /\ Len(file) <= MaxRows
  /\ DOMAIN file = 1 .. Len(file) /\ DOMAIN refined = 1 .. Len(file)
  /\ Len(refined) = Len(file)
  /\ \A i \in 1 .. Len(file) :
       /\ file[i].cells \in [FieldsOf(stage) -> Cells]
       /\ refined[i] = RefineSingle(stage, file[i].cells, ids)
       /\ IsRejected(refined[i].rejections)
       /\ refined[i].record # None => RecordOf(stage, refined[i].record)

LEMMA PhaseIsChunk ==
  ASSUME NEW stage \in Stages, NEW t, NEW file \in File(FieldsOf(stage)), NEW table, NEW ids
  PROVE  \E refined : /\ Phase(t, stage, file, table, ids) = Chunk(t, stage, refined, table)
                      /\ RowsOf(refined, stage, file, ids)
<1> DEFINE refined == [i \in DOMAIN file |-> RefineSingle(stage, file[i].cells, ids)]
<1>1. Phase(t, stage, file, table, ids) = Chunk(t, stage, Evaluated(refined), table)
  BY DEF Phase
<1>2. /\ refined = [i \in DOMAIN file |-> refined[i]]
      /\ \A i \in DOMAIN file : refined[i] = RefineSingle(stage, file[i].cells, ids)
  OBVIOUS
<1> HIDE DEF refined
<1>3. /\ Len(file) \in Nat /\ Len(file) <= MaxRows /\ DOMAIN file = 1 .. Len(file)
      /\ Evaluated(refined) = refined /\ DOMAIN refined = 1 .. Len(file)
      /\ Len(refined) = Len(file)
      /\ \A i \in 1 .. Len(file) :
           /\ IsRejected(refined[i].rejections)
           /\ refined[i].record # None => RecordOf(stage, refined[i].record)
  BY <1>2, RefinedRows, ZenonT(60)
<1>4. \A i \in 1 .. Len(file) : file[i].cells \in [FieldsOf(stage) -> Cells]
  <2>1. \A i \in 1 .. Len(file) : file[i] \in RawRows(FieldsOf(stage))
    BY <1>3 DEF File
  <2> QED BY <2>1 DEF RawRows
<1>5. RowsOf(refined, stage, file, ids)
  BY <1>2, <1>3, <1>4 DEF RowsOf
<1> QED BY <1>1, <1>3, <1>5

LEMMA PhaseStores ==
  ASSUME NEW stage \in Stages, NEW t \in Tasks, NEW file \in File(FieldsOf(stage)), NEW table,
         NEW ids, IsFiniteSet(table), Keyed(stage, table)
  PROVE  /\ Stores(t, stage, table, Phase(t, stage, file, table, ids).table)
         /\ Numbers(t, stage, Phase(t, stage, file, table, ids).rejections)
         /\ Phase(t, stage, file, table, ids).progress \in
              [total : Nat, processed : Nat, rejected : Nat]
         /\ Tallied(t, table, Phase(t, stage, file, table, ids))
<1>1. PICK refined : /\ Phase(t, stage, file, table, ids) = Chunk(t, stage, refined, table)
                     /\ RowsOf(refined, stage, file, ids)
  BY PhaseIsChunk
<1> QED BY <1>1, ChunkStores DEF RowsOf

-----------------------------------------------------------------------------
(***************************************************************************)
(* The tables.                                                             *)
(***************************************************************************)
Width == 8 * (MaxRows + 2)     \* ids for the rejections of a phase
Stride == 24 * (MaxRows + 2)   \* and for those of a task

LEMMA Widths ==
  /\ Width \in Nat /\ Stride \in Nat /\ Stride = 3 * Width /\ Width > 0
  /\ \A b \in Nat : b * Stride \in Nat /\ (b + 1) * Stride = b * Stride + Stride
  /\ \A b, c \in Nat : b < c => (b + 1) * Stride <= c * Stride
<1>1. Width \in Nat /\ Stride \in Nat /\ Stride = 3 * Width /\ Width > 0
  BY DataAssumption DEF Width, Stride
<1>2. \A s \in Nat, b \in Nat : b * s \in Nat /\ (b + 1) * s = b * s + s
  OBVIOUS
<1>3. ASSUME NEW s \in Nat, NEW b \in Nat, NEW c \in Nat, b < c PROVE (b + 1) * s <= c * s
  <2>1. PICK d \in Nat : c = b + 1 + d
    <3>1. c - (b + 1) \in Nat /\ c = b + 1 + (c - (b + 1))
      BY <1>3
    <3> QED BY <3>1
  <2>2. c * s = (b + 1) * s + d * s /\ d * s \in Nat /\ (b + 1) * s \in Nat
    BY <2>1
  <2> QED BY <2>2
<1> QED BY <1>1, <1>2, <1>3

\* The ids a block has for the phases follow one another.
LEMMA FirstIds ==
  ASSUME NEW block \in Nat
  PROVE  /\ FirstId(block, "selection") = block * Stride
         /\ FirstId(block, "odd_tagging") = block * Stride + Width
         /\ FirstId(block, "auto_labeling") = block * Stride + 2 * Width
<1>1. MaxRows \in Nat
  BY DataAssumption
<1>2. \A w \in Nat : /\ (3 * block + 0) * 8 * w = block * (24 * w)
                     /\ (3 * block + 1) * 8 * w = block * (24 * w) + 8 * w
                     /\ (3 * block + 2) * 8 * w = block * (24 * w) + 2 * (8 * w)
  OBVIOUS
<1>3. MaxRows + 2 \in Nat
  BY <1>1
<1> QED BY <1>2, <1>3 DEF FirstId, Stride, Width

LEMMA Renumbered ==
  ASSUME NEW block \in Nat, NEW s \in Stages, NEW i \in Nat, i < Width
  PROVE  /\ FirstId(block, s) + i \in Nat
         /\ block * Stride <= FirstId(block, s) + i
         /\ FirstId(block, s) + i < (block + 1) * Stride
         /\ \A u \in Stages, j \in Nat :
              j < Width /\ FirstId(block, s) + i = FirstId(block, u) + j => s = u /\ i = j
<1> DEFINE base == block * Stride
<1>1. /\ FirstId(block, "selection") = base
      /\ FirstId(block, "odd_tagging") = base + Width
      /\ FirstId(block, "auto_labeling") = base + 2 * Width
  BY FirstIds
<1>2. base \in Nat /\ (block + 1) * Stride = base + 3 * Width /\ Width \in Nat
  BY Widths
<1> HIDE DEF base
<1>3. \A u \in Stages : \/ u = "selection" /\ FirstId(block, u) = base
                        \/ u = "odd_tagging" /\ FirstId(block, u) = base + Width
                        \/ u = "auto_labeling" /\ FirstId(block, u) = base + 2 * Width
  BY <1>1 DEF Stages
<1>4. /\ FirstId(block, s) + i \in Nat /\ base <= FirstId(block, s) + i
      /\ FirstId(block, s) + i < base + 3 * Width
  BY <1>2, <1>3
<1>5. ASSUME NEW u \in Stages, NEW j \in Nat, j < Width,
             FirstId(block, s) + i = FirstId(block, u) + j
      PROVE  s = u /\ i = j
  BY <1>2, <1>3, <1>5
<1> QED BY <1>2, <1>4, <1>5 DEF base

FiniteTables ==
  IsFiniteSet(db.selections) /\ IsFiniteSet(db.oddTags) /\ IsFiniteSet(db.labels)
    /\ IsFiniteSet(db.rejections)

\* No two rows have the same key.
Keys ==
  /\ Keyed("selection", db.selections) /\ Keyed("odd_tagging", db.oddTags)
  /\ Keyed("auto_labeling", db.labels)
  /\ \A x, y \in db.rejections : x.id = y.id => x = y

\* Each task whose rows are stored has a block of ids of its own, and its rejections are in it.
Blocks ==
  /\ \A t, u \in Tasks : blocks[t] = blocks[u] => t = u \/ blocks[t] = 0
  /\ \A r \in db.rejections :
       /\ blocks[r.task] # 0
       /\ blocks[r.task] * Stride <= r.id /\ r.id < (blocks[r.task] + 1) * Stride

TablesTyped ==
  /\ raw \in [Tasks -> Files]
  /\ \A s \in db.selections : SelectionTyped(s)
  /\ \A o \in db.oddTags : OddTagTyped(o)
  /\ \A l \in db.labels : LabelTyped(l)
  /\ \A r \in db.rejections : r.id \in Nat /\ r.task \in Tasks /\ r.stage \in Stages
  /\ \A t \in Tasks : /\ tasks[t].status \in {"pending", "processing", "completed", "failed"}
                      /\ tasks[t].progress \in Progresses
                      /\ {"status", "error", "progress", "result"} = DOMAIN tasks[t]
  /\ tasks = [t \in Tasks |-> tasks[t]]
  /\ analysis.task \in Opt(Tasks) /\ analysis.over \subseteq Stages
  /\ blocks \in [Tasks -> 0 .. Cardinality(Tasks)]

Tables == TablesTyped /\ FiniteTables /\ Keys /\ Blocks

Grows ==
  /\ db.selections \subseteq db'.selections /\ db.oddTags \subseteq db'.oddTags
  /\ db.labels \subseteq db'.labels /\ db.rejections \subseteq db'.rejections

LEMMA PhasesStore ==
  ASSUME Tables, NEW t \in Tasks, NEW ids
  PROVE  /\ Stores(t, "selection", db.selections, SelectionPhase(t).table)
         /\ Stores(t, "odd_tagging", db.oddTags, OddTagPhase(t, ids).table)
         /\ Stores(t, "auto_labeling", db.labels, LabelPhase(t, ids).table)
         /\ Numbers(t, "selection", SelectionPhase(t).rejections)
         /\ Numbers(t, "odd_tagging", OddTagPhase(t, ids).rejections)
         /\ Numbers(t, "auto_labeling", LabelPhase(t, ids).rejections)
         /\ SelectionPhase(t).progress \in [total : Nat, processed : Nat, rejected : Nat]
         /\ OddTagPhase(t, ids).progress \in [total : Nat, processed : Nat, rejected : Nat]
         /\ LabelPhase(t, ids).progress \in [total : Nat, processed : Nat, rejected : Nat]
         /\ Tallied(t, db.selections, SelectionPhase(t))
         /\ Tallied(t, db.oddTags, OddTagPhase(t, ids))
         /\ Tallied(t, db.labels, LabelPhase(t, ids))
<1>1. /\ raw[t].selections \in File(FieldsOf("selection"))
      /\ raw[t].odds \in File(FieldsOf("odd_tagging"))
      /\ raw[t].labels \in File(FieldsOf("auto_labeling"))
  BY DEF Tables, TablesTyped, Files, FieldsOf
<1>2. "selection" \in Stages /\ "odd_tagging" \in Stages /\ "auto_labeling" \in Stages
  BY DEF Stages
<1>3. /\ IsFiniteSet(db.selections) /\ IsFiniteSet(db.oddTags) /\ IsFiniteSet(db.labels)
      /\ Keyed("selection", db.selections) /\ Keyed("odd_tagging", db.oddTags)
      /\ Keyed("auto_labeling", db.labels)
  BY DEF Tables, FiniteTables, Keys
<1>4. /\ Stores(t, "selection", db.selections, SelectionPhase(t).table)
      /\ Numbers(t, "selection", SelectionPhase(t).rejections)
      /\ SelectionPhase(t).progress \in [total : Nat, processed : Nat, rejected : Nat]
      /\ Tallied(t, db.selections, SelectionPhase(t))
  BY <1>1, <1>2, <1>3, PhaseStores DEF SelectionPhase
<1>5. /\ Stores(t, "odd_tagging", db.oddTags, OddTagPhase(t, ids).table)
      /\ Numbers(t, "odd_tagging", OddTagPhase(t, ids).rejections)
      /\ OddTagPhase(t, ids).progress \in [total : Nat, processed : Nat, rejected : Nat]
      /\ Tallied(t, db.oddTags, OddTagPhase(t, ids))
  BY <1>1, <1>2, <1>3, PhaseStores DEF OddTagPhase
<1>6. /\ Stores(t, "auto_labeling", db.labels, LabelPhase(t, ids).table)
      /\ Numbers(t, "auto_labeling", LabelPhase(t, ids).rejections)
      /\ LabelPhase(t, ids).progress \in [total : Nat, processed : Nat, rejected : Nat]
      /\ Tallied(t, db.labels, LabelPhase(t, ids))
  BY <1>1, <1>2, <1>3, PhaseStores DEF LabelPhase
<1> QED BY <1>4, <1>5, <1>6

-----------------------------------------------------------------------------
(***************************************************************************)
(* The documents: a task whose rows are stored is COMPLETED; one under way *)
(* says of the phases that are over what they have made of its files.      *)
(***************************************************************************)
IsDocument(doc) ==
  /\ doc.status \in {"pending", "processing", "completed", "failed"} /\ doc.progress \in Progresses
  /\ {"status", "error", "progress", "result"} = DOMAIN doc
Fresh(doc) ==
  \A stage \in Stages : doc.progress[stage].processed = 0 /\ doc.progress[stage].rejected = 0
Reached(t, stage) ==
  IF stage \in analysis.over
  THEN /\ Outcome(t, stage).raised = None
       /\ tasks[t].progress[stage] = Outcome(t, stage).progress
  ELSE tasks[t].progress[stage].processed = 0 /\ tasks[t].progress[stage].rejected = 0
Totalled(t) ==
  tasks[t].result = BuildResult(t, Outcome(t, "selection").table, Outcome(t, "odd_tagging").table,
                                Outcome(t, "auto_labeling").table, tasks[t].progress)
Documented(t) ==
  \/ t \in Stored /\ tasks[t].status = "completed" /\ analysis.task # t
  \/ /\ t \notin Stored /\ tasks[t].status \in {"pending", "failed"} /\ analysis.task # t
     /\ Fresh(tasks[t])
  \/ /\ t \notin Stored /\ analysis.task = t /\ \A stage \in Stages : Reached(t, stage)
     /\ \/ tasks[t].status = "processing"
        \/ tasks[t].status = "completed" /\ analysis.over = Stages /\ Totalled(t)
Documents == \A t \in Tasks : Documented(t)

LEMMA FilesAreCounted ==
  ASSUME NEW fields, NEW file \in File(fields)
  PROVE  Len(file) \in Nat
BY DEF File

LEMMA DocumentsStart ==
  ASSUME NEW t \in Tasks, raw[t] \in Files
  PROVE  IsDocument(NotStarted(t)) /\ Fresh(NotStarted(t)) /\ NotStarted(t).status = "pending"
<1> DEFINE counts == [selection |-> Len(raw[t].selections), odd_tagging |-> Len(raw[t].odds),
                      auto_labeling |-> Len(raw[t].labels)]
<1>1. counts \in [Stages -> Nat]
  <2>1. /\ raw[t].selections \in File(SelectionFields) /\ raw[t].odds \in File(OddTagFields)
        /\ raw[t].labels \in File(LabelFields)
    BY DEF Files
  <2>2. /\ Len(raw[t].selections) \in Nat /\ Len(raw[t].odds) \in Nat /\ Len(raw[t].labels) \in Nat
    BY <2>1, FilesAreCounted
  <2> HIDE DEF Stages
  <2> QED BY <2>2 DEF Stages
<1>2. NotStarted(t) = [status |-> "pending", error |-> None, result |-> None,
                       progress |-> [stage \in Stages |->
                                      [total |-> counts[stage], processed |-> 0, rejected |-> 0]]]
  BY DEF NotStarted
<1> HIDE DEF counts
<1> QED BY <1>1, <1>2 DEF IsDocument, Fresh, Progresses

LEMMA OutcomesOf ==
  ASSUME NEW t
  PROVE  /\ Outcome(t, "selection") = SelectionPhase(t)
         /\ Outcome(t, "odd_tagging") = OddTagPhase(t, SelectionIds(t))
         /\ Outcome(t, "auto_labeling") = LabelPhase(t, SelectionIds(t))
BY DEF Outcome

\* What the phases make of the files stays the same until something is stored.
LEMMA OutcomesStay ==
  ASSUME raw' = raw, db' = db, NEW t, NEW stage \in Stages
  PROVE  Outcome(t, stage)' = Outcome(t, stage)
<1>1. SelectionPhase(t)' = SelectionPhase(t)
  BY DEF SelectionPhase
<1>2. SelectionIds(t)' = SelectionIds(t)
  BY <1>1 DEF SelectionIds
<1>3. OddTagPhase(t, SelectionIds(t))' = OddTagPhase(t, SelectionIds(t))
  BY <1>2 DEF OddTagPhase
<1>4. LabelPhase(t, SelectionIds(t))' = LabelPhase(t, SelectionIds(t))
  BY <1>2 DEF LabelPhase
<1> QED BY <1>1, <1>3, <1>4 DEF Outcome, Stages

LEMMA OutcomesCount ==
  ASSUME Tables, NEW t \in Tasks, NEW stage \in Stages
  PROVE  Outcome(t, stage).progress \in [total : Nat, processed : Nat, rejected : Nat]
<1>1. \A ids : /\ SelectionPhase(t).progress \in [total : Nat, processed : Nat, rejected : Nat]
               /\ OddTagPhase(t, ids).progress \in [total : Nat, processed : Nat, rejected : Nat]
               /\ LabelPhase(t, ids).progress \in [total : Nat, processed : Nat, rejected : Nat]
  BY PhasesStore
<1> QED BY <1>1, OutcomesOf DEF Stages

LEMMA OthersDocumented ==
  ASSUME NEW u, Documented(u), analysis.task # u, analysis'.task # u, tasks'[u] = tasks[u],
         blocks'[u] = blocks[u]
  PROVE  Documented(u)'
<1>1. u \in Stored' <=> u \in Stored
  BY DEF Stored
<1> QED BY <1>1 DEF Documented, Fresh

LEMMA SameDocument ==
  ASSUME Documents, UNCHANGED <<raw, tasks, analysis, db, blocks>>
  PROVE  Documents'
<1>1. \A t, stage : stage \in Stages => Outcome(t, stage)' = Outcome(t, stage)
  BY OutcomesStay
<1>2. "selection" \in Stages /\ "odd_tagging" \in Stages /\ "auto_labeling" \in Stages
  BY DEF Stages
<1> SUFFICES ASSUME NEW t \in Tasks PROVE Documented(t)'
  BY DEF Documents
<1>3. Documented(t)
  BY DEF Documents
<1>4. Stored' = Stored
  BY DEF Stored
<1>5. \A stage \in Stages : Reached(t, stage)' <=> Reached(t, stage)
  BY <1>1 DEF Reached
<1>6. Totalled(t)' <=> Totalled(t)
  BY <1>1, <1>2 DEF Totalled
<1> QED BY <1>3, <1>4, <1>5, <1>6 DEF Documented, Fresh

\* A step of an analysis that only writes its document; it fails if some phase raises.
Writes(t) ==
  /\ UNCHANGED <<raw, db, blocks, walk>>
  /\ t \notin Stored
  /\ \A u \in Tasks \ {t} : tasks'[u] = tasks[u]
  /\ tasks' = [u \in Tasks |-> tasks'[u]] /\ IsDocument(tasks'[t])
  /\ analysis'.task \in Opt(Tasks) /\ analysis'.over \subseteq Stages
  /\ tasks'[t].status = "failed" => \E stage \in Stages : Outcome(t, stage).raised # None

\* Only the document of the task that is under way, or was, is to be looked at.
LEMMA WritesDocument ==
  ASSUME Documents, NEW t \in Tasks, Writes(t), analysis.task \in {None, t},
         analysis'.task \in {None, t}, Documented(t)'
  PROVE  Documents'
<1> SUFFICES ASSUME NEW u \in Tasks, u # t PROVE Documented(u)'
  BY DEF Documents
<1>1. u # None
  BY DataAssumption
<1> QED BY <1>1, OthersDocumented DEF Documents, Writes

LEMMA BeginWrites ==
  ASSUME Tables, Documents, NEW t \in Tasks, Begin(t)
  PROVE  Writes(t) /\ Documents'
<1>1. /\ analysis.task = None /\ analysis.over = {} /\ tasks[t].status = "pending"
      /\ analysis' = [task |-> t, over |-> {}]
      /\ tasks' = [tasks EXCEPT ![t].status = "processing"]
      /\ UNCHANGED <<raw, db, blocks, walk>>
  BY DEF Begin, Idle
<1>2. t # None /\ t \notin Stored /\ Fresh(tasks[t])
  BY <1>1, DataAssumption DEF Documents, Documented
<1>3. /\ \A u \in Tasks \ {t} : tasks'[u] = tasks[u]
      /\ tasks' = [u \in Tasks |-> tasks'[u]]
      /\ tasks'[t].status = "processing" /\ tasks'[t].progress = tasks[t].progress
      /\ DOMAIN tasks'[t] = DOMAIN tasks[t]
  BY <1>1 DEF Tables, TablesTyped
<1>4. IsDocument(tasks[t])
  BY DEF Tables, TablesTyped, IsDocument
<1>5. Writes(t)
  BY <1>1, <1>2, <1>3, <1>4 DEF Writes, IsDocument, Opt
<1>6. analysis'.task = t /\ analysis'.over = {}
  BY <1>1
<1>7. \A stage \in Stages : Reached(t, stage)'
  BY <1>2, <1>3, <1>6 DEF Reached, Fresh
<1>8. t \notin Stored'
  BY <1>1, <1>2 DEF Stored
<1>9. Documented(t)'
  BY <1>3, <1>6, <1>7, <1>8 DEF Documented
<1> QED BY <1>1, <1>5, <1>6, <1>9, WritesDocument

LEMMA RunPhaseWrites ==
  ASSUME Tables, Documents, NEW t \in Tasks, NEW stage \in Stages, RunPhase(t, stage)
  PROVE  Writes(t) /\ Documents'
<1>1. /\ analysis = [task |-> t, over |-> Earlier(stage)] /\ UNCHANGED <<raw, db, blocks, walk>>
      /\ \/ Outcome(t, stage).raised # None /\ Fail(t, Outcome(t, stage).raised)
         \/ /\ Outcome(t, stage).raised = None
            /\ tasks' = [tasks EXCEPT ![t].progress[stage] = Outcome(t, stage).progress]
            /\ analysis' = [analysis EXCEPT !.over = @ \union {stage}]
  BY DEF RunPhase
<1>2. /\ analysis.task = t /\ analysis.over = Earlier(stage) /\ t # None
      /\ Earlier(stage) \subseteq Stages /\ stage \notin Earlier(stage)
  BY <1>1, DataAssumption DEF Earlier, Stages
<1>3. /\ t \notin Stored /\ \A s \in Stages : Reached(t, s)
      /\ tasks[t].status \in {"processing", "completed"}
      /\ tasks[t].status = "completed" => analysis.over = Stages
  BY <1>2 DEF Documents, Documented
<1>4. tasks[t].status = "processing"
  BY <1>2, <1>3
<1>5. IsDocument(tasks[t])
  BY DEF Tables, TablesTyped, IsDocument
<1>6. t \notin Stored'
  BY <1>1, <1>3 DEF Stored
<1>7. CASE Outcome(t, stage).raised # None /\ Fail(t, Outcome(t, stage).raised)
  <2> DEFINE doc == [NotStarted(t) EXCEPT !.status = "failed", !.error = Outcome(t, stage).raised]
  <2>1. IsDocument(NotStarted(t)) /\ Fresh(NotStarted(t))
    BY DocumentsStart DEF Tables, TablesTyped
  <2>2. IsDocument(doc) /\ Fresh(doc) /\ doc.status = "failed"
    BY <2>1 DEF IsDocument, Fresh
  <2>3. tasks' = [tasks EXCEPT ![t] = doc] /\ analysis'.task = None /\ analysis'.over = {}
    BY <1>7 DEF Fail, Idle
  <2> HIDE DEF doc
  <2>4. /\ \A u \in Tasks \ {t} : tasks'[u] = tasks[u]
        /\ tasks' = [u \in Tasks |-> tasks'[u]] /\ tasks'[t] = doc
    BY <2>3 DEF Tables, TablesTyped
  <2>5. Writes(t)
    BY <1>1, <1>3, <1>7, <2>2, <2>3, <2>4 DEF Writes, Opt
  <2>6. Documented(t)'
    BY <1>2, <1>6, <2>2, <2>3, <2>4 DEF Documented, Fresh
  <2> QED BY <1>2, <2>3, <2>5, <2>6, WritesDocument
<1>8. CASE /\ Outcome(t, stage).raised = None
           /\ tasks' = [tasks EXCEPT ![t].progress[stage] = Outcome(t, stage).progress]
           /\ analysis' = [analysis EXCEPT !.over = @ \union {stage}]
  <2> DEFINE p == Outcome(t, stage).progress
  <2>1. analysis'.task = t /\ analysis'.over = Earlier(stage) \union {stage}
    BY <1>1, <1>8
  <2>2. p \in [total : Nat, processed : Nat, rejected : Nat]
    BY OutcomesCount
  <2>3. tasks[t].progress \in [Stages -> [total : Nat, processed : Nat, rejected : Nat]]
    BY <1>5 DEF IsDocument, Progresses
  <2>4. tasks' = [tasks EXCEPT ![t].progress[stage] = p]
    BY <1>8
  <2> HIDE DEF p
  <2>5. /\ \A u \in Tasks \ {t} : tasks'[u] = tasks[u]
        /\ tasks' = [u \in Tasks |-> tasks'[u]]
        /\ tasks'[t].status = tasks[t].status /\ DOMAIN tasks'[t] = DOMAIN tasks[t]
        /\ tasks'[t].progress = [tasks[t].progress EXCEPT ![stage] = p]
    BY <2>4, <1>5 DEF Tables, TablesTyped, IsDocument
  <2>6. tasks'[t].progress \in [Stages -> [total : Nat, processed : Nat, rejected : Nat]]
    BY <2>2, <2>3, <2>5
  <2>7. IsDocument(tasks'[t])
    BY <1>5, <2>5, <2>6 DEF IsDocument, Progresses
  <2>8. Writes(t)
    BY <1>1, <1>2, <1>3, <1>4, <2>1, <2>5, <2>7 DEF Writes, Opt
  <2>9. ASSUME NEW s \in Stages PROVE Reached(t, s)'
    <3>1. Outcome(t, s)' = Outcome(t, s)
      BY <1>1, OutcomesStay
    <3>2. CASE s = stage
      <4>1. tasks'[t].progress[s] = p
        BY <2>3, <2>5, <3>2
      <4> QED BY <1>8, <2>1, <3>1, <3>2, <4>1 DEF Reached, p
    <3>3. CASE s # stage
      <4>1. tasks'[t].progress[s] = tasks[t].progress[s]
        BY <2>3, <2>5, <3>3
      <4>2. s \in analysis'.over <=> s \in analysis.over
        BY <1>2, <2>1, <3>3
      <4>3. Reached(t, s)
        BY <1>3
      <4> QED BY <3>1, <4>1, <4>2, <4>3 DEF Reached
    <3> QED BY <3>2, <3>3
  <2>10. Documented(t)'
    BY <1>4, <1>6, <2>1, <2>5, <2>9 DEF Documented
  <2> QED BY <1>2, <2>1, <2>8, <2>10, WritesDocument
<1> QED BY <1>1, <1>7, <1>8

LEMMA CompleteWrites ==
  ASSUME Tables, Documents, NEW t \in Tasks, Complete(t)
  PROVE  Writes(t) /\ Documents'
<1> DEFINE total == BuildResult(t, Outcome(t, "selection").table, Outcome(t, "odd_tagging").table,
                                Outcome(t, "auto_labeling").table, tasks[t].progress)
<1>1. /\ analysis.task = t /\ analysis.over = Stages /\ analysis' = analysis
      /\ tasks[t].status = "processing" /\ UNCHANGED <<raw, db, blocks, walk>>
      /\ tasks' = [tasks EXCEPT ![t].status = "completed", ![t].result = total]
  BY DEF Complete
<1>2. t \notin Stored /\ \A stage \in Stages : Reached(t, stage)
  BY <1>1 DEF Documents, Documented
<1>3. IsDocument(tasks[t]) /\ analysis.task \in Opt(Tasks)
  BY DEF Tables, TablesTyped, IsDocument
<1>4. total' = total
  <2>1. \A stage \in Stages : Outcome(t, stage)' = Outcome(t, stage)
    BY <1>1, OutcomesStay
  <2>2. "selection" \in Stages /\ "odd_tagging" \in Stages /\ "auto_labeling" \in Stages
    BY DEF Stages
  <2>3. tasks'[t].progress = tasks[t].progress
    BY <1>1, <1>3 DEF Tables, TablesTyped, IsDocument
  <2> QED BY <2>1, <2>2, <2>3
<1>5. (Totalled(t) <=> tasks[t].result = total)'
  BY DEF Totalled
<1> HIDE DEF total
<1>6. /\ \A u \in Tasks \ {t} : tasks'[u] = tasks[u]
      /\ tasks' = [u \in Tasks |-> tasks'[u]] /\ DOMAIN tasks'[t] = DOMAIN tasks[t]
      /\ tasks'[t].status = "completed" /\ tasks'[t].progress = tasks[t].progress
      /\ tasks'[t].result = total
  BY <1>1, <1>3 DEF Tables, TablesTyped, IsDocument
<1>7. Writes(t)
  BY <1>1, <1>2, <1>3, <1>6 DEF Writes, IsDocument
<1>8. Totalled(t)'
  BY <1>4, <1>5, <1>6
<1>9. \A stage \in Stages : Reached(t, stage)'
  <2>1. \A stage \in Stages : Outcome(t, stage)' = Outcome(t, stage)
    BY <1>1, OutcomesStay
  <2> QED BY <1>1, <1>2, <1>6, <2>1 DEF Reached
<1>10. t \notin Stored'
  BY <1>1, <1>2 DEF Stored
<1>11. Documented(t)'
  BY <1>1, <1>6, <1>8, <1>9, <1>10 DEF Documented
<1> QED BY <1>1, <1>7, <1>11, WritesDocument

\* Nothing is stored, or the rows of one more task.
Stays == db' = db /\ Stored' = Stored
Adds == Grows /\ Stored \subseteq Stored' /\ Stored' # Stored

LEMMA WritesKeepsTables ==
  ASSUME Tables, NEW t \in Tasks, Writes(t)
  PROVE  Tables' /\ Stays
<1>1. /\ \A u \in Tasks : IsDocument(tasks'[u]) /\ tasks' = [x \in Tasks |-> tasks'[x]]
      /\ db' = db /\ blocks' = blocks /\ raw' = raw
      /\ analysis'.task \in Opt(Tasks) /\ analysis'.over \subseteq Stages
  BY DEF Tables, TablesTyped, Writes, IsDocument
<1>2. TablesTyped'
  BY <1>1 DEF Tables, TablesTyped, IsDocument
<1>3. FiniteTables' /\ Keys' /\ Blocks' /\ Stored' = Stored
  BY <1>1 DEF Tables, FiniteTables, Keys, Blocks, Stored
<1> QED BY <1>1, <1>2, <1>3 DEF Tables, Stays

LEMMA NothingWritten ==
  ASSUME Tables, Documents, UNCHANGED <<raw, tasks, analysis, db, blocks>>
  PROVE  Tables' /\ Stays /\ Documents'
<1>1. Documents'
  BY SameDocument
<1>2. TablesTyped' /\ FiniteTables' /\ Keys' /\ Blocks'
  BY DEF Tables, TablesTyped, FiniteTables, Keys, Blocks
<1> QED BY <1>1, <1>2 DEF Tables, Stays, Stored

(***************************************************************************)
(* The commit of the phases S, T and L.                                    *)
(***************************************************************************)
Commits(t, S, T, L) ==
  /\ \E block \in (1 .. Cardinality(Tasks)) \ {blocks[x] : x \in Tasks} :
       /\ blocks' = [blocks EXCEPT ![t] = block]
       /\ db' = [selections |-> S.table, oddTags |-> T.table, labels |-> L.table,
                 rejections |-> db.rejections \union
                   {Inserted(block, r) : r \in S.rejections \union T.rejections \union L.rejections}]
  /\ UNCHANGED <<raw, tasks, walk>>
  /\ t \notin Stored /\ analysis'.task = None /\ analysis'.over = {}

\* What the document says when they are committed.
Tells(t, S, T, L) ==
  /\ tasks[t].status = "completed" /\ S.raised = None /\ T.raised = None /\ L.raised = None
  /\ tasks[t].progress["selection"] = S.progress
  /\ tasks[t].progress["odd_tagging"] = T.progress
  /\ tasks[t].progress["auto_labeling"] = L.progress
  /\ \E progress : tasks[t].result = BuildResult(t, S.table, T.table, L.table, progress)

LEMMA CommitCases ==
  ASSUME Documents, NEW t \in Tasks, Commit(t)
  PROVE  \E ids : /\ Commits(t, SelectionPhase(t), OddTagPhase(t, ids), LabelPhase(t, ids))
                  /\ Tells(t, SelectionPhase(t), OddTagPhase(t, ids), LabelPhase(t, ids))
<1> DEFINE S == Outcome(t, "selection")
           T == Outcome(t, "odd_tagging")
           L == Outcome(t, "auto_labeling")
<1>1. analysis.task = t /\ tasks[t].status = "completed"
  BY DEF Commit
<1>2. /\ t \notin Stored /\ \A stage \in Stages : Reached(t, stage)
      /\ analysis.over = Stages /\ Totalled(t)
  BY <1>1 DEF Documents, Documented
<1>3. "selection" \in Stages /\ "odd_tagging" \in Stages /\ "auto_labeling" \in Stages
  BY DEF Stages
<1>4. UNION {Outcome(t, stage).rejections : stage \in Stages}
        = S.rejections \union T.rejections \union L.rejections
  BY DEF Stages
<1>5. Commits(t, S, T, L)
  BY <1>2, <1>4 DEF Commit, Commits, Idle
<1>6. Tells(t, S, T, L)
  BY <1>1, <1>2, <1>3 DEF Tells, Reached, Totalled
<1>7. S = SelectionPhase(t) /\ T = OddTagPhase(t, SelectionIds(t))
        /\ L = LabelPhase(t, SelectionIds(t))
  BY OutcomesOf
<1> HIDE DEF S, T, L
<1> QED BY <1>5, <1>6, <1>7

LEMMA WorkCases ==
  ASSUME Tables, Documents, NEW t \in Tasks, Work(t)
  PROVE  \/ Writes(t) /\ Documents'
         \/ Commit(t)
BY BeginWrites, RunPhaseWrites, CompleteWrites DEF Work

LEMMA CommitDocuments ==
  ASSUME Tables, Documents, NEW t \in Tasks, Commit(t)
  PROVE  Documents'
<1>1. analysis.task = t /\ tasks[t].status = "completed" /\ tasks' = tasks /\ analysis'.task = None
  BY DEF Commit, Idle
<1>2. PICK block \in (1 .. Cardinality(Tasks)) \ {blocks[x] : x \in Tasks} :
        blocks' = [blocks EXCEPT ![t] = block]
  BY DEF Commit
<1>3. block # 0 /\ blocks'[t] = block /\ \A u \in Tasks \ {t} : blocks'[u] = blocks[u]
  BY <1>2, DataAssumption, FS_CardinalityType DEF Tables, TablesTyped
<1>4. t # None
  BY DataAssumption
<1>5. Documented(t)'
  BY <1>1, <1>3, <1>4 DEF Documented, Stored
<1>6. ASSUME NEW u \in Tasks, u # t PROVE Documented(u)'
  <2>1. u # None
    BY DataAssumption
  <2> QED BY <1>1, <1>3, <1>6, <2>1, OthersDocumented DEF Documents
<1> QED BY <1>5, <1>6 DEF Documents

\* The rejections of a task as they are inserted.
Owned(t, block, new) ==
  /\ IsFiniteSet(new)
  /\ \A x, y \in new : /\ x.id \in Nat /\ x.task = t /\ x.stage \in Stages
                       /\ block * Stride <= x.id /\ x.id < (block + 1) * Stride
                       /\ x.id = y.id => x = y

LEMMA NumbersAreKept ==
  ASSUME NEW t, NEW block \in Nat, NEW R, NEW S, NEW T, NEW L,
         \A r : r \in R <=> r \in S \/ r \in T \/ r \in L,
         Numbers(t, "selection", S), Numbers(t, "odd_tagging", T), Numbers(t, "auto_labeling", L),
         NEW new, \A x : x \in new <=> \E r \in R : x = Inserted(block, r)
  PROVE  Owned(t, block, new)
<1> DEFINE inserted == [r \in R |-> Inserted(block, r)]
<1>1. IsFiniteSet(R)
  <2>1. R = S \union T \union L /\ IsFiniteSet(S) /\ IsFiniteSet(T) /\ IsFiniteSet(L)
    BY DEF Numbers
  <2>2. IsFiniteSet(S \union T)
    BY <2>1, FS_Union
  <2> QED BY <2>1, <2>2, FS_Union
<1>2. ASSUME NEW r \in R
      PROVE  /\ r.id \in Nat /\ r.id < Width /\ r.stage \in Stages /\ r.task = t
             /\ {"id", "task", "stage"} \subseteq DOMAIN r
  BY DEF Numbers, Width, Stages
<1>3. \A r, s \in R : r.stage = s.stage /\ r.id = s.id => r = s
  BY DEF Numbers
<1>4. \A r \in R : /\ Inserted(block, r).id = FirstId(block, r.stage) + r.id
                   /\ Inserted(block, r).task = r.task /\ Inserted(block, r).stage = r.stage
  BY <1>2 DEF Inserted
<1>5. new = {inserted[r] : r \in R} /\ R \subseteq DOMAIN inserted /\ \A r \in R : inserted[r] = Inserted(block, r)
  OBVIOUS
<1> HIDE DEF inserted
<1>6. IsFiniteSet(new)
  BY <1>1, <1>5, ImageIsFinite
<1>7. ASSUME NEW x \in new, NEW y \in new
      PROVE  /\ x.id \in Nat /\ x.task = t /\ x.stage \in Stages
             /\ block * Stride <= x.id /\ x.id < (block + 1) * Stride
             /\ x.id = y.id => x = y
  <2>1. PICK r \in R : x = Inserted(block, r)
    BY <1>5
  <2>2. PICK s \in R : y = Inserted(block, s)
    BY <1>5
  <2>3. /\ x.id \in Nat /\ x.task = t /\ x.stage \in Stages
        /\ block * Stride <= x.id /\ x.id < (block + 1) * Stride
    <3>1. r.id \in Nat /\ r.id < Width /\ r.stage \in Stages /\ r.task = t
      BY <1>2
    <3>2. x.id = FirstId(block, r.stage) + r.id /\ x.task = t /\ x.stage \in Stages
      BY <1>4, <2>1, <3>1
    <3> QED BY <3>1, <3>2, Renumbered
  <2>4. ASSUME x.id = y.id PROVE r.stage = s.stage /\ r.id = s.id
    <3>1. /\ r.id \in Nat /\ r.id < Width /\ r.stage \in Stages
          /\ s.id \in Nat /\ s.id < Width /\ s.stage \in Stages
      BY <1>2
    <3>2. FirstId(block, r.stage) + r.id = FirstId(block, s.stage) + s.id
      BY <1>4, <2>1, <2>2, <2>4
    <3> QED BY <3>1, <3>2, Renumbered
  <2> QED BY <1>3, <2>1, <2>2, <2>3, <2>4
<1> QED BY <1>6, <1>7 DEF Owned

LEMMA CommitKeepsTables ==
  ASSUME Tables, NEW t \in Tasks, NEW S, NEW T, NEW L,
         Stores(t, "selection", db.selections, S.table),
         Stores(t, "odd_tagging", db.oddTags, T.table),
         Stores(t, "auto_labeling", db.labels, L.table),
         Numbers(t, "selection", S.rejections), Numbers(t, "odd_tagging", T.rejections),
         Numbers(t, "auto_labeling", L.rejections), Commits(t, S, T, L)
  PROVE  Tables' /\ Adds
<1> DEFINE R == S.rejections \union T.rejections \union L.rejections
<1>1. PICK block \in (1 .. Cardinality(Tasks)) \ {blocks[x] : x \in Tasks} :
        /\ blocks' = [blocks EXCEPT ![t] = block]
        /\ db' = [selections |-> S.table, oddTags |-> T.table, labels |-> L.table,
                  rejections |-> db.rejections \union {Inserted(block, r) : r \in R}]
  BY DEF Commits
<1> DEFINE new == {Inserted(block, r) : r \in R}
<1>2. block \in Nat \ {0} /\ block \in 0 .. Cardinality(Tasks) /\ \A u \in Tasks : blocks[u] # block
  BY <1>1, DataAssumption, FS_CardinalityType, SMTT(30)
<1>3. /\ IsFiniteSet(new)
      /\ \A x, y \in new : /\ x.id \in Nat /\ x.task = t /\ x.stage \in Stages
                           /\ block * Stride <= x.id /\ x.id < (block + 1) * Stride
                           /\ x.id = y.id => x = y
  <2>1. \A r : r \in R <=> r \in S.rejections \/ r \in T.rejections \/ r \in L.rejections
    OBVIOUS
  <2> HIDE DEF R
  <2>2. (\A x : x \in new <=> \E r \in R : x = Inserted(block, r)) /\ block \in Nat
    BY <1>2
  <2> HIDE DEF new
  <2>3. Owned(t, block, new)
    BY <2>1, <2>2, NumbersAreKept
  <2> QED BY <2>3 DEF Owned
<1>4. /\ tasks' = tasks /\ raw' = raw /\ blocks[t] = 0
      /\ analysis'.task \in Opt(Tasks) /\ analysis'.over \subseteq Stages
  BY DEF Commits, Stored, Opt
<1>5. /\ db'.selections = S.table /\ db'.oddTags = T.table /\ db'.labels = L.table
      /\ db'.rejections = db.rejections \union new
      /\ blocks' \in [Tasks -> 0 .. Cardinality(Tasks)] /\ blocks'[t] = block
      /\ \A u \in Tasks \ {t} : blocks'[u] = blocks[u]
  BY <1>1, <1>2 DEF Tables, TablesTyped
<1> HIDE DEF R, new
<1>6. TablesTyped'
  <2>1. (\A s \in db.selections : SelectionTyped(s))'
    BY <1>5 DEF Tables, TablesTyped, Stores, RowTyped
  <2>2. (\A o \in db.oddTags : OddTagTyped(o))'
    BY <1>5 DEF Tables, TablesTyped, Stores, RowTyped
  <2>3. (\A l \in db.labels : LabelTyped(l))'
    BY <1>5 DEF Tables, TablesTyped, Stores, RowTyped
  <2>4. (\A r \in db.rejections : r.id \in Nat /\ r.task \in Tasks /\ r.stage \in Stages)'
    BY <1>3, <1>5 DEF Tables, TablesTyped
  <2> QED BY <1>4, <1>5, <2>1, <2>2, <2>3, <2>4 DEF Tables, TablesTyped
<1>7. FiniteTables'
  <2>1. IsFiniteSet(db.rejections) /\ IsFiniteSet(new)
    BY <1>3 DEF Tables, FiniteTables
  <2>2. IsFiniteSet(db.rejections \union new)
    BY <2>1, FS_Union
  <2> QED BY <1>5, <2>2 DEF FiniteTables, Stores
<1>8. \A r \in db.rejections : /\ r.task \in Tasks /\ r.id \in Nat /\ blocks[r.task] \in Nat \ {0}
                               /\ blocks[r.task] # block /\ r.task # t
                               /\ blocks[r.task] * Stride <= r.id
                               /\ r.id < (blocks[r.task] + 1) * Stride
  BY <1>2, <1>4 DEF Tables, TablesTyped, Blocks
<1>9. Keys'
  <2>1. \A x \in db.rejections, y \in new : x.id # y.id
    <3> SUFFICES ASSUME NEW x \in db.rejections, NEW y \in new, x.id = y.id PROVE FALSE
      OBVIOUS
    <3> DEFINE b == blocks[x.task]
    <3>1. /\ b \in Nat /\ b # block /\ b * Stride <= x.id /\ x.id < (b + 1) * Stride
          /\ block * Stride <= x.id /\ x.id < (block + 1) * Stride /\ x.id \in Nat
      BY <1>3, <1>8
    <3>2. /\ b * Stride \in Nat /\ (b + 1) * Stride = b * Stride + Stride
          /\ block * Stride \in Nat /\ (block + 1) * Stride = block * Stride + Stride
          /\ b < block => (b + 1) * Stride <= block * Stride
          /\ block < b => (block + 1) * Stride <= b * Stride /\ Stride \in Nat
      BY <1>2, <3>1, Widths
    <3> HIDE DEF b
    <3>3. b < block \/ block < b
      BY <1>2, <3>1
    <3> QED BY <3>1, <3>2, <3>3, Widths
  <2>2. \A x, y \in db'.rejections : x.id = y.id => x = y
    BY <1>3, <1>5, <2>1 DEF Tables, Keys
  <2> QED BY <1>5, <2>2 DEF Keys, Stores
<1>10. Blocks'
  <2>1. \A x, u \in Tasks : blocks'[x] = blocks'[u] => x = u \/ blocks'[x] = 0
    BY <1>2, <1>5 DEF Tables, Blocks
  <2>2. \A r \in db'.rejections :
          /\ blocks'[r.task] # 0
          /\ blocks'[r.task] * Stride <= r.id /\ r.id < (blocks'[r.task] + 1) * Stride
    <3>1. \A r \in db.rejections : blocks'[r.task] = blocks[r.task]
      BY <1>5, <1>8
    <3>2. \A r \in new : blocks'[r.task] = block
      BY <1>3, <1>5
    <3> QED BY <1>2, <1>3, <1>5, <1>8, <3>1, <3>2
  <2> QED BY <2>1, <2>2 DEF Blocks
<1>11. Adds
  <2>1. t \notin Stored /\ t \in Stored' /\ Stored \subseteq Stored'
    BY <1>2, <1>4, <1>5 DEF Stored
  <2> QED BY <1>5, <2>1 DEF Adds, Grows, Stores
<1> QED BY <1>6, <1>7, <1>9, <1>10, <1>11 DEF Tables

LEMMA WorkKeepsTables ==
  ASSUME Tables, Documents, NEW t \in Tasks, Work(t)
  PROVE  Tables' /\ Documents' /\ (Stays \/ Adds) /\ UNCHANGED <<raw, walk>>
<1>1. CASE Writes(t) /\ Documents'
  BY <1>1, WritesKeepsTables DEF Writes
<1>2. CASE Commit(t)
  <2>1. PICK ids : Commits(t, SelectionPhase(t), OddTagPhase(t, ids), LabelPhase(t, ids))
    BY <1>2, CommitCases
  <2> DEFINE S == SelectionPhase(t)
             T == OddTagPhase(t, ids)
             L == LabelPhase(t, ids)
  <2>2. /\ Stores(t, "selection", db.selections, S.table)
        /\ Stores(t, "odd_tagging", db.oddTags, T.table)
        /\ Stores(t, "auto_labeling", db.labels, L.table)
        /\ Numbers(t, "selection", S.rejections) /\ Numbers(t, "odd_tagging", T.rejections)
        /\ Numbers(t, "auto_labeling", L.rejections)
    BY PhasesStore
  <2>3. Commits(t, S, T, L)
    BY <2>1
  <2>4. Documents'
    BY <1>2, CommitDocuments
  <2> HIDE DEF S, T, L
  <2> QED BY <2>2, <2>3, <2>4, CommitKeepsTables DEF Commits
<1> QED BY <1>1, <1>2, WorkCases

-----------------------------------------------------------------------------
(***************************************************************************)
(* The counters of a task and what the tables have of it.                  *)
(***************************************************************************)
Found(t, stage) == {r \in db.rejections : r.task = t /\ r.stage = stage}

Agrees(t) ==
  IF t \in Stored
  THEN /\ \A stage \in Stages :
            /\ tasks[t].progress[stage].processed = Cardinality(OwnRows(TableOf(stage), t))
            /\ tasks[t].progress[stage].rejected = Cardinality(Found(t, stage))
       /\ tasks[t].result.linked + tasks[t].result.partial
            = Cardinality(OwnRows(db.selections, t))
  ELSE \A stage \in Stages : OwnRows(TableOf(stage), t) = {}

\* They agree as long as neither the document nor the rows and rejections of the task change.
LEMMA StillAgrees ==
  ASSUME NEW t \in Tasks, Agrees(t), tasks'[t] = tasks[t], blocks'[t] = blocks[t],
         \A stage \in Stages : /\ OwnRows(TableOf(stage)', t) = OwnRows(TableOf(stage), t)
                               /\ Found(t, stage)' = Found(t, stage),
         OwnRows(db'.selections, t) = OwnRows(db.selections, t)
  PROVE  Agrees(t)'
<1>1. /\ \A stage \in Stages : OwnRows(TableOf(stage), t)' = OwnRows(TableOf(stage), t)
      /\ OwnRows(db.selections, t)' = OwnRows(db.selections, t)
  BY DEF OwnRows
<1>2. t \in Stored' <=> t \in Stored
  BY DEF Stored
<1> QED BY <1>1, <1>2 DEF Agrees

\* Stages of TableOf.
LEMMA TablesByStage ==
  /\ TableOf("selection") = db.selections /\ TableOf("odd_tagging") = db.oddTags
  /\ TableOf("auto_labeling") = db.labels
BY DEF TableOf

LEMMA OthersStay ==
  ASSUME NEW t, NEW stage, NEW table, NEW new, Stores(t, stage, table, new), NEW u, u # t
  PROVE  OwnRows(new, u) = OwnRows(table, u)
BY DEF Stores, OwnRows

\* The videos of a task are as many as its selections, for a video has one.
LEMMA ResultCounts ==
  ASSUME NEW t, NEW selections, IsFiniteSet(selections), Keyed("selection", selections),
         NEW oddTags, NEW labels, NEW progress, NEW result,
         result = BuildResult(t, selections, oddTags, labels, progress)
  PROVE  result.linked + result.partial = Cardinality(OwnRows(selections, t))
<1> DEFINE own == OwnRows(selections, t)
           id == [x \in own |-> x.id]
           selected == {x.id : x \in own}
           linked == selected \intersect {o.video : o \in {x \in oddTags : x.task = t}}
                              \intersect {l.video : l \in {x \in labels : x.task = t}}
<1>1. own \subseteq DOMAIN id /\ selected = {id[x] : x \in own}
  OBVIOUS
<1>2. IsFiniteSet(own)
  BY FS_Subset DEF OwnRows
<1>3. \A x, y \in own : id[x] = id[y] => x = y
  BY DEF OwnRows, Keyed, Key, SelectionKey
<1>4. result.linked = Cardinality(linked)
      /\ result.partial = Cardinality(selected) - Cardinality(linked)
  BY DEF BuildResult, OwnRows
<1>5. linked \subseteq selected
  OBVIOUS
<1> HIDE DEF own, id, selected, linked
<1>6. IsFiniteSet(selected) /\ Cardinality(selected) = Cardinality(own)
  BY <1>1, <1>2, <1>3, ImageIsFinite, ImageIsAsLarge
<1>7. Cardinality(linked) \in Nat /\ Cardinality(selected) \in Nat
  BY <1>5, <1>6, FS_Subset, FS_CardinalityType
<1> QED BY <1>4, <1>6, <1>7 DEF own

\* Inserting the rejections of a phase leaves as many as there were.
LEMMA InsertedCounts ==
  ASSUME NEW t, NEW block \in Nat, NEW stage \in Stages, NEW P, Numbers(t, stage, P)
  PROVE  /\ Cardinality({Inserted(block, r) : r \in P}) = Cardinality(P)
         /\ \A r \in P : Inserted(block, r).task = t /\ Inserted(block, r).stage = stage
<1> DEFINE inserted == [r \in P |-> Inserted(block, r)]
<1>1. \A r \in P : /\ Inserted(block, r).id = FirstId(block, stage) + r.id
                   /\ Inserted(block, r).task = t /\ Inserted(block, r).stage = stage
                   /\ r.id \in Nat /\ r.id < Width
  BY DEF Inserted, Numbers, Width
<1>2. \A x, y \in P : inserted[x] = inserted[y] => x = y
  <2> SUFFICES ASSUME NEW x \in P, NEW y \in P, Inserted(block, x) = Inserted(block, y)
               PROVE  x = y
    OBVIOUS
  <2>1. FirstId(block, stage) + x.id = FirstId(block, stage) + y.id
    BY <1>1
  <2>2. x.id = y.id
    BY <1>1, <2>1, Renumbered
  <2> QED BY <2>2 DEF Numbers
<1>3. P \subseteq DOMAIN inserted /\ {Inserted(block, r) : r \in P} = {inserted[r] : r \in P}
  OBVIOUS
<1>4. IsFiniteSet(P)
  BY DEF Numbers
<1> HIDE DEF inserted
<1>5. Cardinality({inserted[r] : r \in P}) = Cardinality(P)
  BY <1>2, <1>3, <1>4, ImageIsAsLarge
<1> QED BY <1>1, <1>3, <1>5

LEMMA WritesAgrees ==
  ASSUME \A u \in Tasks : Agrees(u), NEW t \in Tasks, Writes(t)
  PROVE  \A u \in Tasks : Agrees(u)'
<1>1. /\ \A u \in Tasks \ {t} : tasks'[u] = tasks[u]
      /\ db' = db /\ blocks' = blocks /\ t \notin Stored
  BY DEF Writes
<1>2. \A stage : TableOf(stage)' = TableOf(stage)
  BY <1>1 DEF TableOf
<1> SUFFICES ASSUME NEW u \in Tasks PROVE Agrees(u)'
  OBVIOUS
<1>3. CASE u = t
  <2>1. t \notin Stored'
    BY <1>1 DEF Stored
  <2> QED BY <1>1, <1>2, <1>3, <2>1 DEF Agrees, OwnRows
<1>4. CASE u # t
  <2>1. tasks'[u] = tasks[u] /\ blocks'[u] = blocks[u] /\ Agrees(u)
    BY <1>1, <1>4
  <2>2. \A stage : Found(u, stage)' = Found(u, stage)
    BY <1>1 DEF Found
  <2> QED BY <1>1, <1>2, <2>1, <2>2, StillAgrees
<1> QED BY <1>3, <1>4

\* What a commit leaves behind: what the phases stored, and all the rest as it was.
LEMMA CommitStores ==
  ASSUME Tables, NEW t \in Tasks, NEW S, NEW T, NEW L,
         Stores(t, "selection", db.selections, S.table),
         Stores(t, "odd_tagging", db.oddTags, T.table),
         Stores(t, "auto_labeling", db.labels, L.table),
         Numbers(t, "selection", S.rejections), Numbers(t, "odd_tagging", T.rejections),
         Numbers(t, "auto_labeling", L.rejections), Commits(t, S, T, L)
  PROVE  /\ \E block \in Nat :
              /\ Found(t, "selection")' = {Inserted(block, r) : r \in S.rejections}
              /\ Found(t, "odd_tagging")' = {Inserted(block, r) : r \in T.rejections}
              /\ Found(t, "auto_labeling")' = {Inserted(block, r) : r \in L.rejections}
         /\ TableOf("selection")' = S.table /\ TableOf("odd_tagging")' = T.table
         /\ TableOf("auto_labeling")' = L.table /\ db'.selections = S.table
         /\ t \in Stored' /\ tasks' = tasks
         /\ \A u \in Tasks \ {t} :
              /\ blocks'[u] = blocks[u] /\ OwnRows(db'.selections, u) = OwnRows(db.selections, u)
              /\ \A stage \in Stages : /\ OwnRows(TableOf(stage)', u) = OwnRows(TableOf(stage), u)
                                       /\ Found(u, stage)' = Found(u, stage)
<1> DEFINE R == S.rejections \union T.rejections \union L.rejections
<1>1. PICK block \in (1 .. Cardinality(Tasks)) \ {blocks[x] : x \in Tasks} :
        /\ blocks' = [blocks EXCEPT ![t] = block]
        /\ db' = [selections |-> S.table, oddTags |-> T.table, labels |-> L.table,
                  rejections |-> db.rejections \union {Inserted(block, r) : r \in R}]
  BY DEF Commits
<1> DEFINE News(P) == {Inserted(block, r) : r \in P}
           newS == News(S.rejections)
           newT == News(T.rejections)
           newL == News(L.rejections)
<1>2. block \in Nat \ {0}
  BY <1>1, DataAssumption, FS_CardinalityType
<1>3. /\ db'.selections = S.table /\ db'.oddTags = T.table /\ db'.labels = L.table
      /\ tasks' = tasks /\ t \notin Stored /\ blocks'[t] = block
      /\ \A u \in Tasks \ {t} : blocks'[u] = blocks[u]
  BY <1>1 DEF Tables, TablesTyped, Commits
<1>4. db'.rejections = db.rejections \union newS \union newT \union newL
  BY <1>1
<1>5. t \in Stored'
  BY <1>2, <1>3 DEF Stored
<1>6. /\ \A x \in newS : x.task = t /\ x.stage = "selection"
      /\ \A x \in newT : x.task = t /\ x.stage = "odd_tagging"
      /\ \A x \in newL : x.task = t /\ x.stage = "auto_labeling"
  <2>1. \A x \in newS : x.task = t /\ x.stage = "selection"
    <3>1. ASSUME NEW r \in S.rejections
          PROVE  Inserted(block, r).task = t /\ Inserted(block, r).stage = "selection"
      BY DEF Inserted, Numbers
    <3> QED BY <3>1
  <2>2. \A x \in newT : x.task = t /\ x.stage = "odd_tagging"
    <3>1. ASSUME NEW r \in T.rejections
          PROVE  Inserted(block, r).task = t /\ Inserted(block, r).stage = "odd_tagging"
      BY DEF Inserted, Numbers
    <3> QED BY <3>1
  <2>3. \A x \in newL : x.task = t /\ x.stage = "auto_labeling"
    <3>1. ASSUME NEW r \in L.rejections
          PROVE  Inserted(block, r).task = t /\ Inserted(block, r).stage = "auto_labeling"
      BY DEF Inserted, Numbers
    <3> QED BY <3>1
  <2> HIDE DEF newS, newT, newL
  <2> QED BY <2>1, <2>2, <2>3
<1>7. \A r \in db.rejections : r.task # t
  BY <1>3 DEF Tables, TablesTyped, Blocks, Stored
<1>8. /\ TableOf("selection")' = S.table /\ TableOf("odd_tagging")' = T.table
      /\ TableOf("auto_labeling")' = L.table
  BY <1>3 DEF TableOf
<1> HIDE DEF R, newS, newT, newL
<1>9. /\ Found(t, "selection")' = newS /\ Found(t, "odd_tagging")' = newT
      /\ Found(t, "auto_labeling")' = newL
  BY <1>4, <1>6, <1>7 DEF Found
<1>10. ASSUME NEW u \in Tasks \ {t}
       PROVE  /\ blocks'[u] = blocks[u] /\ OwnRows(db'.selections, u) = OwnRows(db.selections, u)
              /\ \A stage \in Stages : /\ OwnRows(TableOf(stage)', u) = OwnRows(TableOf(stage), u)
                                       /\ Found(u, stage)' = Found(u, stage)
  <2>1. /\ OwnRows(S.table, u) = OwnRows(db.selections, u)
        /\ OwnRows(T.table, u) = OwnRows(db.oddTags, u)
        /\ OwnRows(L.table, u) = OwnRows(db.labels, u)
    BY <1>10, OthersStay
  <2>2. \A stage \in Stages : OwnRows(TableOf(stage)', u) = OwnRows(TableOf(stage), u)
    BY <1>8, <2>1, TablesByStage DEF Stages
  <2>3. \A stage \in Stages : Found(u, stage)' = Found(u, stage)
    BY <1>4, <1>6, <1>10 DEF Found
  <2> QED BY <1>3, <2>1, <2>2, <2>3
<1>11. \E b \in Nat :
         /\ Found(t, "selection")' = {Inserted(b, r) : r \in S.rejections}
         /\ Found(t, "odd_tagging")' = {Inserted(b, r) : r \in T.rejections}
         /\ Found(t, "auto_labeling")' = {Inserted(b, r) : r \in L.rejections}
  BY <1>2, <1>9 DEF newS, newT, newL
<1> QED BY <1>3, <1>5, <1>8, <1>10, <1>11

LEMMA CommitAgrees ==
  ASSUME Tables, \A u \in Tasks : Agrees(u), NEW t \in Tasks, NEW S, NEW T, NEW L,
         Stores(t, "selection", db.selections, S.table),
         Stores(t, "odd_tagging", db.oddTags, T.table),
         Stores(t, "auto_labeling", db.labels, L.table),
         Numbers(t, "selection", S.rejections), Numbers(t, "odd_tagging", T.rejections),
         Numbers(t, "auto_labeling", L.rejections),
         Tallied(t, db.selections, S), Tallied(t, db.oddTags, T), Tallied(t, db.labels, L),
         Commits(t, S, T, L), Tells(t, S, T, L)
  PROVE  \A u \in Tasks : Agrees(u)'
<1>1. PICK block \in Nat :
        /\ Found(t, "selection")' = {Inserted(block, r) : r \in S.rejections}
        /\ Found(t, "odd_tagging")' = {Inserted(block, r) : r \in T.rejections}
        /\ Found(t, "auto_labeling")' = {Inserted(block, r) : r \in L.rejections}
  BY CommitStores
<1>2. /\ TableOf("selection")' = S.table /\ TableOf("odd_tagging")' = T.table
      /\ TableOf("auto_labeling")' = L.table /\ db'.selections = S.table
      /\ t \in Stored' /\ tasks' = tasks /\ t \notin Stored
  <2>1. t \notin Stored
    BY DEF Commits
  <2>2. /\ TableOf("selection")' = S.table /\ TableOf("odd_tagging")' = T.table
        /\ TableOf("auto_labeling")' = L.table /\ db'.selections = S.table
        /\ t \in Stored' /\ tasks' = tasks
    BY CommitStores, Zenon
  <2> QED BY <2>1, <2>2
<1>3. /\ tasks'[t].progress["selection"] = S.progress
      /\ tasks'[t].progress["odd_tagging"] = T.progress
      /\ tasks'[t].progress["auto_labeling"] = L.progress
  BY <1>2 DEF Tells
<1>4. PICK progress : tasks'[t].result = BuildResult(t, S.table, T.table, L.table, progress)
  BY <1>2 DEF Tells
<1>5. \A u \in Tasks \ {t} :
        /\ blocks'[u] = blocks[u] /\ OwnRows(db'.selections, u) = OwnRows(db.selections, u)
        /\ \A stage \in Stages : /\ OwnRows(TableOf(stage)', u) = OwnRows(TableOf(stage), u)
                                 /\ Found(u, stage)' = Found(u, stage)
  BY CommitStores
<1>6. "selection" \in Stages /\ "odd_tagging" \in Stages /\ "auto_labeling" \in Stages
  BY DEF Stages
<1>7. /\ Cardinality(Found(t, "selection")') = Cardinality(S.rejections)
      /\ Cardinality(Found(t, "odd_tagging")') = Cardinality(T.rejections)
      /\ Cardinality(Found(t, "auto_labeling")') = Cardinality(L.rejections)
  BY <1>1, <1>6, InsertedCounts
<1>8. tasks'[t].result.linked + tasks'[t].result.partial = Cardinality(OwnRows(S.table, t))
  BY <1>4, ResultCounts DEF Stores
<1>9. Agrees(t)'
  <2>1. /\ OwnRows(db.selections, t) = {} /\ OwnRows(db.oddTags, t) = {}
        /\ OwnRows(db.labels, t) = {}
    BY <1>2, <1>6, TablesByStage DEF Agrees
  <2>2. /\ S.progress.processed = Cardinality(OwnRows(S.table, t))
        /\ T.progress.processed = Cardinality(OwnRows(T.table, t))
        /\ L.progress.processed = Cardinality(OwnRows(L.table, t))
        /\ S.progress.rejected = Cardinality(S.rejections)
        /\ T.progress.rejected = Cardinality(T.rejections)
        /\ L.progress.rejected = Cardinality(L.rejections)
    BY <2>1 DEF Tallied
  <2>3. ASSUME NEW stage \in Stages
        PROVE  /\ tasks'[t].progress[stage].processed = Cardinality(OwnRows(TableOf(stage)', t))
               /\ tasks'[t].progress[stage].rejected = Cardinality(Found(t, stage)')
    <3>1. stage \in {"selection", "odd_tagging", "auto_labeling"}
      BY DEF Stages
    <3> QED BY <1>2, <1>3, <1>7, <2>2, <3>1
  <2> QED BY <1>2, <1>8, <2>3 DEF Agrees, OwnRows
<1>10. ASSUME NEW u \in Tasks, u # t PROVE Agrees(u)'
  <2>1. tasks'[u] = tasks[u]
    BY <1>2
  <2> QED BY <1>5, <1>10, <2>1, StillAgrees
<1> QED BY <1>9, <1>10

LEMMA WorkAgrees ==
  ASSUME Tables, Documents, \A u \in Tasks : Agrees(u), NEW t \in Tasks, Work(t)
  PROVE  \A u \in Tasks : Agrees(u)'
<1>1. CASE Writes(t)
  BY <1>1, WritesAgrees
<1>2. CASE Commit(t)
  <2>1. PICK ids : /\ Commits(t, SelectionPhase(t), OddTagPhase(t, ids), LabelPhase(t, ids))
                   /\ Tells(t, SelectionPhase(t), OddTagPhase(t, ids), LabelPhase(t, ids))
    BY <1>2, CommitCases
  <2> DEFINE S == SelectionPhase(t)
             T == OddTagPhase(t, ids)
             L == LabelPhase(t, ids)
  <2>2. /\ Stores(t, "selection", db.selections, S.table)
        /\ Stores(t, "odd_tagging", db.oddTags, T.table)
        /\ Stores(t, "auto_labeling", db.labels, L.table)
        /\ Numbers(t, "selection", S.rejections) /\ Numbers(t, "odd_tagging", T.rejections)
        /\ Numbers(t, "auto_labeling", L.rejections)
        /\ Tallied(t, db.selections, S) /\ Tallied(t, db.oddTags, T) /\ Tallied(t, db.labels, L)
    BY PhasesStore
  <2>3. Commits(t, S, T, L) /\ Tells(t, S, T, L)
    BY <2>1
  <2> HIDE DEF S, T, L
  <2> QED BY <2>2, <2>3, CommitAgrees
<1> QED BY <1>1, <1>2, WorkCases

-----------------------------------------------------------------------------
(***************************************************************************)
(* The answers.                                                            *)
(***************************************************************************)
\* What the columns compare as: only a bound that is not exact can go wrong.
LEMMA Compared ==
  ASSUME NEW n \in Int, NEW x \in Int
  PROVE  /\ Single(n) >= 10 * x => n >= x
         /\ Single(n) <= 10 * x => n <= x
         /\ n >= x /\ (n = x => n \notin Below) => Single(n) >= 10 * x
         /\ n <= x /\ (n = x => n \notin Above) => Single(n) <= 10 * x
<1>1. Single(n) \in {10 * n - 1, 10 * n, 10 * n + 1}
  BY DEF Single
<1>2. (n \notin Below => Single(n) >= 10 * n) /\ (n \notin Above => Single(n) <= 10 * n)
  BY DEF Single
<1> QED BY <1>1, <1>2

LEMMA CriteriaTypes ==
  ASSUME NEW c \in DataCriteria
  PROVE  /\ c.from # None => c.from \in Int
         /\ c.to # None => c.to \in Int
         /\ c.minTemp # None => c.minTemp \in Int
         /\ c.maxTemp # None => c.maxTemp \in Int
         /\ c.minCount # None => c.minCount \in Int
         /\ c.minConf # None => c.minConf \in Int
BY DEF DataCriteria, Opt

\* The filters of the query and what they mean, for a selection ...
LEMMA MatchingSelections ==
  ASSUME NEW s, s.recordedAt \in Int, s.temperature \in Int, NEW c \in DataCriteria
  PROVE  /\ SelectionMatches(s, c) =>
              /\ c.task \in {None, s.task} /\ c.lights \in {None, s.headlightsOn}
              /\ ~\E bound \in {c.from} \ {None} : s.recordedAt < bound
              /\ ~\E bound \in {c.to} \ {None} : s.recordedAt > bound
              /\ ~\E bound \in {c.minTemp} \ {None} : 10 * s.temperature < bound
              /\ ~\E bound \in {c.maxTemp} \ {None} : 10 * s.temperature > bound
         /\ /\ c.task \in {None, s.task} /\ c.lights \in {None, s.headlightsOn}
            /\ ~\E bound \in {c.from} \ {None} : s.recordedAt < bound
            /\ ~\E bound \in {c.to} \ {None} : s.recordedAt > bound
            /\ ~\E bound \in {c.minTemp} \ {None} : 10 * s.temperature < bound
            /\ ~\E bound \in {c.maxTemp} \ {None} : 10 * s.temperature > bound
            /\ 10 * s.temperature \notin {c.minTemp, c.maxTemp} \intersect (Below \union Above)
            => SelectionMatches(s, c)
<1> DEFINE low == c.minTemp
           high == c.maxTemp
           temp == 10 * s.temperature
<1>1. /\ c.from # None => c.from \in Int
      /\ c.to # None => c.to \in Int
      /\ low # None => low \in Int
      /\ high # None => high \in Int
      /\ temp \in Int
  BY CriteriaTypes
<1>2. SelectionMatches(s, c) <=>
        /\ c.task # None => s.task = c.task
        /\ c.from # None => s.recordedAt >= c.from
        /\ c.to # None => s.recordedAt <= c.to
        /\ low # None => Single(temp) >= 10 * low
        /\ high # None => Single(temp) <= 10 * high
        /\ c.lights # None => s.headlightsOn = c.lights
  BY DEF SelectionMatches, Given
<1> HIDE DEF low, high, temp
<1>3. /\ low # None => (Single(temp) >= 10 * low => temp >= low)
      /\ low # None /\ ~(temp < low) /\ temp \notin {low, high} \intersect (Below \union Above)
           => Single(temp) >= 10 * low
      /\ high # None => (Single(temp) <= 10 * high => temp <= high)
      /\ high # None /\ ~(temp > high) /\ temp \notin {low, high} \intersect (Below \union Above)
           => Single(temp) <= 10 * high
  BY <1>1, Compared
<1>4. ASSUME SelectionMatches(s, c)
      PROVE  /\ c.task \in {None, s.task} /\ c.lights \in {None, s.headlightsOn}
             /\ ~\E bound \in {c.from} \ {None} : s.recordedAt < bound
             /\ ~\E bound \in {c.to} \ {None} : s.recordedAt > bound
             /\ ~\E bound \in {low} \ {None} : temp < bound
             /\ ~\E bound \in {high} \ {None} : temp > bound
  BY <1>1, <1>2, <1>3, <1>4
<1>5. ASSUME /\ c.task \in {None, s.task} /\ c.lights \in {None, s.headlightsOn}
             /\ ~\E bound \in {c.from} \ {None} : s.recordedAt < bound
             /\ ~\E bound \in {c.to} \ {None} : s.recordedAt > bound
             /\ ~\E bound \in {low} \ {None} : temp < bound
             /\ ~\E bound \in {high} \ {None} : temp > bound
             /\ temp \notin {low, high} \intersect (Below \union Above)
      PROVE  SelectionMatches(s, c)
  BY <1>1, <1>2, <1>3, <1>5
<1> QED BY <1>4, <1>5 DEF low, high, temp

\* ... a label ...
LEMMA MatchingLabels ==
  ASSUME NEW l, l.count \in Int, l.confidence \in Int, NEW c \in DataCriteria
  PROVE  /\ LabelMatches(l, c) =>
              /\ c.class \in {None, l.object_class}
              /\ ~\E bound \in {c.minCount} \ {None} : l.count < bound
              /\ ~\E bound \in {c.minConf} \ {None} : l.confidence < bound
         /\ /\ c.class \in {None, l.object_class}
            /\ ~\E bound \in {c.minCount} \ {None} : l.count < bound
            /\ ~\E bound \in {c.minConf} \ {None} : l.confidence < bound
            /\ l.confidence \notin {c.minConf} \intersect Below
            => LabelMatches(l, c)
<1>1. /\ c.minCount # None => c.minCount \in Int
      /\ c.minConf # None => c.minConf \in Int
  BY CriteriaTypes
<1>2. LabelMatches(l, c) <=>
        /\ c.class # None => l.object_class = c.class
        /\ c.minCount # None => l.count >= c.minCount
        /\ c.minConf # None => Single(l.confidence) >= 10 * c.minConf
  BY DEF LabelMatches, Given
<1>3. c.minConf # None =>
        /\ Single(l.confidence) >= 10 * c.minConf => l.confidence >= c.minConf
        /\ ~(l.confidence < c.minConf) /\ l.confidence \notin {c.minConf} \intersect Below
             => Single(l.confidence) >= 10 * c.minConf
  BY <1>1, Compared
<1> QED BY <1>1, <1>2, <1>3

\* ... and a tag.
LEMMA MatchingTags ==
  ASSUME NEW o, NEW c
  PROVE  TagMatches(o, c) <=> /\ c.weather \in {None, o.weather}
                              /\ c.time \in {None, o.time_of_day}
                              /\ c.road \in {None, o.road_surface}
BY DEF TagMatches, Given

LEMMA JoinedPairs ==
  ASSUME NEW c, NEW hit, hit \in Joined(db, c)
  PROVE  /\ hit = <<hit[1], hit[2]>> /\ hit[1] \in db.selections /\ SelectionMatches(hit[1], c)
         /\ HasTagFilter(c) => /\ hit[2] \in db.oddTags /\ hit[2].video = hit[1].id
                               /\ TagMatches(hit[2], c)
         /\ ~HasTagFilter(c) => hit[2] = None
         /\ HasLabelFilter(c) =>
              \E l \in db.labels : l.video = hit[1].id /\ LabelMatches(l, c)
<1>1. hit \in db.selections \X (IF HasTagFilter(c) THEN db.oddTags ELSE {None})
  BY DEF Joined
<1> QED BY <1>1 DEF Joined

LEMMA Typed ==
  ASSUME Tables
  PROVE  /\ \A s \in db.selections : s.id \in Nat /\ s.recordedAt \in Int /\ s.temperature \in Int
         /\ \A l \in db.labels : l.count \in Int /\ l.confidence \in Int
         /\ \A r \in db.rejections : r.id \in Nat
<1>1. MaxInt \in Nat
  BY DataAssumption
<1>2. \A x \in 0 .. 1000 : x \in Int
  OBVIOUS
<1>3. \A x \in Temperatures : x \in Int
  BY DEF Temperatures
<1>4. \A x \in 1 .. MaxInt : x \in Nat
  BY <1>1
<1>5. \A x \in 0 .. MaxInt : x \in Int
  BY <1>1
<1>6. ASSUME NEW s \in db.selections
      PROVE  s.id \in Nat /\ s.recordedAt \in Int /\ s.temperature \in Int
  BY <1>3, <1>4 DEF Tables, TablesTyped, SelectionTyped
<1>7. ASSUME NEW l \in db.labels PROVE l.count \in Int /\ l.confidence \in Int
  <2>1. l.count \in 0 .. MaxInt /\ l.confidence \in 0 .. 1000
    BY DEF Tables, TablesTyped, LabelTyped
  <2> QED BY <1>2, <1>5, <2>1, SMTT(30)
<1>8. \A r \in db.rejections : r.id \in Nat
  BY DEF Tables, TablesTyped
<1> QED BY <1>6, <1>7, <1>8

LEMMA JoinedAreSought ==
  ASSUME Tables, NEW c \in DataCriteria, NEW hit, hit \in Joined(db, c)
  PROVE  Sought(hit[1], c)
<1> DEFINE s == hit[1]
<1>1. /\ s \in db.selections /\ SelectionMatches(s, c)
      /\ HasTagFilter(c) => \E o \in db.oddTags : o.video = s.id /\ TagMatches(o, c)
      /\ HasLabelFilter(c) => \E l \in db.labels : l.video = s.id /\ LabelMatches(l, c)
  BY JoinedPairs
<1> HIDE DEF s
<1>2. s.recordedAt \in Int /\ s.temperature \in Int /\ \A l \in db.labels : l.count \in Int /\ l.confidence \in Int
  BY <1>1, Typed
<1>3. /\ c.task \in {None, s.task} /\ c.lights \in {None, s.headlightsOn}
      /\ ~\E bound \in {c.from} \ {None} : s.recordedAt < bound
      /\ ~\E bound \in {c.to} \ {None} : s.recordedAt > bound
      /\ ~\E bound \in {c.minTemp} \ {None} : 10 * s.temperature < bound
      /\ ~\E bound \in {c.maxTemp} \ {None} : 10 * s.temperature > bound
  BY <1>1, <1>2, MatchingSelections
<1>4. {c.weather, c.time, c.road} # {None} =>
        \E o \in db.oddTags :
          /\ o.video = s.id
          /\ c.weather \in {None, o.weather}
          /\ c.time \in {None, o.time_of_day}
          /\ c.road \in {None, o.road_surface}
  BY <1>1, MatchingTags DEF HasTagFilter
<1>5. c.class # None \/ {c.minCount, c.minConf} \ {None, 0} # {} =>
        \E l \in db.labels :
          /\ l.video = s.id
          /\ c.class \in {None, l.object_class}
          /\ ~\E bound \in {c.minCount} \ {None} : l.count < bound
          /\ ~\E bound \in {c.minConf} \ {None} : l.confidence < bound
  <2>1. c.class # None \/ {c.minCount, c.minConf} \ {None, 0} # {} => HasLabelFilter(c)
    BY DEF HasLabelFilter
  <2> QED BY <1>1, <1>2, <2>1, MatchingLabels
<1> QED BY <1>3, <1>4, <1>5 DEF Sought, s

LEMMA SoughtAreJoined ==
  ASSUME Tables, NEW c \in DataCriteria, NEW s \in db.selections, Sought(s, c),
         ~AtInexactBound(s, c)
  PROVE  s.id \in Ids(Joined(db, c))
<1>1. s.recordedAt \in Int /\ s.temperature \in Int /\ \A l \in db.labels : l.count \in Int /\ l.confidence \in Int
  BY Typed
<1>2. SelectionMatches(s, c)
  <2>1. 10 * s.temperature \notin {c.minTemp, c.maxTemp} \intersect (Below \union Above)
    BY DEF AtInexactBound
  <2>2. /\ c.task \in {None, s.task} /\ c.lights \in {None, s.headlightsOn}
        /\ ~\E bound \in {c.from} \ {None} : s.recordedAt < bound
        /\ ~\E bound \in {c.to} \ {None} : s.recordedAt > bound
        /\ ~\E bound \in {c.minTemp} \ {None} : 10 * s.temperature < bound
        /\ ~\E bound \in {c.maxTemp} \ {None} : 10 * s.temperature > bound
    BY DEF Sought
  <2> QED BY <1>1, <2>1, <2>2, MatchingSelections
<1>3. PICK tag : IF HasTagFilter(c)
                 THEN tag \in db.oddTags /\ tag.video = s.id /\ TagMatches(tag, c)
                 ELSE tag = None
  <2>1. HasTagFilter(c) => \E o \in db.oddTags : o.video = s.id /\ TagMatches(o, c)
    BY MatchingTags DEF Sought, HasTagFilter
  <2> QED BY <2>1
<1>4. HasLabelFilter(c) => \E l \in db.labels : l.video = s.id /\ LabelMatches(l, c)
  <2>1. HasLabelFilter(c) => c.class # None \/ {c.minCount, c.minConf} \ {None, 0} # {}
    BY DEF HasLabelFilter
  <2>2. \A l \in db.labels : l.video = s.id => l.confidence \notin {c.minConf} \intersect Below
    BY DEF AtInexactBound
  <2>3. HasLabelFilter(c) =>
          \E l \in db.labels :
            /\ l.video = s.id
            /\ c.class \in {None, l.object_class}
            /\ ~\E bound \in {c.minCount} \ {None} : l.count < bound
            /\ ~\E bound \in {c.minConf} \ {None} : l.confidence < bound
    BY <2>1 DEF Sought
  <2> QED BY <1>1, <2>2, <2>3, MatchingLabels
<1>5. <<s, tag>> \in Joined(db, c)
  BY <1>2, <1>3, <1>4 DEF Joined
<1> QED BY <1>5 DEF Ids

\* A video that one task has tagged is joined once.
LEMMA JoinedOnce ==
  ASSUME Tables, NEW c, NEW g \in Joined(db, c), NEW h \in Joined(db, c), g[1].id = h[1].id,
         ~Tangled(g[1])
  PROVE  g = h
<1>1. g[1] = h[1]
  <2>1. Key("selection", g[1]) = Key("selection", h[1])
    BY DEF Key, SelectionKey
  <2>2. Keyed("selection", db.selections)
    BY DEF Tables, Keys
  <2> QED BY <2>1, <2>2, JoinedPairs DEF Keyed
<1>2. g[2] = h[2]
  <2>1. CASE HasTagFilter(c)
    <3>1. /\ g[2] \in db.oddTags /\ g[2].video = g[1].id
          /\ h[2] \in db.oddTags /\ h[2].video = g[1].id
      BY <1>1, <2>1, JoinedPairs
    <3>2. g[2].task = g[1].task /\ h[2].task = g[1].task
      BY <3>1 DEF Tangled
    <3>3. Key("odd_tagging", g[2]) = Key("odd_tagging", h[2])
      BY <3>1, <3>2 DEF Key, OddTagKey
    <3>4. Keyed("odd_tagging", db.oddTags)
      BY DEF Tables, Keys
    <3> QED BY <3>1, <3>3, <3>4 DEF Keyed
  <2>2. CASE ~HasTagFilter(c)
    BY <2>2, JoinedPairs
  <2> QED BY <2>1, <2>2
<1>3. g = <<g[1], g[2]>> /\ h = <<h[1], h[2]>>
  BY JoinedPairs, Zenon
<1> QED BY <1>1, <1>2, <1>3, Zenon

LEMMA AnswersAreSortable ==
  ASSUME Tables, NEW r
  PROVE  /\ Sortable(Answer(r)) /\ Ids(Answer(r)) \subseteq Nat
         /\ r.path = "data" => \A hit \in Answer(r) : hit[1] \in db.selections
<1>1. CASE r.path = "data"
  <2> DEFINE tags == IF HasTagFilter(r.criteria) THEN db.oddTags ELSE {None}
  <2>1. IsFiniteSet(db.selections) /\ IsFiniteSet(tags)
    BY FS_Singleton DEF Tables, FiniteTables
  <2>2. Answer(r) \subseteq db.selections \X tags
    BY <1>1 DEF Answer, Joined
  <2> HIDE DEF tags
  <2>3. IsFiniteSet(Answer(r))
    BY <2>1, <2>2, FS_Product, FS_Subset
  <2>4. \A hit \in Answer(r) : hit[1] \in db.selections /\ hit[1].id \in Nat
    BY <2>2, Typed
  <2> QED BY <2>3, <2>4 DEF Sortable, Ids
<1>2. CASE r.path # "data"
  <2> DEFINE rows == {x \in db.rejections : RejectionMatches(x, r.criteria)}
  <2>1. Answer(r) = rows \X {None} /\ rows \subseteq db.rejections
    BY <1>2 DEF Answer, RejectionRows
  <2>2. IsFiniteSet(db.rejections)
    BY DEF Tables, FiniteTables
  <2>3. IsFiniteSet(rows) /\ IsFiniteSet({None})
    BY <2>1, <2>2, FS_Subset, FS_Singleton
  <2> HIDE DEF rows
  <2>4. IsFiniteSet(Answer(r))
    BY <2>1, <2>3, FS_Product
  <2>5. \A hit \in Answer(r) : hit[1].id \in Nat
    BY <2>1, Typed
  <2> QED BY <1>2, <2>4, <2>5 DEF Sortable, Ids
<1> QED BY <1>1, <1>2

\* The rows of a request that have one id are one row, but for videos of several tasks.
LEMMA AnsweredOnce ==
  ASSUME Tables, NEW r, NEW g \in Answer(r), NEW h \in Answer(r), g[1].id = h[1].id,
         ~(r.path = "data" /\ \E s \in db.selections : s.id = g[1].id /\ Tangled(s))
  PROVE  g = h
<1>1. CASE r.path = "data"
  <2>1. g \in Joined(db, r.criteria) /\ h \in Joined(db, r.criteria)
    BY <1>1 DEF Answer
  <2>2. ~Tangled(g[1])
    BY <1>1, <2>1, JoinedPairs
  <2> QED BY <2>1, <2>2, JoinedOnce
<1>2. CASE r.path # "data"
  <2>1. /\ g = <<g[1], None>> /\ h = <<h[1], None>>
        /\ g[1] \in db.rejections /\ h[1] \in db.rejections
    BY <1>2 DEF Answer, RejectionRows
  <2>2. g[1] = h[1]
    BY <2>1 DEF Tables, Keys
  <2> QED BY <2>1, <2>2, Zenon
<1> QED BY <1>1, <1>2

\* Nothing that is stored leaves an answer.
LEMMA AnswersGrow ==
  ASSUME Grows, NEW r
  PROVE  /\ Answer(r) \subseteq Answer(r)'
         /\ \A s : /\ Tangled(s) => Tangled(s)'
                   /\ \A c : Sought(s, c) => Sought(s, c)'
<1>1. /\ db.selections \subseteq db'.selections /\ db.oddTags \subseteq db'.oddTags
      /\ db.labels \subseteq db'.labels /\ db.rejections \subseteq db'.rejections
  BY DEF Grows
<1>2. Answer(r) \subseteq Answer(r)'
  <2>1. CASE r.path = "data"
    <3> DEFINE c == r.criteria
    <3>1. ASSUME NEW hit \in Joined(db, c) PROVE hit \in Joined(db', c)
      <4>1. hit \in db.selections \X (IF HasTagFilter(c) THEN db.oddTags ELSE {None})
        BY DEF Joined
      <4>2. hit \in db'.selections \X (IF HasTagFilter(c) THEN db'.oddTags ELSE {None})
        BY <1>1, <4>1
      <4>3. HasLabelFilter(c) =>
              \E l \in db'.labels : l.video = hit[1].id /\ LabelMatches(l, c)
        BY <1>1 DEF Joined
      <4> QED BY <4>2, <4>3 DEF Joined
    <3> QED BY <2>1, <3>1 DEF Answer
  <2>2. CASE r.path # "data"
    BY <1>1, <2>2 DEF Answer, RejectionRows
  <2> QED BY <2>1, <2>2
<1>3. ASSUME NEW s, Tangled(s) PROVE Tangled(s)'
  BY <1>1, <1>3 DEF Tangled
<1>4. ASSUME NEW s, NEW c, Sought(s, c) PROVE Sought(s, c)'
  BY <1>1, <1>4 DEF Sought
<1> QED BY <1>2, <1>3, <1>4

-----------------------------------------------------------------------------
(***************************************************************************)
(* The walk.                                                               *)
(***************************************************************************)
Offset(r) == IF r.page = None THEN 0 ELSE (r.page - 1) * r.size

\* A request that has passed its validation, and the first page filled in.
IsNormal(n, r) ==
  /\ n \in Requests /\ n.path = r.path /\ n.criteria = r.criteria /\ n.size = r.size
  /\ n.after = r.after /\ n.size \in Nat \ {0} /\ Offset(n) = Offset(r) /\ Offset(n) \in Nat
  /\ n.after = None => /\ n.page \in Nat \ {0} /\ n.page # None
                       /\ Offset(n) = (n.page - 1) * n.size
                       /\ n.page * n.size = Offset(n) + n.size
  /\ n.after # None => n.after \in Int /\ n.page = None

LEMMA RequestTypes ==
  ASSUME NEW r \in Requests
  PROVE  /\ r.page \in Opt(Int) /\ r.after \in Opt(Int) /\ r.size \in Int
         /\ r.path = "data" => r.criteria \in DataCriteria
         /\ r.path \in {"data", "rejections"}
         /\ \A page \in Opt(Int) : [r EXCEPT !.page = page] \in Requests
         /\ \A after \in Opt(Int) : [r EXCEPT !.after = after] \in Requests
         /\ DOMAIN r = {"path", "criteria", "page", "after", "size"}
BY DEF Requests

LEMMA NormalRequests ==
  ASSUME NEW r \in Requests, Valid(r)
  PROVE  IsNormal(Normal(r), r)
<1> DEFINE n == Normal(r)
<1>1. /\ r.page \in Opt(Int) /\ r.after \in Opt(Int)
      /\ DOMAIN r = {"path", "criteria", "page", "after", "size"}
  BY RequestTypes
<1>2. r.size \in Nat \ {0} /\ (r.page # None => r.page >= 1 /\ r.after = None)
  BY DEF Valid, Given
<1>3. None \notin Int
  BY NoneAssumption
<1>4. /\ n \in Requests /\ n.path = r.path /\ n.criteria = r.criteria /\ n.size = r.size
      /\ n.after = r.after
      /\ n.page = IF r.page = None /\ r.after = None THEN 1 ELSE r.page
  <2>1. 1 \in Opt(Int)
    BY DEF Opt
  <2> QED BY <1>1, <2>1, RequestTypes DEF Normal
<1> HIDE DEF n
<1>5. n.after = None => n.page \in Nat \ {0} /\ n.page # None
  BY <1>1, <1>2, <1>3, <1>4 DEF Opt
<1>6. n.after # None => n.after \in Int /\ n.page = None
  BY <1>1, <1>2, <1>4 DEF Opt
<1>7. \A p \in Nat \ {0} : (p - 1) * r.size \in Nat /\ p * r.size = (p - 1) * r.size + r.size
  BY <1>2
<1>8. Offset(n) = Offset(r)
  <2>1. CASE r.page = None /\ r.after = None
    BY <1>2, <1>3, <1>4, <2>1 DEF Offset
  <2>2. CASE ~(r.page = None /\ r.after = None)
    BY <1>4, <2>2 DEF Offset
  <2> QED BY <2>1, <2>2
<1> QED BY <1>2, <1>4, <1>5, <1>6, <1>7, <1>8 DEF IsNormal, Offset, n

\* PageApiResponse: the number of the last page.
LEMMA LastPage ==
  ASSUME NEW total \in Nat, NEW size \in Nat \ {0}, NEW page \in Nat
  PROVE  page >= (total + size - 1) \div size <=> total - page * size <= 0
<1> DEFINE q == (total + size - 1) \div size
<1>1. q \in Int /\ q * size <= total + size - 1 /\ total + size - 1 < (q + 1) * size
  OBVIOUS
<1> HIDE DEF q
<1>2. \A a, b \in Int : a >= b => a * size >= b * size
  OBVIOUS
<1>3. page >= q => page * size >= q * size /\ (q + 1) * size = q * size + size
  BY <1>1, <1>2
<1>4. page < q => (page + 1) * size <= q * size /\ (page + 1) * size = page * size + size
  BY <1>1, <1>2
<1> QED BY <1>1, <1>3, <1>4 DEF q

\* A page is a part of the rows, in their order.
Source(hits, n) == IF n.after # None THEN After(hits, n.after) ELSE hits
First(n) == IF n.after # None THEN 0 ELSE Offset(n)

LEMMA PageRows ==
  ASSUME NEW hits, Sortable(hits), NEW n, NEW r, IsNormal(n, r)
  PROVE  /\ Page(hits, n) = Slice(Source(hits, n), First(n), n.size)
         /\ Sortable(Source(hits, n)) /\ First(n) \in Nat /\ n.size \in Nat \ {0}
         /\ Source(hits, n) \subseteq hits
         /\ IsSlice(Page(hits, n), Source(hits, n), First(n), n.size)
<1>1. Page(hits, n) = Slice(Source(hits, n), First(n), n.size)
  BY DEF Page, IsNormal, Source, First
<1>2. First(n) \in Nat /\ n.size \in Nat \ {0}
  BY DEF First, IsNormal
<1>3. Sortable(Source(hits, n)) /\ Source(hits, n) \subseteq hits
  <2>1. CASE n.after # None
    <3>1. n.after \in Int
      BY <2>1 DEF IsNormal
    <3>2. Source(hits, n) = After(hits, n.after) /\ After(hits, n.after) \subseteq hits
      BY <2>1 DEF Source, After
    <3>3. Sortable(After(hits, n.after))
      BY <3>1, AfterIsSortable
    <3> QED BY <3>2, <3>3
  <2>2. CASE n.after = None
    BY <2>2 DEF Source
  <2> QED BY <2>1, <2>2
<1> QED BY <1>1, <1>2, <1>3, SliceRows

\* Sequences with the same places.
LEMMA ItemsOfRows ==
  ASSUME NEW rows, NEW hits, NEW offset \in Nat, NEW size \in Nat \ {0}, Sortable(hits),
         IsSlice(rows, hits, offset, size), NEW items, items = [i \in DOMAIN rows |-> items[i]]
  PROVE  /\ items = <<>> <=> rows = <<>>
         /\ rows # <<>> => Len(items) = Len(rows) /\ Len(rows) \in DOMAIN items
         /\ DOMAIN items = DOMAIN rows /\ IsFiniteSet(DOMAIN items) /\ DOMAIN items \subseteq Nat
<1>1. DOMAIN items = DOMAIN rows /\ DOMAIN items \subseteq 1 .. size
  BY DEF IsSlice
<1>2. IsFiniteSet(DOMAIN items)
  <2>1. IsFiniteSet(1 .. size)
    BY FS_Interval
  <2>2. DOMAIN items \in SUBSET (1 .. size)
    BY <1>1
  <2> QED BY <2>1, <2>2, FS_Subset
<1>3. rows = <<>> => items = <<>>
  <2>1. ASSUME rows = <<>> PROVE items = <<>>
    <3>1. DOMAIN items = {}
      BY <1>1, <2>1 DEF IsSlice
    <3> QED BY <3>1
  <2> QED BY <2>1
<1>4. ASSUME rows # <<>>
      PROVE  items # <<>> /\ Len(items) = Len(rows) /\ Len(rows) \in DOMAIN items
  <2> DEFINE n == Len(rows)
  <2>1. /\ n \in DOMAIN rows /\ \A i \in DOMAIN rows : i <= n
        /\ DOMAIN rows = {i \in 1 .. size : offset + i <= Cardinality(hits)}
    BY <1>4 DEF IsSlice
  <2> HIDE DEF n
  <2>2. Cardinality(hits) \in Nat
    BY FS_CardinalityType DEF Sortable
  <2>3. n \in Nat \ {0} /\ DOMAIN rows = 1 .. n
    BY <2>1, <2>2
  <2>4. DOMAIN items = 1 .. n /\ items = [i \in 1 .. n |-> items[i]]
    BY <1>1, <2>3
  <2>5. Len(items) = n
    BY <2>3, <2>4, EvaluatedIsItself
  <2>6. items # <<>>
    BY <2>3, <2>4
  <2> QED BY <1>1, <2>1, <2>5, <2>6 DEF n
<1> QED BY <1>1, <1>2, <1>3, <1>4

IsRow(item, row) ==
  item.selection = row /\ (TagsOf(db, row.id) # {} => item.tag \in TagsOf(db, row.id))
Shows(reply, n, rows) ==
  /\ reply.status # 400
  /\ DOMAIN reply.items = DOMAIN rows
  /\ IsFiniteSet(DOMAIN reply.items) /\ DOMAIN reply.items \subseteq Nat
  /\ reply.items = <<>> <=> rows = <<>>
  /\ \A i \in DOMAIN reply.items :
       /\ reply.items[i].id = rows[i].id
       /\ n.path = "data" => IsRow(reply.items[i], rows[i])
Ends(reply, n, hits, rows) ==
  /\ reply.last \in Opt(BOOLEAN)
  /\ n.after = None => /\ reply.last <=> Cardinality(hits) - n.page * n.size <= 0
                       /\ reply.last \in BOOLEAN
  /\ n.after # None /\ n.path = "rejections" => reply.nextAfter = None
  /\ n.after # None /\ n.path = "data" =>
       reply.nextAfter = IF rows = <<>> THEN None ELSE rows[Len(rows)].id
Answered(reply, n, hits) ==
  Shows(reply, n, Page(hits, n)) /\ Ends(reply, n, hits, Page(hits, n))

LEMMA PagesAnswer ==
  ASSUME NEW hits, Sortable(hits), NEW n, NEW r, IsNormal(n, r), n.after = None,
         NEW items
  PROVE  /\ ReplyOf(items, Cardinality(hits), n.page, n.size).last \in BOOLEAN
         /\ ReplyOf(items, Cardinality(hits), n.page, n.size).last <=>
              Cardinality(hits) - n.page * n.size <= 0
         /\ ReplyOf(items, Cardinality(hits), n.page, n.size).status # 400
         /\ ReplyOf(items, Cardinality(hits), n.page, n.size).items = items
<1>1. Cardinality(hits) \in Nat /\ n.page \in Nat /\ n.size \in Nat \ {0}
  BY FS_CardinalityType DEF Sortable, IsNormal
<1>2. n.page >= (Cardinality(hits) + n.size - 1) \div n.size <=>
        Cardinality(hits) - n.page * n.size <= 0
  BY <1>1, LastPage
<1> DEFINE reply == ReplyOf(items, Cardinality(hits), n.page, n.size)
           over == n.page >= (Cardinality(hits) + n.size - 1) \div n.size
<1>3. /\ reply.last = over
      /\ reply.status = 200 /\ reply.items = items
  BY DEF ReplyOf
<1> DEFINE all == Cardinality(hits) - n.page * n.size <= 0
<1>4. over \in BOOLEAN /\ (over <=> all)
  BY <1>2
<1> HIDE DEF reply, over, all
<1>5. reply.last \in BOOLEAN /\ (reply.last <=> all)
  BY <1>3, <1>4, Zenon
<1> QED BY <1>3, <1>5 DEF reply, all

LEMMA DataReplies ==
  ASSUME Tables, NEW n, NEW r, IsNormal(n, r), n.path = "data",
         NEW reply \in SearchData(db, n, Answer(n))
  PROVE  reply = BadRequest \/ Answered(reply, n, Answer(n))
<1> DEFINE hits == Answer(n)
           rows == Page(hits, n)
           Items(tagOf) == [i \in DOMAIN rows |-> Result(db, rows[i], tagOf[rows[i].id])]
           Reply(items) == IF n.after # None THEN ReplyOfCursor(items, Cursor(items))
                           ELSE ReplyOf(items, Cardinality(hits), n.page, n.size)
<1>1. SUFFICES ASSUME reply # BadRequest PROVE Answered(reply, n, hits)
  OBVIOUS
<1>2. reply \in {Reply(Items(tagOf)) : tagOf \in ShownTags(db, IdsOf(rows))}
  BY <1>1 DEF SearchData
<1>3. PICK tagOf \in ShownTags(db, IdsOf(rows)) : reply = Reply(Items(tagOf))
  BY <1>2
<1> DEFINE items == Items(tagOf)
<1>4. Sortable(hits)
  BY AnswersAreSortable
<1> HIDE DEF hits
<1>5. /\ Sortable(Source(hits, n)) /\ First(n) \in Nat /\ n.size \in Nat \ {0}
      /\ IsSlice(rows, Source(hits, n), First(n), n.size)
  BY <1>4, PageRows
<1>6. ASSUME NEW i \in DOMAIN rows
      PROVE  items[i].id = rows[i].id /\ IsRow(items[i], rows[i])
  <2>1. rows[i].id \in IdsOf(rows)
    BY DEF IdsOf
  <2>2. items[i] = Result(db, rows[i], tagOf[rows[i].id])
    OBVIOUS
  <2>3. TagsOf(db, rows[i].id) # {} => tagOf[rows[i].id] \in TagsOf(db, rows[i].id)
    BY <2>1 DEF ShownTags
  <2> QED BY <2>2, <2>3 DEF Result, IsRow
<1>7. items = [i \in DOMAIN rows |-> items[i]]
  OBVIOUS
<1>8. reply = Reply(items)
  BY <1>3
<1> HIDE DEF rows, items
<1>9. /\ items = <<>> <=> rows = <<>>
      /\ rows # <<>> => Len(items) = Len(rows) /\ Len(rows) \in DOMAIN items
      /\ DOMAIN items = DOMAIN rows /\ IsFiniteSet(DOMAIN items) /\ DOMAIN items \subseteq Nat
  BY <1>5, <1>7, ItemsOfRows
<1>10. reply.status # 400 /\ reply.items = items => Shows(reply, n, rows)
  <2> HIDE DEF items
  <2>1. SUFFICES ASSUME reply.status # 400, reply.items = items PROVE Shows(reply, n, rows)
    OBVIOUS
  <2>2. /\ DOMAIN reply.items = DOMAIN rows
        /\ reply.items = <<>> <=> rows = <<>>
        /\ IsFiniteSet(DOMAIN reply.items) /\ DOMAIN reply.items \subseteq Nat
    BY <1>9, <2>1
  <2>3. \A i \in DOMAIN reply.items : reply.items[i].id = rows[i].id /\ IsRow(reply.items[i], rows[i])
    BY <1>6, <2>1, <2>2
  <2> QED BY <2>1, <2>2, <2>3 DEF Shows
<1>11. CASE n.after # None
  <2>1. /\ reply.status # 400 /\ reply.items = items /\ reply.last \in Opt(BOOLEAN)
        /\ reply.nextAfter = Cursor(items)
    BY <1>8, <1>11 DEF ReplyOfCursor, Opt
  <2>2. Cursor(items) = IF rows = <<>> THEN None ELSE rows[Len(rows)].id
    BY <1>6, <1>9 DEF Cursor
  <2>3. Ends(reply, n, hits, rows)
    BY <1>11, <2>1, <2>2 DEF Ends
  <2> QED BY <1>10, <2>1, <2>3 DEF Answered, rows
<1>12. CASE n.after = None
  <2>1. reply = ReplyOf(items, Cardinality(hits), n.page, n.size)
    BY <1>8, <1>12
  <2>2. /\ reply.last \in BOOLEAN
        /\ reply.last <=> Cardinality(hits) - n.page * n.size <= 0
        /\ reply.status # 400 /\ reply.items = items
    BY <1>4, <1>12, <2>1, PagesAnswer
  <2>3. Ends(reply, n, hits, rows)
    BY <1>12, <2>2 DEF Ends, Opt
  <2> QED BY <1>10, <2>2, <2>3 DEF Answered, rows
<1> QED BY <1>11, <1>12 DEF hits

LEMMA RejectionReplies ==
  ASSUME Tables, NEW n, NEW r, IsNormal(n, r), n.path = "rejections"
  PROVE  Answered(GetRejections(n, Answer(n)), n, Answer(n))
<1> DEFINE hits == Answer(n)
           rows == Page(hits, n)
           reply == GetRejections(n, hits)
<1>1. Sortable(hits)
  BY AnswersAreSortable
<1> HIDE DEF hits
<1>2. /\ Sortable(Source(hits, n)) /\ First(n) \in Nat /\ n.size \in Nat \ {0}
      /\ IsSlice(rows, Source(hits, n), First(n), n.size)
      /\ rows = Slice(Source(hits, n), First(n), n.size)
  BY <1>1, PageRows
<1>3. rows = [i \in DOMAIN rows |-> rows[i]]
  BY <1>2 DEF Slice
<1> HIDE DEF rows
<1>4. IsFiniteSet(DOMAIN rows) /\ DOMAIN rows \subseteq Nat
  BY <1>2, <1>3, ItemsOfRows
<1> DEFINE over == (IF n.page = None THEN 1 ELSE n.page)
                     >= (Cardinality(hits) + n.size - 1) \div n.size
<1>5. reply.items = rows /\ reply.status # 400 /\ reply.nextAfter = None /\ reply.last = over
  BY DEF GetRejections, ReplyOf, rows
<1>6. over \in BOOLEAN
  OBVIOUS
<1>7. n.after = None => (reply.last \in BOOLEAN /\ (reply.last <=> Cardinality(hits) - n.page * n.size <= 0))
  <2>1. n.after = None => reply = ReplyOf(rows, Cardinality(hits), n.page, n.size)
    BY DEF GetRejections, IsNormal, rows
  <2> QED BY <1>1, <2>1, PagesAnswer
<1> HIDE DEF reply, over
<1>8. reply.last \in Opt(BOOLEAN)
  BY <1>5, <1>6, Zenon DEF Opt
<1> QED BY <1>4, <1>5, <1>7, <1>8 DEF Answered, Shows, Ends, reply, rows, hits

Alone(n, id) == ~(n.path = "data" /\ \E s \in db.selections : s.id = id /\ Tangled(s))

\* What a page misses lies behind it.
LEMMA PageMisses ==
  ASSUME Tables, NEW n, NEW r, IsNormal(n, r), NEW id \in Ids(Answer(n)),
         id \notin IdsOf(Page(Answer(n), n))
  PROVE  /\ n.after # None /\ n.after < id =>
              /\ Page(Answer(n), n) # <<>>
              /\ Page(Answer(n), n)[Len(Page(Answer(n), n))].id < id
         /\ n.after = None /\ Offset(n) <= Cardinality(Before(Answer(n), id)) =>
              /\ Offset(n) + n.size <= Cardinality(Before(Answer(n), id))
              /\ Cardinality(Answer(n)) - n.page * n.size > 0
<1> DEFINE hits == Answer(n)
           rows == Page(hits, n)
<1>1. Sortable(hits) /\ n.size \in Nat \ {0}
  BY AnswersAreSortable DEF IsNormal
<1> HIDE DEF hits
<1>2. ASSUME n.after # None, n.after < id PROVE rows # <<>> /\ rows[Len(rows)].id < id
  <2>1. n.after \in Int
    BY <1>2 DEF IsNormal
  <2>2. rows = Slice(After(hits, n.after), 0, n.size)
    BY <1>2 DEF Page
  <2>3. IsCursorPage(rows, hits, n.after)
    BY <1>1, <2>1, <2>2, CursorReads
  <2> HIDE DEF rows
  <2> QED BY <1>2, <2>3 DEF IsCursorPage, rows, hits
<1>3. ASSUME n.after = None, Offset(n) <= Cardinality(Before(hits, id))
      PROVE  /\ Offset(n) + n.size <= Cardinality(Before(hits, id))
             /\ Cardinality(hits) - n.page * n.size > 0
  <2>1. /\ Offset(n) \in Nat /\ Offset(n) = (n.page - 1) * n.size
        /\ n.page * n.size = Offset(n) + n.size
    BY <1>3 DEF IsNormal
  <2>2. rows = Slice(hits, Offset(n), n.size)
    BY <1>3, <2>1 DEF Page
  <2>3. Offset(n) + n.size <= Cardinality(Before(hits, id))
    <3>1. id \in Ids(hits) /\ id \notin IdsOf(rows)
      BY DEF hits
    <3> HIDE DEF rows
    <3> QED BY <1>1, <1>3, <2>1, <2>2, <3>1, OffsetReads
  <2>4. Cardinality(Before(hits, id)) + 1 <= Cardinality(hits)
    <3>1. id \in Ids(hits)
      BY DEF hits
    <3> QED BY <1>1, <3>1, FirstPlace
  <2>5. Cardinality(Before(hits, id)) \in Nat /\ Cardinality(hits) \in Nat
    <3>1. id \in Int
      BY <1>1 DEF hits, Ids, Sortable
    <3> QED BY <1>1, <3>1, Counted
  <2> QED BY <1>1, <2>1, <2>3, <2>4, <2>5
<1> QED BY <1>2, <1>3 DEF hits

\* What a page shows lies behind what was read before, and is shown once.
LEMMA PageShows ==
  ASSUME Tables, NEW n, NEW r, IsNormal(n, r), NEW i \in DOMAIN Page(Answer(n), n), NEW id,
         Page(Answer(n), n)[i].id = id
  PROVE  /\ id \in Nat /\ \E hit \in Answer(n) : Page(Answer(n), n)[i] = hit[1]
         /\ n.after # None => /\ n.after < id
                              /\ id <= Page(Answer(n), n)[Len(Page(Answer(n), n))].id
         /\ n.after = None => /\ Cardinality(Before(Answer(n), id)) < Offset(n) + n.size
                              /\ Alone(n, id) => Offset(n) <= Cardinality(Before(Answer(n), id))
         /\ Alone(n, id) => \A j \in DOMAIN Page(Answer(n), n) :
                              Page(Answer(n), n)[j].id = id => j = i
<1> DEFINE hits == Answer(n)
           rows == Page(hits, n)
           source == Source(hits, n)
<1>1. Sortable(hits) /\ Ids(hits) \subseteq Nat
  BY AnswersAreSortable
<1>2. Alone(n, id) => \A g, h \in hits : g[1].id = id /\ h[1].id = id => g = h
  BY AnsweredOnce DEF Alone
<1> HIDE DEF hits
<1>3. /\ Sortable(source) /\ First(n) \in Nat /\ n.size \in Nat \ {0} /\ source \subseteq hits
      /\ IsSlice(rows, source, First(n), n.size) /\ rows = Slice(source, First(n), n.size)
  BY <1>1, PageRows
<1>4. i \in DOMAIN rows /\ rows[i].id = id
  BY DEF hits
<1> HIDE DEF rows, source
<1>5. \E hit \in hits : rows[i] = hit[1]
  BY <1>3, <1>4 DEF IsSlice
<1>6. id \in Nat
  BY <1>1, <1>4, <1>5 DEF Ids
<1>7. ASSUME NEW j \in DOMAIN rows, rows[j].id = id, Alone(n, id)
      PROVE  First(n) + j = Cardinality(Before(source, id)) + 1
  <2>1. \A g, h \in source : g[1].id = id /\ h[1].id = id => g = h
    BY <1>2, <1>3, <1>7
  <2> QED BY <1>3, <1>7, <2>1, OffsetReadsOnce
<1>8. ASSUME NEW j \in DOMAIN rows, rows[j].id = id, Alone(n, id) PROVE j = i
  <2>1. i \in Int /\ j \in Int
    BY <1>3, <1>4, <1>8 DEF IsSlice
  <2>2. First(n) + i = Cardinality(Before(source, id)) + 1
    BY <1>4, <1>7, <1>8
  <2>3. First(n) + j = Cardinality(Before(source, id)) + 1
    BY <1>7, <1>8
  <2> QED BY <1>3, <2>1, <2>2, <2>3
<1>9. ASSUME n.after # None PROVE n.after < id /\ id <= rows[Len(rows)].id
  <2>1. n.after \in Int
    BY <1>9 DEF IsNormal
  <2>2. rows = Slice(After(hits, n.after), 0, n.size)
    BY <1>9 DEF Page, rows
  <2>3. IsCursorPage(rows, hits, n.after)
    BY <1>1, <1>3, <2>1, <2>2, CursorReads
  <2> QED BY <1>4, <2>3 DEF IsCursorPage
<1>10. ASSUME n.after = None
       PROVE  /\ Cardinality(Before(hits, id)) < Offset(n) + n.size
              /\ Alone(n, id) => Offset(n) <= Cardinality(Before(hits, id))
  <2>1. source = hits /\ First(n) = Offset(n)
    BY <1>10 DEF Source, First, source
  <2>2. Cardinality(Before(hits, id)) < Offset(n) + n.size
    BY <1>3, <1>4, <2>1, OffsetReadsOnce
  <2>3. i \in Nat \ {0} /\ Cardinality(Before(hits, id)) \in Nat
    <3>1. i \in 1 .. n.size
      BY <1>3, <1>4 DEF IsSlice
    <3>2. Cardinality(Before(hits, id)) \in Nat
      BY <1>1, <1>6, Counted
    <3> QED BY <1>3, <3>1, <3>2
  <2>4. Alone(n, id) => Offset(n) + i = Cardinality(Before(hits, id)) + 1
    BY <1>4, <1>7, <2>1
  <2> QED BY <1>3, <2>1, <2>2, <2>3, <2>4
<1> QED BY <1>5, <1>6, <1>8, <1>9, <1>10 DEF rows, hits

\* The counts of the client: twice is as much as it counts.
Counts(seen, items, id) ==
  /\ DOMAIN SeenAfter(seen, items) = DOMAIN seen \union IdsOf(items)
  /\ SeenAfter(seen, items) = [x \in DOMAIN SeenAfter(seen, items) |-> SeenAfter(seen, items)[x]]
  /\ SeenAfter(seen, items)[id] \in 1 .. 2
  /\ id \notin IdsOf(items) => SeenAfter(seen, items)[id] = seen[id]
  /\ id \notin DOMAIN seen /\ (\E i \in DOMAIN items : \A j \in DOMAIN items :
                                 items[j].id = id <=> j = i) =>
       SeenAfter(seen, items)[id] = 1

LEMMA Counting ==
  ASSUME NEW seen, seen \in [DOMAIN seen -> 1 .. 2], NEW items, IsFiniteSet(DOMAIN items),
         NEW id \in DOMAIN seen \union IdsOf(items)
  PROVE  Counts(seen, items, id)
<1> DEFINE places == {i \in DOMAIN items : items[i].id = id}
           before == IF id \in DOMAIN seen THEN seen[id] ELSE 0
           k == Cardinality(places)
<1>1. /\ DOMAIN SeenAfter(seen, items) = DOMAIN seen \union IdsOf(items)
      /\ SeenAfter(seen, items) = [x \in DOMAIN SeenAfter(seen, items) |-> SeenAfter(seen, items)[x]]
      /\ SeenAfter(seen, items)[id] = Min({2, before + k})
  BY DEF SeenAfter
<1>2. IsFiniteSet(places) /\ k \in Nat
  <2>1. places \in SUBSET DOMAIN items
    OBVIOUS
  <2>2. IsFiniteSet(places)
    BY <2>1, FS_Subset
  <2> QED BY <2>2, FS_CardinalityType
<1>3. before \in 0 .. 2 /\ (id \in DOMAIN seen => before = seen[id] /\ before \in 1 .. 2)
      /\ (id \notin DOMAIN seen => before = 0)
  OBVIOUS
<1>4. id \in IdsOf(items) <=> places # {}
  BY DEF IdsOf
<1>5. k = 0 <=> places = {}
  BY <1>2, FS_EmptySet
<1>6. (\E i \in DOMAIN items : \A j \in DOMAIN items : items[j].id = id <=> j = i) => k = 1
  <2>1. ASSUME NEW i \in DOMAIN items, \A j \in DOMAIN items : items[j].id = id <=> j = i
        PROVE  k = 1
    <3>1. places = {i}
      BY <2>1
    <3> QED BY <3>1, FS_Singleton
  <2> QED BY <2>1
<1> HIDE DEF places, before, k
<1>7. SeenAfter(seen, items)[id] = IF 2 <= before + k THEN 2 ELSE before + k
  <2>1. before + k \in Int
    BY <1>2, <1>3
  <2> QED BY <1>1, <2>1, SmallerOf
<1>8. SeenAfter(seen, items)[id] \in 1 .. 2
  <2>1. before + k >= 1
    BY <1>2, <1>3, <1>4, <1>5
  <2> QED BY <1>2, <1>3, <1>7, <2>1
<1> QED BY <1>1, <1>2, <1>3, <1>4, <1>5, <1>6, <1>7, <1>8 DEF Counts

(***************************************************************************)
(* The invariant of a walk w: the rows the client may still expect lie     *)
(* ahead of its next page, those it has seen lie behind.                   *)
(***************************************************************************)
Walking(w) ==
  /\ w.state \in {"reading", "refused", "done"} /\ w.req \in Requests
  /\ DOMAIN w = {"state", "req", "items", "last", "more", "seen", "stored", "due", "cursor", "legal"}
  /\ w.last \in Opt(BOOLEAN) /\ w.more \in Int
  /\ w.seen \in [DOMAIN w.seen -> 1 .. 2] /\ DOMAIN w.seen \subseteq Nat
  /\ w.stored \subseteq Tasks /\ w.due \subseteq Nat
  /\ {w.cursor, w.legal} \subseteq BOOLEAN
Began(w) ==
  /\ w.stored \subseteq Stored
  /\ w.state = "reading" => (w.cursor <=> w.req.after # None)
Ahead(w) ==
  w.state = "reading" /\ ~(w.req.path = "rejections" /\ w.cursor) =>
    \A id \in w.due \ DOMAIN w.seen :
      /\ id \in Ids(Answer(w.req))
      /\ w.req.after # None => w.req.after < id
      /\ w.req.after = None => Offset(w.req) <= Cardinality(Before(Answer(w.req), id))
Behind(w) ==
  w.state = "reading" =>
    \A id \in DOMAIN w.seen :
      /\ w.req.after # None => id <= w.req.after
      /\ w.req.after = None /\ w.stored = Stored =>
           Cardinality(Before(Answer(w.req), id)) < Offset(w.req)
Finds(w) ==
  w.state = "done" /\ ~(w.req.path = "rejections" /\ w.cursor) => w.due \subseteq DOMAIN w.seen
Once(w) ==
  w.cursor \/ w.stored = Stored =>
    \A id \in DOMAIN w.seen : w.seen[id] = 1 \/ ~Alone(w.req, id)
RowMatches(row, c) ==
  /\ Sought(row.selection, c)
  /\ ~Tangled(row.selection) /\ HasTagFilter(c) =>
       /\ c.weather \in {None, row.tag.weather}
       /\ c.time \in {None, row.tag.time_of_day}
       /\ c.road \in {None, row.tag.road_surface}
Matches(w) ==
  w.req.path = "data" => \A i \in DOMAIN w.items : RowMatches(w.items[i], w.req.criteria)
Last(w) == ~w.cursor /\ w.last # None => (w.last <=> w.more <= 0)

WalkInv(w) ==
  \/ w.state = "idle" /\ w.requests \subseteq Requests
  \/ Walking(w) /\ Began(w) /\ Ahead(w) /\ Behind(w) /\ Finds(w) /\ Once(w) /\ Matches(w) /\ Last(w)

DataInv == Tables /\ Documents /\ WalkInv(walk)

\* The rows a client may expect are in the answer, behind its cursor.
LEMMA DueAreAnswered ==
  ASSUME Tables, NEW r \in Requests, NEW id \in Due(r)
  PROVE  id \in Ids(Answer(r)) /\ id \in Nat /\ (r.after # None => r.after < id)
<1>1. r.after # None => r.after < id
  <2>1. r.after # None => id > r.after
    BY DEF Due, Given
  <2> QED BY <2>1
<1>2. r.path \in {"data", "rejections"} /\ (r.path = "data" => r.criteria \in DataCriteria)
  BY RequestTypes
<1>3. r.path = "rejections" => id \in Ids(Answer(r))
  BY DEF Due
<1>4. ASSUME r.path = "data" PROVE id \in Ids(Answer(r))
  <2>1. PICK s \in db.selections : id = s.id /\ Sought(s, r.criteria) /\ ~AtInexactBound(s, r.criteria)
    BY <1>4 DEF Due
  <2>2. id \in Ids(Joined(db, r.criteria))
    BY <1>2, <1>4, <2>1, SoughtAreJoined
  <2> QED BY <1>4, <2>2 DEF Answer
<1>5. Ids(Answer(r)) \subseteq Nat
  BY AnswersAreSortable
<1> QED BY <1>1, <1>2, <1>3, <1>4, <1>5

LEMMA AnswersStaySortable ==
  ASSUME NEW r
  PROVE  Tables' => Sortable(Answer(r))'
<1>1. Tables => Sortable(Answer(r))
  BY AnswersAreSortable
<1> QED BY <1>1, PTL

\* Whatever is stored, what lay ahead lies ahead.
LEMMA StoringKeepsWalk ==
  ASSUME Tables, Tables', Stays \/ Adds, NEW w, WalkInv(w)
  PROVE  WalkInv(w)'
<1>1. SUFFICES ASSUME w.state # "idle" PROVE WalkInv(w)'
  BY DEF WalkInv, Walking
<1>2. Walking(w) /\ Began(w) /\ Ahead(w) /\ Behind(w) /\ Finds(w) /\ Once(w) /\ Matches(w) /\ Last(w)
  BY <1>1 DEF WalkInv
<1> DEFINE r == w.req
<1>3. CASE Stays
  <2>1. Began(w)' /\ Once(w)'
    BY <1>2, <1>3 DEF Stays, Began, Once, Alone, Tangled
  <2>2. Answer(r)' = Answer(r)
    BY <1>3 DEF Stays, Answer
  <2>3. Ahead(w)' /\ Behind(w)'
    BY <1>2, <1>3, <2>2 DEF Stays, Ahead, Behind
  <2>4. Matches(w)'
    <3>1. \A s : (Tangled(s)' <=> Tangled(s)) /\ \A c : Sought(s, c)' <=> Sought(s, c)
      BY <1>3 DEF Stays, Tangled, Sought
    <3> QED BY <1>2, <3>1 DEF Matches, RowMatches
  <2> QED BY <1>2, <2>1, <2>3, <2>4 DEF WalkInv, Walking, Finds, Last
<1>4. CASE Adds
  <2>1. Grows /\ w.stored \subseteq Stored /\ Stored \subseteq Stored' /\ w.stored # Stored'
    BY <1>2, <1>4 DEF Adds, Began
  <2>2. /\ Answer(r) \subseteq Answer(r)' /\ Sortable(Answer(r))'
        /\ \A s : /\ Tangled(s) => Tangled(s)'
                  /\ \A c : Sought(s, c) => Sought(s, c)'
    <3>1. Sortable(Answer(r))'
      BY AnswersStaySortable
    <3> QED BY <2>1, <3>1, AnswersGrow
  <2>3. Began(w)'
    BY <1>2, <2>1 DEF Began
  <2>4. Ahead(w)'
    <3>1. Sortable(Answer(r))
      BY AnswersAreSortable
    <3>2. SUFFICES ASSUME w.state = "reading", ~(r.path = "rejections" /\ w.cursor),
                          NEW id \in w.due \ DOMAIN w.seen
                   PROVE  /\ id \in Ids(Answer(r))'
                          /\ r.after # None => r.after < id
                          /\ r.after = None => Offset(r) <= Cardinality(Before(Answer(r), id)')
      BY DEF Ahead
    <3>3. /\ id \in Ids(Answer(r))
          /\ r.after # None => r.after < id
          /\ r.after = None => Offset(r) <= Cardinality(Before(Answer(r), id))
      BY <1>2, <3>2 DEF Ahead
    <3>4. id \in Ids(Answer(r))'
      BY <2>2, <3>3 DEF Ids
    <3>5. ASSUME r.after = None PROVE Offset(r) <= Cardinality(Before(Answer(r), id)')
      <4>1. id \in Int /\ Cardinality(Before(Answer(r), id)) \in Int
        <5>1. id \in Int
          BY <1>2 DEF Walking
        <5> QED BY <3>1, <5>1, Counted
      <4>2. IsFiniteSet(Before(Answer(r), id)')
        <5>1. Before(Answer(r), id)' \in SUBSET Answer(r)' /\ IsFiniteSet(Answer(r)')
          BY <2>2 DEF Before, Sortable
        <5> QED BY <5>1, FS_Subset
      <4>3. Before(Answer(r), id) \subseteq Before(Answer(r), id)'
        BY <2>2 DEF Before
      <4>4. /\ Cardinality(Before(Answer(r), id)') \in Nat
            /\ Cardinality(Before(Answer(r), id)) <= Cardinality(Before(Answer(r), id)')
        BY <4>2, <4>3, FS_Subset, FS_CardinalityType
      <4>5. Offset(r) \in Int
        BY <1>2, RequestTypes DEF Walking, Offset, Opt
      <4> QED BY <3>3, <3>5, <4>1, <4>4, <4>5
    <3> QED BY <3>3, <3>4, <3>5
  <2>5. Behind(w)'
    BY <1>2, <2>1 DEF Behind
  <2>6. Once(w)'
    <3>1. \A id : ~Alone(r, id) => ~Alone(r, id)'
      BY <2>1, <2>2 DEF Alone, Grows
    <3> QED BY <1>2, <2>1, <3>1 DEF Once
  <2>7. Matches(w)'
    BY <1>2, <2>2 DEF Matches, RowMatches
  <2> QED BY <1>2, <2>3, <2>4, <2>5, <2>6, <2>7 DEF WalkInv, Walking, Finds, Last
<1> QED BY <1>3, <1>4

(***************************************************************************)
(* A valid request, its reply, and the walk after it.                      *)
(***************************************************************************)
Follows(v, w, n, reply) ==
  /\ DOMAIN v = DOMAIN w /\ v.stored = w.stored /\ v.due = w.due
  /\ v.cursor = w.cursor /\ v.legal = w.legal
  /\ v.items = reply.items /\ v.last = reply.last
  /\ v.seen = SeenAfter(w.seen, reply.items)
  /\ v.req = IF n.after = None THEN [n EXCEPT !.page = @ + 1] ELSE [n EXCEPT !.after = reply.nextAfter]
  /\ v.more = IF n.after = None THEN Cardinality(Answer(n)) - n.page * n.size ELSE 0
  /\ v.state = IF reply.status = 400 THEN "refused"
               ELSE IF n.after = None /\ reply.last = TRUE THEN "done"
               ELSE IF n.after # None /\ reply.nextAfter = None THEN "done" ELSE "reading"

LEMMA FollowFields ==
  ASSUME NEW w, w = walk, NEW v, v = walk', Walking(w), NEW n, NEW reply,
         Follow(n, Answer(n), reply)
  PROVE  Follows(v, w, n, reply)
<1>1. DOMAIN w = {"state", "req", "items", "last", "more", "seen", "stored", "due", "cursor", "legal"}
  BY DEF Walking
<1> QED BY <1>1 DEF Follow, Follows

LEMMA RefusedKeepsWalk ==
  ASSUME Tables, NEW w, WalkInv(w), w.state = "reading", NEW n, IsNormal(n, w.req),
         NEW v, Follows(v, w, n, BadRequest)
  PROVE  WalkInv(v)
<1>1. Walking(w) /\ Began(w) /\ Once(w)
  BY DEF WalkInv
<1>2. /\ BadRequest.status = 400 /\ BadRequest.items = <<>> /\ BadRequest.last = None
      /\ BadRequest.nextAfter = None
  BY DEF BadRequest
<1>3. v.state = "refused" /\ v.items = <<>> /\ v.last = None
  BY <1>2 DEF Follows
<1>4. v.req \in Requests /\ v.req.path = w.req.path
  <2>1. /\ n \in Requests /\ n.path = w.req.path
        /\ n.after = None => n.page \in Nat
    BY DEF IsNormal
  <2>2. DOMAIN n = {"path", "criteria", "page", "after", "size"}
    BY <2>1, RequestTypes
  <2>3. CASE n.after = None
    <3>1. v.req = [n EXCEPT !.page = n.page + 1] /\ n.page + 1 \in Opt(Int)
      BY <2>1, <2>3 DEF Follows, Opt
    <3> QED BY <2>1, <2>2, <3>1, RequestTypes
  <2>4. CASE n.after # None
    <3>1. v.req = [n EXCEPT !.after = None] /\ None \in Opt(Int)
      BY <1>2, <2>4 DEF Follows, Opt
    <3> QED BY <2>1, <2>2, <3>1, RequestTypes
  <2> QED BY <2>3, <2>4
<1>5. v.more \in Int
  <2>1. Cardinality(Answer(n)) \in Nat
    BY AnswersAreSortable, FS_CardinalityType DEF Sortable
  <2> QED BY <2>1 DEF Follows, IsNormal
<1>6. IdsOf(<<>>) = {} /\ IsFiniteSet(DOMAIN <<>>)
  BY FS_EmptySet DEF IdsOf
<1>7. v.seen = SeenAfter(w.seen, <<>>) /\ w.seen \in [DOMAIN w.seen -> 1 .. 2] /\ DOMAIN w.seen \subseteq Nat
  BY <1>1, <1>2 DEF Follows, Walking
<1>8. ASSUME NEW id \in DOMAIN w.seen \union IdsOf(<<>>)
      PROVE  /\ DOMAIN v.seen = DOMAIN w.seen \union IdsOf(<<>>)
             /\ v.seen = [x \in DOMAIN v.seen |-> v.seen[x]]
             /\ v.seen[id] \in 1 .. 2 /\ v.seen[id] = w.seen[id]
  <2> DEFINE items == <<>>
  <2>1. IsFiniteSet(DOMAIN items) /\ IdsOf(items) = {} /\ v.seen = SeenAfter(w.seen, items)
    BY <1>6, <1>7
  <2>2. id \in DOMAIN w.seen \union IdsOf(items)
    OBVIOUS
  <2> HIDE DEF items
  <2>3. Counts(w.seen, items, id)
    BY <1>7, <2>1, <2>2, Counting
  <2> QED BY <2>1, <2>2, <2>3 DEF Counts, items
<1>9. /\ v.seen \in [DOMAIN v.seen -> 1 .. 2] /\ DOMAIN v.seen = DOMAIN w.seen
      /\ \A id \in DOMAIN v.seen : v.seen[id] = w.seen[id]
  <2>1. DOMAIN v.seen = DOMAIN w.seen /\ v.seen = [x \in DOMAIN v.seen |-> v.seen[x]]
    BY <1>6, <1>7 DEF SeenAfter
  <2> QED BY <1>6, <1>8, <2>1
<1>10. Walking(v)
  <2>1. v.cursor = w.cursor /\ v.legal = w.legal /\ {w.cursor, w.legal} \subseteq BOOLEAN
    BY <1>1 DEF Walking, Follows
  <2> QED BY <1>1, <1>3, <1>4, <1>5, <1>9, <2>1 DEF Walking, Follows, Opt
<1>11. Began(v) /\ Ahead(v) /\ Behind(v) /\ Finds(v) /\ Last(v)
  BY <1>1, <1>3 DEF Began, Ahead, Behind, Finds, Last, Follows
<1>12. Once(v)
  BY <1>1, <1>4, <1>9 DEF Once, Alone, Follows
<1>13. Matches(v)
  BY <1>3 DEF Matches
<1> QED BY <1>10, <1>11, <1>12, <1>13 DEF WalkInv

Turn(w, v, n, reply) ==
  /\ w.state = "reading" /\ IsNormal(n, w.req) /\ Answered(reply, n, Answer(n))
  /\ Walking(w) /\ Began(w) /\ Ahead(w) /\ Behind(w) /\ Once(w)
  /\ Follows(v, w, n, reply)

\* What the client asks for next, and when it stops.
Turned(w, v, n) ==
  /\ v.req \in Requests /\ v.req.path = n.path /\ v.req.criteria = n.criteria
  /\ w.req.path = n.path /\ Answer(v.req) = Answer(n) /\ Answer(w.req) = Answer(n)
  /\ w.req.after = n.after /\ Offset(w.req) = Offset(n)
  /\ w.cursor <=> n.after # None
  /\ v.cursor = w.cursor /\ v.stored = w.stored /\ v.due = w.due
  /\ DOMAIN v.seen = DOMAIN w.seen \union IdsOf(Page(Answer(n), n))
  /\ v.state \in {"reading", "done"}
  /\ n.after = None =>
       /\ v.req.after = None /\ Offset(v.req) = Offset(n) + n.size
       /\ v.state = "done" <=> Cardinality(Answer(n)) - n.page * n.size <= 0
  /\ n.after # None /\ n.path = "rejections" => v.state = "done"
  /\ n.after # None /\ n.path = "data" =>
       /\ v.state = "done" <=> Page(Answer(n), n) = <<>>
       /\ v.state = "reading" =>
            /\ v.req.after # None
            /\ v.req.after = Page(Answer(n), n)[Len(Page(Answer(n), n))].id

\* The last row of a page has a number.
LEMMA LastRow ==
  ASSUME Tables, NEW n, NEW r, IsNormal(n, r), Page(Answer(n), n) # <<>>
  PROVE  Page(Answer(n), n)[Len(Page(Answer(n), n))].id \in Nat
<1> DEFINE rows == Page(Answer(n), n)
<1>1. Sortable(Answer(n))
  BY AnswersAreSortable
<1>2. IsSlice(rows, Source(Answer(n), n), First(n), n.size)
  BY <1>1, PageRows
<1>3. Len(rows) \in DOMAIN rows
  <2> HIDE DEF rows
  <2>1. rows # <<>>
    BY DEF rows
  <2> QED BY <1>2, <2>1 DEF IsSlice
<1>4. \A i \in DOMAIN Page(Answer(n), n) : Page(Answer(n), n)[i].id \in Nat
  BY PageShows
<1> QED BY <1>3, <1>4

LEMMA TurnTurns ==
  ASSUME Tables, NEW w, NEW v, NEW n, NEW reply, Turn(w, v, n, reply)
  PROVE  Turned(w, v, n)
<1> DEFINE rows == Page(Answer(n), n)
<1>1. IsNormal(n, w.req) /\ Answered(reply, n, Answer(n)) /\ Follows(v, w, n, reply)
  BY DEF Turn
<1>2. /\ n \in Requests /\ n.path = w.req.path /\ n.criteria = w.req.criteria
      /\ n.after = w.req.after /\ Offset(n) = Offset(w.req)
      /\ n.size \in Nat \ {0}
      /\ n.after = None => /\ n.page \in Nat \ {0} /\ n.page * n.size = Offset(n) + n.size
  BY <1>1 DEF IsNormal
<1>3. /\ DOMAIN n = {"path", "criteria", "page", "after", "size"}
      /\ n.path \in {"data", "rejections"}
      /\ \A page \in Opt(Int) : [n EXCEPT !.page = page] \in Requests
      /\ \A after \in Opt(Int) : [n EXCEPT !.after = after] \in Requests
  BY <1>2, RequestTypes
<1>4. /\ reply.status # 400 /\ reply.last \in Opt(BOOLEAN)
      /\ n.after # None /\ n.path = "rejections" => reply.nextAfter = None
      /\ n.after # None /\ n.path = "data" =>
           reply.nextAfter = IF rows = <<>> THEN None ELSE rows[Len(rows)].id
  BY <1>1 DEF Answered, Shows, Ends
<1>5. rows # <<>> => rows[Len(rows)].id \in Nat
  BY <1>1, LastRow
<1> HIDE DEF rows
<1>6. None \notin Int
  BY NoneAssumption
<1>7. ASSUME n.after = None
      PROVE  /\ v.req \in Requests /\ v.req.path = n.path /\ v.req.criteria = n.criteria
             /\ v.req.after = None /\ Offset(v.req) = Offset(n) + n.size
  <2>1. v.req = [n EXCEPT !.page = n.page + 1] /\ n.page + 1 \in Opt(Int)
    BY <1>1, <1>2, <1>7 DEF Follows, Opt
  <2>2. v.req.page = n.page + 1 /\ v.req.size = n.size /\ v.req.page # None
    BY <1>2, <1>3, <1>6, <1>7, <2>1
  <2>3. Offset(v.req) = n.page * n.size
    BY <1>2, <1>7, <2>2 DEF Offset
  <2> QED BY <1>2, <1>3, <1>7, <2>1, <2>3
<1>8. ASSUME n.after # None
      PROVE  /\ v.req \in Requests /\ v.req.path = n.path /\ v.req.criteria = n.criteria
             /\ v.req.after = reply.nextAfter
  <2>1. v.req = [n EXCEPT !.after = reply.nextAfter] /\ reply.nextAfter \in Opt(Int)
    BY <1>1, <1>3, <1>4, <1>5, <1>8 DEF Follows, Opt
  <2> QED BY <1>3, <2>1
<1>9. Answer(v.req) = Answer(n) /\ Answer(w.req) = Answer(n)
  BY <1>2, <1>7, <1>8 DEF Answer
<1>10. IdsOf(reply.items) = IdsOf(rows)
  BY <1>1 DEF Answered, Shows, Ends, IdsOf, rows
<1>11. DOMAIN v.seen = DOMAIN w.seen \union IdsOf(rows)
  <2>1. v.seen = SeenAfter(w.seen, reply.items)
    BY <1>1 DEF Follows
  <2> QED BY <1>10, <2>1 DEF SeenAfter
<1>12. w.cursor <=> n.after # None
  BY <1>2 DEF Turn, Began
<1>13. n.after = None => /\ v.state \in {"reading", "done"}
                         /\ v.state = "done" <=> Cardinality(Answer(n)) - n.page * n.size <= 0
  <2> DEFINE over == Cardinality(Answer(n)) - n.page * n.size <= 0
  <2>1. n.after = None => (reply.last <=> over) /\ reply.last \in BOOLEAN
    BY <1>1 DEF Answered, Shows, Ends
  <2> HIDE DEF over
  <2>2. n.after = None => (v.state = IF reply.last = TRUE THEN "done" ELSE "reading")
    BY <1>1, <1>4 DEF Follows
  <2>3. n.after = None => (v.state = "done" <=> over) /\ v.state \in {"reading", "done"}
    BY <2>1, <2>2
  <2> QED BY <2>3 DEF over
<1>14. n.after # None => v.state = IF reply.nextAfter = None THEN "done" ELSE "reading"
  BY <1>1, <1>4 DEF Follows
<1>15. n.after # None /\ n.path = "data" =>
         /\ v.state = "done" <=> rows = <<>>
         /\ v.state = "reading" => v.req.after # None /\ v.req.after = rows[Len(rows)].id
  BY <1>4, <1>5, <1>6, <1>8, <1>14
<1>16. v.cursor = w.cursor /\ v.stored = w.stored /\ v.due = w.due
  BY <1>1 DEF Follows
<1> QED
  <2>1. v.req \in Requests /\ v.req.path = n.path /\ v.req.criteria = n.criteria
    BY <1>7, <1>8
  <2>2. v.state \in {"reading", "done"}
    BY <1>13, <1>14
  <2>3. n.after # None /\ n.path = "rejections" => v.state = "done"
    BY <1>4, <1>14
  <2> QED BY <1>2, <1>7, <1>9, <1>11, <1>12, <1>13, <1>15, <1>16, <2>1, <2>2, <2>3 DEF Turned, rows

LEMMA TurnIsTyped ==
  ASSUME Tables, NEW w, NEW v, NEW n, NEW reply, Turn(w, v, n, reply)
  PROVE  Walking(v) /\ Began(v) /\ Last(v)
<1>1. /\ IsNormal(n, w.req) /\ Answered(reply, n, Answer(n)) /\ Follows(v, w, n, reply)
      /\ Walking(w) /\ Began(w)
  BY DEF Turn
<1>2. Turned(w, v, n)
  BY TurnTurns
<1> DEFINE hits == Answer(n)
<1>3. Cardinality(hits) \in Nat
  BY AnswersAreSortable, FS_CardinalityType DEF Sortable
<1>4. v.more \in Int
  BY <1>1, <1>3 DEF Follows, IsNormal
<1>5. v.seen \in [DOMAIN v.seen -> 1 .. 2] /\ DOMAIN v.seen \subseteq Nat
  <2>1. /\ v.seen = SeenAfter(w.seen, reply.items) /\ w.seen \in [DOMAIN w.seen -> 1 .. 2]
        /\ DOMAIN w.seen \subseteq Nat /\ IsFiniteSet(DOMAIN reply.items)
    BY <1>1 DEF Follows, Walking, Answered, Shows
  <2>2. \A id \in DOMAIN w.seen \union IdsOf(reply.items) : Counts(w.seen, reply.items, id)
    BY <2>1, Counting
  <2>3. /\ DOMAIN v.seen = DOMAIN w.seen \union IdsOf(reply.items)
        /\ v.seen = [x \in DOMAIN v.seen |-> v.seen[x]]
    BY <2>1 DEF SeenAfter
  <2>4. \A id \in DOMAIN v.seen : v.seen[id] \in 1 .. 2
    BY <2>1, <2>2, <2>3 DEF Counts
  <2>5. \A i \in DOMAIN Page(hits, n) : Page(hits, n)[i].id \in Nat
    BY <1>1, PageShows
  <2>6. IdsOf(reply.items) \subseteq Nat
    BY <1>1, <2>5 DEF Answered, Shows, Ends, IdsOf
  <2> QED BY <2>1, <2>3, <2>4, <2>6
<1>6. v.cursor = w.cursor /\ v.legal = w.legal /\ {w.cursor, w.legal} \subseteq BOOLEAN
  BY <1>1 DEF Walking, Follows
<1>7. Walking(v)
  <2>1. v.last = reply.last /\ reply.last \in Opt(BOOLEAN)
    BY <1>1 DEF Follows, Answered, Shows, Ends
  <2>2. v.req \in Requests /\ v.state \in {"reading", "done"}
    BY <1>2 DEF Turned
  <2> QED BY <1>1, <1>4, <1>5, <1>6, <2>1, <2>2 DEF Walking, Follows
<1>8. Began(v)
  <2>1. v.stored = w.stored /\ w.stored \subseteq Stored
    BY <1>1 DEF Began, Follows
  <2>2. n.path \in {"data", "rejections"}
    BY <1>1, RequestTypes DEF IsNormal
  <2>3. v.state = "reading" => (v.req.after # None <=> n.after # None)
    BY <1>2, <2>2 DEF Turned
  <2>4. v.cursor = w.cursor /\ (w.cursor <=> n.after # None)
    BY <1>2 DEF Turned
  <2> QED BY <2>1, <2>3, <2>4 DEF Began
<1>9. Last(v)
  <2> DEFINE over == Cardinality(hits) - n.page * n.size <= 0
  <2>1. w.cursor <=> n.after # None
    BY <1>2 DEF Turned
  <2>2. SUFFICES ASSUME n.after = None PROVE v.last <=> v.more <= 0
    BY <1>6, <2>1 DEF Last
  <2>3. reply.last <=> over
    BY <1>1, <2>2 DEF Answered, Shows, Ends
  <2>4. v.last = reply.last /\ v.more = Cardinality(hits) - n.page * n.size
    BY <1>1, <2>2 DEF Follows
  <2>5. over <=> v.more <= 0
    BY <2>4
  <2> HIDE DEF over
  <2> QED BY <2>3, <2>4, <2>5
<1> QED BY <1>7, <1>8, <1>9

\* A page takes the rows that lie ahead next.
LEMMA TurnKeepsAhead ==
  ASSUME Tables, NEW w, NEW v, NEW n, NEW reply, Turn(w, v, n, reply)
  PROVE  Ahead(v) /\ Finds(v)
<1> DEFINE hits == Answer(n)
           rows == Page(hits, n)
<1>1. IsNormal(n, w.req) /\ Ahead(w) /\ w.state = "reading" /\ Turned(w, v, n)
  BY TurnTurns DEF Turn
<1>2. n.path \in {"data", "rejections"}
  BY <1>1, RequestTypes DEF IsNormal
<1>3. SUFFICES ASSUME ~(n.path = "rejections" /\ w.cursor), NEW id \in v.due \ DOMAIN v.seen
               PROVE  /\ v.state = "reading"
                      /\ id \in Ids(Answer(v.req))
                      /\ v.req.after # None => v.req.after < id
                      /\ v.req.after = None => Offset(v.req) <= Cardinality(Before(Answer(v.req), id))
  BY <1>1 DEF Ahead, Finds, Turned
<1>4. id \in w.due \ DOMAIN w.seen /\ id \notin IdsOf(rows)
  BY <1>1, <1>3 DEF Turned
<1>5. /\ id \in Ids(hits)
      /\ n.after # None => n.after < id
      /\ n.after = None => Offset(n) <= Cardinality(Before(hits, id))
  BY <1>1, <1>3, <1>4 DEF Ahead, Turned
<1>6. /\ n.after # None => rows # <<>> /\ rows[Len(rows)].id < id
      /\ n.after = None => /\ Offset(n) + n.size <= Cardinality(Before(hits, id))
                           /\ Cardinality(hits) - n.page * n.size > 0
  BY <1>1, <1>4, <1>5, PageMisses
<1>7. CASE n.after # None
  <2>1. n.path = "data"
    BY <1>1, <1>2, <1>3, <1>7 DEF Turned
  <2> HIDE DEF rows
  <2> QED BY <1>1, <1>5, <1>6, <1>7, <2>1 DEF Turned, rows
<1>8. CASE n.after = None
  <2>1. ~(Cardinality(hits) - n.page * n.size <= 0)
    <3>1. Cardinality(hits) \in Nat
      BY AnswersAreSortable, FS_CardinalityType DEF Sortable
    <3>2. n.page \in Nat /\ n.size \in Nat
      BY <1>1, <1>8 DEF IsNormal
    <3> QED BY <1>6, <1>8, <3>1, <3>2
  <2> QED BY <1>1, <1>5, <1>6, <1>8, <2>1 DEF Turned
<1> QED BY <1>7, <1>8

\* What it shows lies behind it, and was not behind it before.
LEMMA TurnKeepsBehind ==
  ASSUME Tables, NEW w, NEW v, NEW n, NEW reply, Turn(w, v, n, reply)
  PROVE  Behind(v) /\ Once(v)
<1> DEFINE hits == Answer(n)
           rows == Page(hits, n)
<1>1. /\ IsNormal(n, w.req) /\ Behind(w) /\ Once(w) /\ w.state = "reading" /\ Turned(w, v, n)
      /\ Answered(reply, n, hits) /\ Follows(v, w, n, reply) /\ Walking(w)
  BY TurnTurns DEF Turn
<1>2. /\ n.path \in {"data", "rejections"} /\ n.size \in Nat \ {0} /\ Offset(n) \in Nat
      /\ n.after # None => n.after \in Int
  BY <1>1, RequestTypes DEF IsNormal
<1>3. ASSUME NEW id \in IdsOf(rows)
      PROVE  /\ id \in Nat
             /\ n.after # None => n.after < id /\ id <= rows[Len(rows)].id
             /\ n.after = None => /\ Cardinality(Before(hits, id)) < Offset(n) + n.size
                                  /\ Alone(n, id) => Offset(n) <= Cardinality(Before(hits, id))
             /\ Alone(n, id) => \E i \in DOMAIN rows : \A j \in DOMAIN rows : rows[j].id = id <=> j = i
  <2>1. PICK i \in DOMAIN rows : rows[i].id = id
    BY DEF IdsOf
  <2>2. /\ id \in Nat
        /\ n.after # None => n.after < id /\ id <= rows[Len(rows)].id
        /\ n.after = None => /\ Cardinality(Before(hits, id)) < Offset(n) + n.size
                             /\ Alone(n, id) => Offset(n) <= Cardinality(Before(hits, id))
        /\ Alone(n, id) => \A j \in DOMAIN rows : rows[j].id = id => j = i
    BY <1>1, <2>1, PageShows
  <2> QED BY <2>1, <2>2
<1>4. ASSUME NEW id \in DOMAIN w.seen
      PROVE  /\ n.after # None => id <= n.after
             /\ n.after = None /\ w.stored = Stored => Cardinality(Before(hits, id)) < Offset(n)
             /\ id \in Int /\ Cardinality(Before(hits, id)) \in Nat
  <2>1. id \in Int
    BY <1>1 DEF Walking
  <2>2. Cardinality(Before(hits, id)) \in Nat
    BY <2>1, AnswersAreSortable, Counted
  <2> QED BY <1>1, <2>1, <2>2 DEF Behind, Turned
<1>5. Behind(v)
  <2>1. SUFFICES ASSUME v.state = "reading", NEW id \in DOMAIN v.seen
                 PROVE  /\ v.req.after # None => id <= v.req.after
                        /\ v.req.after = None /\ v.stored = Stored =>
                             Cardinality(Before(Answer(v.req), id)) < Offset(v.req)
    BY DEF Behind
  <2>2. id \in DOMAIN w.seen \/ id \in IdsOf(rows)
    BY <1>1 DEF Turned
  <2>3. CASE n.after = None
    <3>1. v.req.after = None /\ Offset(v.req) = Offset(n) + n.size /\ Answer(v.req) = hits /\ v.stored = w.stored
      BY <1>1, <2>3 DEF Turned
    <3> HIDE DEF rows
    <3> QED BY <1>2, <1>3, <1>4, <2>2, <2>3, <3>1
  <2>4. CASE n.after # None
    <3>1. /\ rows # <<>> /\ v.req.after = rows[Len(rows)].id /\ v.req.after # None
      BY <1>1, <1>2, <2>1, <2>4 DEF Turned
    <3>2. rows[Len(rows)].id \in IdsOf(rows)
      <4>1. Sortable(hits)
        BY AnswersAreSortable
      <4>2. IsSlice(rows, Source(hits, n), First(n), n.size)
        BY <1>1, <4>1, PageRows
      <4> HIDE DEF rows
      <4> QED BY <3>1, <4>2 DEF IsSlice, IdsOf
    <3> HIDE DEF rows
    <3>3. n.after < rows[Len(rows)].id /\ rows[Len(rows)].id \in Nat
      BY <1>3, <2>4, <3>2
    <3> QED BY <1>2, <1>3, <1>4, <2>2, <2>4, <3>1, <3>3
  <2> QED BY <2>3, <2>4
<1>6. Once(v)
  <2>1. SUFFICES ASSUME w.cursor \/ w.stored = Stored, NEW id \in DOMAIN v.seen, Alone(n, id)
                 PROVE  v.seen[id] = 1
    BY <1>1 DEF Once, Turned, Alone
  <2>2. id \in DOMAIN w.seen => w.seen[id] = 1
    BY <1>1, <2>1 DEF Once, Turned, Alone
  <2>3. /\ id \in DOMAIN w.seen \union IdsOf(rows) /\ IdsOf(reply.items) = IdsOf(rows)
        /\ v.seen = SeenAfter(w.seen, reply.items) /\ w.seen \in [DOMAIN w.seen -> 1 .. 2]
        /\ IsFiniteSet(DOMAIN reply.items) /\ DOMAIN reply.items = DOMAIN rows
        /\ \A i \in DOMAIN rows : reply.items[i].id = rows[i].id
    BY <1>1 DEF Answered, Shows, Ends, IdsOf, Turned, Follows, Walking
  <2>4. Counts(w.seen, reply.items, id)
    <3> HIDE DEF rows
    <3>1. id \in DOMAIN w.seen \union IdsOf(reply.items)
      BY <2>3
    <3> QED BY <2>3, <3>1, Counting
  <2>5. CASE id \notin IdsOf(rows)
    <3> HIDE DEF rows
    <3> QED BY <2>2, <2>3, <2>4, <2>5 DEF Counts
  <2>6. CASE id \in IdsOf(rows)
    <3> HIDE DEF rows
    <3>1. id \notin DOMAIN w.seen
      <4>1. w.cursor <=> n.after # None
        BY <1>1 DEF Turned
      <4> QED BY <1>2, <1>3, <1>4, <2>1, <2>6, <4>1
    <3>2. \E i \in DOMAIN rows : \A j \in DOMAIN rows : rows[j].id = id <=> j = i
      BY <1>3, <2>1, <2>6
    <3>3. \E i \in DOMAIN reply.items : \A j \in DOMAIN reply.items : reply.items[j].id = id <=> j = i
      BY <2>3, <3>2
    <3> QED BY <2>3, <2>4, <3>1, <3>3 DEF Counts
  <2> QED BY <2>5, <2>6
<1> QED BY <1>5, <1>6

\* The tag of a video that only one task tagged is the tag it was found by.
LEMMA TurnShowsMatches ==
  ASSUME Tables, NEW w, NEW v, NEW n, NEW reply, Turn(w, v, n, reply)
  PROVE  Matches(v)
<1> DEFINE hits == Answer(n)
           rows == Page(hits, n)
           c == n.criteria
<1>1. /\ IsNormal(n, w.req) /\ Turned(w, v, n) /\ Answered(reply, n, hits) /\ v.items = reply.items
  <2>1. Turned(w, v, n)
    BY TurnTurns
  <2> QED BY <2>1 DEF Turn, Follows
<1>2. SUFFICES ASSUME n.path = "data", NEW i \in DOMAIN reply.items
               PROVE  RowMatches(reply.items[i], c)
  BY <1>1 DEF Matches, Turned
<1> DEFINE row == reply.items[i]
           s == rows[i]
<1>3. /\ row.selection = s /\ i \in DOMAIN rows
      /\ TagsOf(db, s.id) # {} => row.tag \in TagsOf(db, s.id)
  <2>1. i \in DOMAIN rows /\ IsRow(reply.items[i], rows[i])
    <3>1. Shows(reply, n, rows)
      BY <1>1 DEF Answered
    <3> QED BY <1>2, <3>1 DEF Shows
  <2> QED BY <2>1 DEF IsRow
<1>4. PICK hit \in hits : s = hit[1]
  BY <1>1, <1>3, PageShows
<1>5. hit \in Joined(db, c) /\ c \in DataCriteria
  <2>1. n \in Requests
    BY <1>1 DEF IsNormal
  <2> QED BY <1>2, <1>4, <2>1, RequestTypes DEF Answer
<1> HIDE DEF rows, s, row, c, hits
<1>6. Sought(s, c)
  BY <1>4, <1>5, JoinedAreSought
<1>7. ASSUME ~Tangled(s), HasTagFilter(c)
      PROVE  /\ c.weather \in {None, row.tag.weather}
             /\ c.time \in {None, row.tag.time_of_day}
             /\ c.road \in {None, row.tag.road_surface}
  <2>1. hit[2] \in db.oddTags /\ hit[2].video = s.id /\ TagMatches(hit[2], c)
    BY <1>4, <1>5, <1>7, JoinedPairs
  <2>2. row.tag \in db.oddTags /\ row.tag.video = s.id
    <3>1. hit[2] \in TagsOf(db, s.id)
      BY <2>1 DEF TagsOf
    <3> QED BY <1>3, <3>1 DEF TagsOf
  <2>3. hit[2].task = s.task /\ row.tag.task = s.task
    BY <1>7, <2>1, <2>2 DEF Tangled
  <2>4. OddTagKey(hit[2]) = OddTagKey(row.tag)
    BY <2>1, <2>2, <2>3 DEF OddTagKey
  <2>5. row.tag = hit[2]
    <3>1. Key("odd_tagging", hit[2]) = Key("odd_tagging", row.tag)
      BY <2>4 DEF Key
    <3>2. Keyed("odd_tagging", db.oddTags)
      BY DEF Tables, Keys
    <3> QED BY <2>1, <2>2, <3>1, <3>2 DEF Keyed
  <2>6. TagMatches(row.tag, c)
    BY <2>1, <2>5
  <2> QED BY <2>6 DEF TagMatches, Given
<1> QED BY <1>3, <1>6, <1>7 DEF RowMatches, row

(***************************************************************************)
(* The steps of the specification.                                         *)
(***************************************************************************)
LEMMA StartKeepsWalk ==
  ASSUME DataInv, Start
  PROVE  DataInv'
<1>1. walk.state = "idle" /\ UNCHANGED <<raw, tasks, analysis, db, blocks>>
  BY DEF Start
<1>2. walk.requests \subseteq Requests /\ Tables /\ Documents
  BY <1>1 DEF DataInv, WalkInv, Walking
<1>3. PICK r \in walk.requests :
        walk' = [state |-> "reading", req |-> r, items |-> <<>>, last |-> None, more |-> 0,
                 seen |-> <<>>, stored |-> Stored,
                 due |-> IF r.page \in {None, 1} THEN Due(r) ELSE {},
                 cursor |-> r.after # None, legal |-> r \notin BadRequests]
  BY DEF Start
<1>4. PICK v : v = walk'
  OBVIOUS
<1> DEFINE asked == r.after # None
           keeps == r \notin BadRequests
<1>5. /\ v.state = "reading" /\ v.req = r /\ v.items = <<>> /\ v.last = None /\ v.more = 0
      /\ v.seen = <<>> /\ v.stored = Stored
      /\ v.due = IF r.page \in {None, 1} THEN Due(r) ELSE {}
      /\ v.cursor = asked /\ v.legal = keeps
      /\ DOMAIN v = {"state", "req", "items", "last", "more", "seen", "stored", "due", "cursor", "legal"}
  BY <1>3, <1>4
<1>6. asked \in BOOLEAN /\ keeps \in BOOLEAN /\ (asked <=> r.after # None)
  OBVIOUS
<1> HIDE DEF asked, keeps
<1>7. r \in Requests /\ DOMAIN <<>> = {}
  BY <1>2
<1>8. v.due \subseteq Nat
  BY <1>2, <1>5, <1>7, DueAreAnswered
<1>9. Walking(v)
  <2>1. v.seen \in [DOMAIN v.seen -> 1 .. 2] /\ DOMAIN v.seen \subseteq Nat
    BY <1>5
  <2>2. {v.cursor, v.legal} \subseteq BOOLEAN
    BY <1>5, <1>6, Zenon
  <2> QED BY <1>5, <1>7, <1>8, <2>1, <2>2 DEF Walking, Stored, Opt
<1>10. Began(v)
  BY <1>5, <1>6 DEF Began
<1>11. Ahead(v)
  <2>1. SUFFICES ASSUME NEW id \in v.due
                 PROVE  /\ id \in Ids(Answer(r))
                        /\ r.after # None => r.after < id
                        /\ r.after = None => Offset(r) <= Cardinality(Before(Answer(r), id))
    BY <1>5 DEF Ahead
  <2>2. r.page \in {None, 1} /\ id \in Due(r)
    BY <1>5, <2>1
  <2>3. id \in Ids(Answer(r)) /\ id \in Nat /\ (r.after # None => r.after < id)
    BY <1>2, <1>7, <2>2, DueAreAnswered
  <2>4. Offset(r) = 0
    BY <1>7, <2>2, RequestTypes DEF Offset
  <2>5. Cardinality(Before(Answer(r), id)) \in Nat
    BY <1>2, <2>3, AnswersAreSortable, Counted
  <2> QED BY <2>3, <2>4, <2>5
<1>12. Behind(v) /\ Finds(v) /\ Once(v) /\ Matches(v) /\ Last(v)
  BY <1>5, <1>7 DEF Behind, Finds, Once, Matches, Last
<1>13. WalkInv(v)
  BY <1>9, <1>10, <1>11, <1>12 DEF WalkInv
<1>14. Tables' /\ Stays /\ Documents'
  BY <1>1, <1>2, NothingWritten
<1>15. WalkInv(v)'
  BY <1>2, <1>13, <1>14, StoringKeepsWalk
<1> QED BY <1>4, <1>14, <1>15 DEF DataInv

LEMMA ReadKeepsWalk ==
  ASSUME DataInv, Read
  PROVE  DataInv'
<1>1. walk.state = "reading" /\ UNCHANGED <<raw, tasks, analysis, db, blocks>> /\ Tables /\ Documents
  BY DEF Read, DataInv
<1>2. PICK w : w = walk
  OBVIOUS
<1>3. PICK v : v = walk'
  OBVIOUS
<1>4. /\ Walking(w) /\ Began(w) /\ Ahead(w) /\ Behind(w) /\ Finds(w) /\ Once(w) /\ Matches(w) /\ Last(w)
      /\ WalkInv(w) /\ w.state = "reading"
  BY <1>1, <1>2 DEF DataInv, WalkInv
<1>5. WalkInv(v)
  <2>1. CASE ~Valid(walk.req)
    <3>1. v = [w EXCEPT !.state = "refused"]
      BY <1>2, <1>3, <2>1 DEF Read
    <3>2. /\ v.state = "refused" /\ v.req = w.req /\ v.items = w.items /\ v.last = w.last
          /\ v.more = w.more /\ v.seen = w.seen /\ v.stored = w.stored /\ v.due = w.due
          /\ v.cursor = w.cursor /\ v.legal = w.legal /\ DOMAIN v = DOMAIN w
      BY <1>4, <3>1 DEF Walking
    <3>3. Walking(v)
      BY <1>4, <3>2 DEF Walking
    <3>4. Began(v) /\ Ahead(v) /\ Behind(v) /\ Finds(v)
      BY <1>4, <3>2 DEF Began, Ahead, Behind, Finds
    <3>5. Once(v) /\ Matches(v) /\ Last(v)
      BY <1>4, <3>2 DEF Once, Matches, Last
    <3> QED BY <3>3, <3>4, <3>5 DEF WalkInv
  <2>2. CASE Valid(walk.req)
    <3> DEFINE n == Normal(w.req)
    <3>1. PICK reply \in IF n.path = "data" THEN SearchData(db, n, Answer(n))
                         ELSE {GetRejections(n, Answer(n))} : Follow(n, Answer(n), reply)
      BY <1>2, <2>2 DEF Read
    <3>2. w.req \in Requests /\ Valid(w.req)
      BY <1>2, <1>4, <2>2 DEF Walking
    <3>3. IsNormal(n, w.req)
      BY <3>2, NormalRequests
    <3> HIDE DEF n
    <3>4. n.path \in {"data", "rejections"}
      BY <3>3, RequestTypes DEF IsNormal
    <3>5. reply = BadRequest \/ Answered(reply, n, Answer(n))
      <4>1. CASE n.path = "data"
        BY <1>1, <3>1, <3>3, <4>1, DataReplies
      <4>2. CASE n.path = "rejections"
        <5>1. reply = GetRejections(n, Answer(n))
          BY <3>1, <4>2
        <5> QED BY <1>1, <3>3, <4>2, <5>1, RejectionReplies
      <4> QED BY <3>4, <4>1, <4>2
    <3>6. Follows(v, w, n, reply)
      BY <1>2, <1>3, <1>4, <3>1, FollowFields
    <3>7. CASE reply = BadRequest
      BY <1>1, <1>4, <3>3, <3>6, <3>7, RefusedKeepsWalk
    <3>8. CASE Answered(reply, n, Answer(n))
      <4>1. Turn(w, v, n, reply)
        BY <1>4, <3>3, <3>6, <3>8 DEF Turn
      <4>2. Walking(v) /\ Began(v) /\ Last(v)
        BY <1>1, <4>1, TurnIsTyped
      <4>3. Ahead(v) /\ Finds(v)
        BY <1>1, <4>1, TurnKeepsAhead
      <4>4. Behind(v) /\ Once(v)
        BY <1>1, <4>1, TurnKeepsBehind
      <4>5. Matches(v)
        BY <1>1, <4>1, TurnShowsMatches
      <4> QED BY <4>2, <4>3, <4>4, <4>5 DEF WalkInv
    <3> QED BY <3>5, <3>7, <3>8
  <2> QED BY <2>1, <2>2
<1>6. Tables' /\ Stays /\ Documents'
  BY <1>1, NothingWritten
<1>7. WalkInv(v)'
  BY <1>1, <1>5, <1>6, StoringKeepsWalk
<1> QED BY <1>3, <1>6, <1>7 DEF DataInv

LEMMA WorkKeepsWalk ==
  ASSUME DataInv, NEW t \in Tasks, Work(t)
  PROVE  DataInv'
<1>1. Tables' /\ Documents' /\ (Stays \/ Adds) /\ walk' = walk /\ Tables
  BY WorkKeepsTables DEF DataInv
<1>2. PICK w : w = walk
  OBVIOUS
<1>3. WalkInv(w)
  BY <1>2 DEF DataInv
<1>4. WalkInv(w)'
  BY <1>1, <1>3, StoringKeepsWalk
<1> QED BY <1>1, <1>2, <1>4 DEF DataInv

LEMMA InitEstablishes ==
  ASSUME Init
  PROVE  DataInv
<1>1. PICK instance \in Instances :
        raw = instance.raw /\ walk = [state |-> "idle", requests |-> instance.requests]
  BY DEF Init
<1>2. raw \in [Tasks -> Files] /\ walk.state = "idle" /\ walk.requests \subseteq Requests
  BY <1>1, DataAssumption
<1>3. WalkInv(walk)
  BY <1>2 DEF WalkInv
<1>4. /\ tasks = [t \in Tasks |-> NotStarted(t)] /\ blocks = [t \in Tasks |-> 0] /\ analysis = Idle
      /\ db = [selections |-> {}, oddTags |-> {}, labels |-> {}, rejections |-> {}]
  BY DEF Init
<1>5. \A t \in Tasks : IsDocument(tasks[t]) /\ Fresh(tasks[t]) /\ tasks[t].status = "pending"
  BY <1>2, <1>4, DocumentsStart
<1>6. TablesTyped
  <2>1. blocks \in [Tasks -> 0 .. Cardinality(Tasks)]
    BY <1>4, DataAssumption, FS_CardinalityType
  <2> QED BY <1>2, <1>4, <1>5, <2>1 DEF TablesTyped, IsDocument, Idle, Opt
<1>7. FiniteTables
  BY <1>4, FS_EmptySet DEF FiniteTables
<1>8. Keys
  BY <1>4 DEF Keys, Keyed
<1>9. Blocks
  BY <1>4 DEF Blocks
<1>10. Documents
  BY <1>4, <1>5, DataAssumption DEF Documents, Documented, Idle, Stored
<1> QED BY <1>3, <1>6, <1>7, <1>8, <1>9, <1>10 DEF DataInv, Tables

LEMMA NextKeepsDataInv ==
  ASSUME DataInv, [Next]_vars
  PROVE  DataInv'
<1>1. CASE \E t \in Tasks : Work(t)
  BY <1>1, WorkKeepsWalk
<1>2. CASE Start
  BY <1>2, StartKeepsWalk
<1>3. CASE Read
  BY <1>3, ReadKeepsWalk
<1>4. CASE UNCHANGED vars
  <2>1. UNCHANGED <<raw, tasks, analysis, db, blocks, walk>>
    BY <1>4 DEF vars
  <2>2. Tables' /\ Stays /\ Documents'
    BY <2>1, NothingWritten DEF DataInv
  <2>3. PICK w : w = walk
    OBVIOUS
  <2>4. WalkInv(w) /\ Tables
    BY <2>3 DEF DataInv
  <2>5. WalkInv(w)'
    BY <2>2, <2>4, StoringKeepsWalk
  <2> QED BY <2>1, <2>2, <2>3, <2>5 DEF DataInv
<1> QED BY <1>1, <1>2, <1>3, <1>4 DEF Next

LEMMA DataInvariant == Spec => []DataInv
<1>1. Init => DataInv
  BY InitEstablishes
<1>2. DataInv /\ [Next]_vars => DataInv'
  BY NextKeepsDataInv
<1> QED BY <1>1, <1>2, PTL DEF Spec

LEMMA WalkFacts ==
  ASSUME DataInv
  PROVE  \/ walk.state = "idle"
         \/ Finds(walk) /\ Once(walk) /\ Matches(walk) /\ Last(walk)
BY DEF DataInv, WalkInv

LEMMA InitAgrees ==
  ASSUME Init, NEW t \in Tasks
  PROVE  Agrees(t)
<1>1. /\ blocks = [u \in Tasks |-> 0]
      /\ db = [selections |-> {}, oddTags |-> {}, labels |-> {}, rejections |-> {}]
  BY DEF Init
<1>2. t \notin Stored
  BY <1>1 DEF Stored
<1>3. \A stage \in Stages : TableOf(stage) = {}
  BY <1>1, TablesByStage DEF Stages
<1> QED BY <1>2, <1>3 DEF Agrees, OwnRows

LEMMA NextAgrees ==
  ASSUME Tables, Documents, \A t \in Tasks : Agrees(t), [Next]_vars
  PROVE  \A t \in Tasks : Agrees(t)'
<1>1. CASE \E t \in Tasks : Work(t)
  BY <1>1, WorkAgrees
<1>2. CASE UNCHANGED <<raw, tasks, analysis, db, blocks>>
  <2>1. \A stage : TableOf(stage)' = TableOf(stage)
    BY <1>2 DEF TableOf
  <2> QED BY <1>2, <2>1 DEF Agrees, OwnRows, Found, Stored
<1> QED BY <1>1, <1>2 DEF Next, Start, Read, vars

\* What is joined with nothing can be counted alone.
LEMMA JoinedWithNothing ==
  ASSUME NEW A, IsFiniteSet(A)
  PROVE  Cardinality(A \X {None}) = Cardinality(A)
<1> DEFINE pair == [x \in A |-> <<x, None>>]
<1>1. A \subseteq DOMAIN pair /\ A \X {None} = {pair[x] : x \in A}
  OBVIOUS
<1>2. \A x, y \in A : pair[x] = pair[y] => x = y
  OBVIOUS
<1> HIDE DEF pair
<1> QED BY <1>1, <1>2, ImageIsAsLarge

LEMMA SearchesFind ==
  ASSUME Tables, NEW t \in Tasks
  PROVE  /\ Cardinality(Joined(db, [DataSearchCriteria EXCEPT !.task = t]))
              = Cardinality(OwnRows(db.selections, t))
         /\ \A stage \in Stages :
              Cardinality(RejectionRows(db, [RejectionCriteria EXCEPT !.task = t, !.stage = stage]))
                = Cardinality(Found(t, stage))
<1>1. t # None /\ \A stage \in Stages : stage # None
  BY DataAssumption
<1>2. Cardinality(Joined(db, [DataSearchCriteria EXCEPT !.task = t]))
        = Cardinality(OwnRows(db.selections, t))
  <2> DEFINE c == [DataSearchCriteria EXCEPT !.task = t]
  <2>1. /\ c.task = t /\ c.from = None /\ c.to = None /\ c.minTemp = None /\ c.maxTemp = None
        /\ c.lights = None /\ c.weather = None /\ c.time = None /\ c.road = None
        /\ c.class = None /\ c.minCount = None /\ c.minConf = None
    BY DEF DataSearchCriteria
  <2> HIDE DEF c
  <2>2. ~HasTagFilter(c) /\ ~HasLabelFilter(c)
    BY <2>1 DEF HasTagFilter, HasLabelFilter
  <2>3. \A s : SelectionMatches(s, c) <=> s.task = t
    BY <1>1, <2>1 DEF SelectionMatches, Given
  <2>4. Joined(db, c) = OwnRows(db.selections, t) \X {None}
    BY <2>2, <2>3 DEF Joined, OwnRows
  <2>5. IsFiniteSet(OwnRows(db.selections, t))
    BY FS_Subset DEF OwnRows, Tables, FiniteTables
  <2> QED BY <2>4, <2>5, JoinedWithNothing DEF c
<1>3. ASSUME NEW stage \in Stages
      PROVE  Cardinality(RejectionRows(db, [RejectionCriteria EXCEPT !.task = t, !.stage = stage]))
               = Cardinality(Found(t, stage))
  <2> DEFINE c == [RejectionCriteria EXCEPT !.task = t, !.stage = stage]
  <2>1. /\ c.task = t /\ c.stage = stage /\ c.reason = None /\ c.source = None /\ c.field = None
    BY DEF RejectionCriteria
  <2> HIDE DEF c
  <2>2. \A r : RejectionMatches(r, c) <=> r.task = t /\ r.stage = stage
    BY <1>1, <2>1 DEF RejectionMatches, Given
  <2>3. RejectionRows(db, c) = Found(t, stage) \X {None}
    BY <2>2 DEF RejectionRows, Found
  <2>4. IsFiniteSet(Found(t, stage))
    BY FS_Subset DEF Found, Tables, FiniteTables
  <2> QED BY <2>3, <2>4, JoinedWithNothing DEF c
<1> QED BY <1>2, <1>3

LEMMA NothingIsNoPercent ==
  ASSUME NEW p, p.total \in Nat, p.processed = 0, p.rejected = 0
  PROVE  Percent(p) = 0
<1>1. \A n \in Nat : n > 0 => n \div (2 * n) = 0
  OBVIOUS
<1> QED BY <1>1 DEF Percent

-----------------------------------------------------------------------------
(***************************************************************************)
(* What is refused.                                                        *)
(***************************************************************************)
\* BadRequests names, among the requests of the client, those the models refuse.
BadRequestsAreNamed ==
  \A instance \in Instances : \A r \in instance.requests : r \in BadRequests <=> ~Valid(r)

\* Some file has a path that is longer than its column.
LongPath ==
  \E t \in Tasks : \E i \in DOMAIN raw[t].selections :
    raw[t].selections[i].cells["sourcePath"].n > MaxPath

\* A request the client has the right to make stays one from page to page.
Entitled(w) ==
  /\ w.state = "idle" => \A r \in w.requests : r \in BadRequests <=> ~Valid(r)
  /\ w.state = "reading" => (w.legal <=> Valid(w.req))
  /\ w.state = "done" => w.legal
  /\ w.state = "refused" /\ w.legal => LongPath
RefusalInv == (\A s \in db.selections : ~Readable(s) => LongPath) /\ Entitled(walk)

LEMMA StoredPaths ==
  ASSUME Tables, NEW t \in Tasks, NEW x \in SelectionPhase(t).table, x \notin db.selections,
         ~Readable(x)
  PROVE  LongPath
<1> DEFINE file == raw[t].selections
<1>1. file \in File(FieldsOf("selection")) /\ "selection" \in Stages
  <2>1. FieldsOf("selection") = SelectionFields
    BY DEF FieldsOf
  <2> QED BY <2>1 DEF Tables, TablesTyped, Files, Stages
<1>2. PICK r : /\ SelectionPhase(t) = Chunk(t, "selection", r, db.selections)
               /\ RowsOf(r, "selection", file, {})
  BY <1>1, PhaseIsChunk DEF SelectionPhase
<1>3. /\ DOMAIN r = DOMAIN file
      /\ \A i \in DOMAIN file : /\ file[i].cells \in [SelectionFields -> Cells]
                                /\ r[i] = RefineSelection(file[i].cells)
  <2>1. /\ FieldsOf("selection") = SelectionFields
        /\ \A c : RefineSingle("selection", c, {}) = RefineSelection(c)
    BY DEF FieldsOf, RefineSingle
  <2> QED BY <1>2, <2>1 DEF RowsOf
<1>4. PICK i \in DOMAIN r : r[i].record # None /\ x = Row("selection", t, r[i].record)
  <2> DEFINE accepted == {i \in DOMAIN r : r[i].record # None}
             row == [i \in accepted |-> Row("selection", t, r[i].record)]
             stored == accepted \ Ignored({Key("selection", y) : y \in db.selections},
                                          [i \in accepted |-> Key("selection", row[i])])
  <2>1. SelectionPhase(t).table = db.selections \union {row[i] : i \in stored}
    BY <1>2 DEF Chunk
  <2> QED BY <2>1
<1> DEFINE cells == file[i].cells
           rec == RefineSelection(cells).record
<1>5. /\ i \in DOMAIN file /\ cells \in [SelectionFields -> Cells] /\ rec # None
      /\ x = SelectionRow(t, rec)
  <2>1. \A rec1 : Row("selection", t, rec1) = SelectionRow(t, rec1)
    BY DEF Row
  <2> QED BY <1>3, <1>4, <2>1
<1>7. SelectionRecord(rec) /\ rec.sourcePath = PathOf(cells["sourcePath"])
  BY <1>5, SelectionRecords, SMTT(30)
<1>8. CutPath(rec.sourcePath).suffix # ".mp4" /\ rec.sourcePath \in Paths
  BY <1>5, <1>7 DEF SelectionRow, Readable, SelectionRecord
<1>9. rec.sourcePath.length > MaxPath
  BY <1>8, Clamped
<1>10. cells["sourcePath"].n > MaxPath
  BY <1>7, <1>9 DEF PathOf
<1> QED BY <1>5, <1>10 DEF LongPath

LEMMA WorkKeepsPaths ==
  ASSUME Tables, Documents, \A s \in db.selections : ~Readable(s) => LongPath,
         NEW t \in Tasks, Work(t)
  PROVE  (\A s \in db.selections : ~Readable(s) => LongPath)'
<1>1. raw' = raw
  BY WorkKeepsTables
<1>2. LongPath' <=> LongPath
  BY <1>1 DEF LongPath
<1>3. CASE Writes(t)
  BY <1>2, <1>3 DEF Writes, Readable
<1>4. CASE Commit(t)
  <2>1. db'.selections = SelectionPhase(t).table
    BY <1>4, OutcomesOf DEF Commit
  <2> QED BY <1>2, <2>1, StoredPaths DEF Readable
<1> QED BY <1>3, <1>4, WorkCases

\* GET /data refuses a valid request only because of a row it cannot read.
LEMMA UnreadableRows ==
  ASSUME Tables, NEW n, NEW r, IsNormal(n, r), n.path = "data",
         NEW reply \in SearchData(db, n, Answer(n)), reply.status = 400
  PROVE  \E s \in db.selections : ~Readable(s)
<1> DEFINE hits == Answer(n)
           rows == Page(hits, n)
           Items(tagOf) == [i \in DOMAIN rows |-> Result(db, rows[i], tagOf[rows[i].id])]
           Reply(items) == IF n.after # None THEN ReplyOfCursor(items, Cursor(items))
                           ELSE ReplyOf(items, Cardinality(hits), n.page, n.size)
<1>1. ASSUME NEW items PROVE Reply(items).status = 200
  BY DEF ReplyOfCursor, ReplyOf
<1> HIDE DEF Reply
<1>2. \E i \in DOMAIN rows : ~Readable(rows[i])
  <2>1. reply \notin {Reply(Items(tagOf)) : tagOf \in ShownTags(db, IdsOf(rows))}
    <3> SUFFICES ASSUME NEW tagOf, reply = Reply(Items(tagOf)) PROVE FALSE
      OBVIOUS
    <3> HIDE DEF Items
    <3> QED BY <1>1
  <2>2. reply \in IF \E i \in DOMAIN rows : ~Readable(rows[i]) THEN {BadRequest}
                  ELSE {Reply(Items(tagOf)) : tagOf \in ShownTags(db, IdsOf(rows))}
    BY DEF SearchData, Reply
  <2> HIDE DEF Items, rows, hits
  <2> QED BY <2>1, <2>2
<1>3. PICK i \in DOMAIN rows : ~Readable(rows[i])
  BY <1>2
<1>4. Sortable(hits) /\ \A hit \in hits : hit[1] \in db.selections
  BY AnswersAreSortable
<1> HIDE DEF hits
<1>5. /\ IsSlice(rows, Source(hits, n), First(n), n.size)
      /\ Source(hits, n) \subseteq hits
  BY <1>4, PageRows
<1>6. \E hit \in hits : rows[i] = hit[1]
  BY <1>3, <1>5 DEF IsSlice
<1> QED BY <1>3, <1>4, <1>6

\* The next page of a valid request is a valid request.
LEMMA NextIsValid ==
  ASSUME NEW r \in Requests, Valid(r), NEW w, NEW v, NEW reply,
         Follows(v, w, Normal(r), reply), v.state = "reading"
  PROVE  Valid(v.req)
<1> DEFINE n == Normal(r)
<1>1. IsNormal(n, r)
  BY NormalRequests
<1>2. /\ r.size \in 1 .. 100
      /\ r.path = "data" => /\ Given(r.criteria.minCount, LAMBDA x : x >= 0)
                            /\ Given(r.criteria.minConf, LAMBDA x : x \in 0 .. 1000)
  BY DEF Valid
<1>3. DOMAIN n = {"path", "criteria", "page", "after", "size"} /\ None \notin Int
  BY <1>1, RequestTypes, NoneAssumption, SMTT(30) DEF IsNormal
<1> HIDE DEF n
<1>4. CASE n.after = None
  <2>1. v.req = [n EXCEPT !.page = @ + 1]
    BY <1>4 DEF Follows, n
  <2>2. /\ v.req.path = r.path /\ v.req.criteria = r.criteria /\ v.req.size = r.size
        /\ v.req.after = None /\ v.req.page = n.page + 1 /\ n.page \in Nat
    BY <1>1, <1>3, <1>4, <2>1 DEF IsNormal
  <2>3. v.req.page >= 1
    BY <2>2, SMTT(30)
  <2> QED BY <1>2, <2>2, <2>3 DEF Valid, Given
<1>5. CASE n.after # None
  <2>1. v.req = [n EXCEPT !.after = reply.nextAfter]
    BY <1>5 DEF Follows, n
  <2>2. /\ v.req.path = r.path /\ v.req.criteria = r.criteria /\ v.req.size = r.size
        /\ v.req.page = None
    BY <1>1, <1>3, <1>5, <2>1 DEF IsNormal
  <2> QED BY <1>2, <2>2 DEF Valid, Given
<1> QED BY <1>4, <1>5

LEMMA ReadKeepsRefusals ==
  ASSUME DataInv, RefusalInv, Read
  PROVE  Entitled(walk)'
<1>1. walk.state = "reading" /\ UNCHANGED <<raw, tasks, db, blocks>> /\ Tables
  BY DEF Read, DataInv
<1>2. PICK w : w = walk
  OBVIOUS
<1>3. PICK v : v = walk'
  OBVIOUS
<1>4. Walking(w) /\ (w.legal <=> Valid(w.req)) /\ w.req \in Requests
  BY <1>1, <1>2 DEF DataInv, WalkInv, RefusalInv, Entitled, Walking
<1>5. Entitled(v)
  <2>1. CASE ~Valid(w.req)
    <3>1. v = [w EXCEPT !.state = "refused"]
      BY <1>2, <1>3, <2>1 DEF Read
    <3>2. v.state = "refused" /\ v.legal = w.legal
      BY <1>4, <3>1 DEF Walking
    <3> QED BY <1>4, <2>1, <3>2 DEF Entitled
  <2>2. CASE Valid(w.req)
    <3> DEFINE n == Normal(w.req)
    <3>1. PICK reply \in IF n.path = "data" THEN SearchData(db, n, Answer(n))
                         ELSE {GetRejections(n, Answer(n))} : Follow(n, Answer(n), reply)
      BY <1>2, <2>2 DEF Read
    <3>2. Follows(v, w, n, reply)
      BY <1>2, <1>3, <1>4, <3>1, FollowFields
    <3>3. v.legal /\ v.state \in {"refused", "done", "reading"}
      BY <1>4, <2>2, <3>2 DEF Follows
    <3>4. v.state = "reading" => Valid(v.req)
      BY <1>4, <2>2, <3>2, NextIsValid
    <3>5. ASSUME v.state = "refused" PROVE LongPath
      <4>1. reply.status = 400
        BY <3>2, <3>5 DEF Follows
      <4>2. IsNormal(n, w.req)
        BY <1>4, <2>2, NormalRequests
      <4> HIDE DEF n
      <4>3. n.path = "data"
        <5>1. GetRejections(n, Answer(n)).status = 200
          BY DEF GetRejections, ReplyOf
        <5> QED BY <3>1, <4>1, <5>1
      <4>4. \E s \in db.selections : ~Readable(s)
        BY <1>1, <3>1, <4>1, <4>2, <4>3, UnreadableRows
      <4> QED BY <4>4 DEF RefusalInv
    <3> QED BY <3>3, <3>4, <3>5 DEF Entitled
  <2> QED BY <2>1, <2>2
<1>6. LongPath' <=> LongPath
  BY <1>1 DEF LongPath
<1> QED BY <1>3, <1>5, <1>6 DEF Entitled

LEMMA StartKeepsRefusals ==
  ASSUME RefusalInv, Start
  PROVE  Entitled(walk)'
<1>1. PICK r \in walk.requests : /\ walk'.state = "reading" /\ walk'.req = r
                                 /\ walk'.legal = (r \notin BadRequests)
  BY DEF Start
<1>2. walk.state = "idle"
  BY DEF Start
<1> QED BY <1>1, <1>2 DEF RefusalInv, Entitled

LEMMA NextKeepsRefusals ==
  ASSUME DataInv, RefusalInv, [Next]_vars
  PROVE  RefusalInv'
<1>1. ASSUME UNCHANGED <<raw, db>> PROVE (\A s \in db.selections : ~Readable(s) => LongPath)'
  BY <1>1 DEF RefusalInv, LongPath, Readable
<1>2. ASSUME UNCHANGED <<raw, walk>> PROVE Entitled(walk)'
  BY <1>2 DEF RefusalInv, Entitled, LongPath
<1>3. ASSUME NEW t \in Tasks, Work(t) PROVE RefusalInv'
  <2>1. UNCHANGED <<raw, walk>>
    BY <1>3, WorkKeepsTables DEF DataInv
  <2>2. (\A s \in db.selections : ~Readable(s) => LongPath)'
    BY <1>3, WorkKeepsPaths DEF DataInv, RefusalInv
  <2> QED BY <1>2, <2>1, <2>2 DEF RefusalInv
<1>4. CASE Start
  BY <1>1, <1>4, StartKeepsRefusals DEF Start, RefusalInv
<1>5. CASE Read
  BY <1>1, <1>5, ReadKeepsRefusals DEF Read, RefusalInv
<1>6. CASE UNCHANGED vars
  BY <1>1, <1>2, <1>6 DEF vars, RefusalInv
<1> QED BY <1>3, <1>4, <1>5, <1>6 DEF Next

LEMMA InitRefusesNothing ==
  ASSUME BadRequestsAreNamed, Init
  PROVE  RefusalInv
<1>1. PICK instance \in Instances :
        raw = instance.raw /\ walk = [state |-> "idle", requests |-> instance.requests]
  BY DEF Init
<1>2. db.selections = {}
  BY DEF Init
<1> QED BY <1>1, <1>2 DEF RefusalInv, Entitled, BadRequestsAreNamed

-----------------------------------------------------------------------------
(***************************************************************************)
(* What is reported.                                                       *)
(***************************************************************************)
\* Neither an unlinked row nor duplicates.
ForADefect(x) == x.reason # "unlinked_record" /\ x.field # "unique_constraint"

\* The defects of a row are what its refiner finds wrong in it: a row without any is accepted,
\* under an id its rejection can have; a row that stops the analysis raises, there or when a
\* rejection with too long a source is inserted; any other row has a rejection for each defect,
\* with the source of the row.
RowIsReported(stage, row) ==
  LET r == RefineSingle(stage, row.cells, {})
  IN /\ r.record # None <=> row.defects = {}
     /\ r.raised # None \/ (\E x \in r.rejections : x.source \in LongSources) <=> Stops(row)
     /\ ~Stops(row) =>
          /\ {[field |-> x.field, reason |-> Coarse(x.reason)] : x \in r.rejections} = row.defects
          /\ \A x \in r.rejections : x.source = row.source /\ ForADefect(x)
     /\ stage # "selection" /\ r.record # None =>
          LinkSource(stage, r.record) \notin LongSources \union {""}

\* It is so for every row of every file.
DefectsAreNamed ==
  /\ "batch" \notin LongSources
  /\ \A instance \in Instances, t \in Tasks, stage \in Stages :
       \A i \in DOMAIN FileOf(instance.raw[t], stage) :
         RowIsReported(stage, FileOf(instance.raw[t], stage)[i])

\* Rejections have a source, and no two of them the same field.
Named(R) == \A x, y \in R : x.source # "" /\ (x.field = y.field => x = y)
Apart(fields) == \A i, j \in DOMAIN fields : fields[i].field = fields[j].field => i = j

LEMMA RefineNames ==
  ASSUME NEW source, NEW fields, Apart(fields)
  PROVE  Named(Refine(source, fields).rejections)
<1> DEFINE R == Refine(source, fields).rejections
           One(i) == [nth |-> i, source |-> source, field |-> fields[i].field,
                      reason |-> fields[i].caught[fields[i].res.error]]
<1>1. \/ R = {}
      \/ source # "" /\ \E wrong \in SUBSET DOMAIN fields : R = {One(i) : i \in wrong}
  BY DEF Refine, Raised, Reports
<1>2. \A i : One(i).source = source /\ One(i).field = fields[i].field
  OBVIOUS
<1> HIDE DEF R, One
<1>3. ASSUME NEW x \in R, NEW y \in R PROVE x.source # "" /\ (x.field = y.field => x = y)
  <2>1. source # "" /\ \E wrong \in SUBSET DOMAIN fields : R = {One(i) : i \in wrong}
    BY <1>1, <1>3
  <2>2. PICK i \in DOMAIN fields : x = One(i)
    BY <1>3, <2>1
  <2>3. PICK j \in DOMAIN fields : y = One(j)
    BY <1>3, <2>1
  <2>4. x.source = source /\ x.field = fields[i].field /\ y.field = fields[j].field
    BY <1>2, <2>2, <2>3
  <2> QED BY <2>1, <2>2, <2>3, <2>4 DEF Apart
<1> QED BY <1>3, ZenonT(60) DEF Named, R

LEMMA SelectionNames ==
  ASSUME NEW row
  PROVE  Named(RefineSelection(row).rejections)
<1>1. /\ IdField(row).field = "id" /\ DateField(row).field = "recordedAt"
      /\ PathField(row).field = "sourcePath"
      /\ TemperatureField(row).field \in {"sensor.temperature", "sensor.temperature.unit"}
      /\ WiperField(row).field = "sensor.wiper"
      /\ \A attr, field, res, caught : Field(attr, field, res, caught).field = field
  BY DEF IdField, DateField, PathField, TemperatureField, WiperField, Field
<1>2. \A source : Named(RefineV1(source, row).rejections)
  <2> DEFINE fields ==
        << IdField(row), DateField(row),
           Field("temperature", "temperature", Then(ParseFloat(row["temperature"]), FromCelsius),
                 SelectionCaught),
           Field("wiper", "isWiperOn",
                 Then(Bool(row["isWiperOn"]), LAMBDA on : WiperState(on, None)), MissingOnly),
           Field("headlightsOn", "headlightsOn", Bool(row["headlightsOn"]), MissingOnly),
           PathField(row) >>
  <2>1. Apart(fields)
    BY <1>1 DEF Apart
  <2>2. \A source : RefineV1(source, row) = Refine(source, fields)
    BY DEF RefineV1
  <2> HIDE DEF fields
  <2> QED BY <2>1, <2>2, RefineNames
<1>3. \A source : Named(RefineV2(source, row).rejections)
  <2> DEFINE none == << IdField(row), DateField(row), PathField(row),
                        Field("sensor", "sensor", Raise("TypeError"), SelectionCaught) >>
             all == << IdField(row), DateField(row), PathField(row), TemperatureField(row),
                       WiperField(row),
                       Field("headlightsOn", "headlights", Bool(row["sensor.headlights"]),
                             MissingOnly) >>
  <2>1. Apart(none) /\ Apart(all)
    BY <1>1 DEF Apart
  <2>2. \A source : RefineV2(source, row) \in {Refine(source, none), Refine(source, all)}
    BY DEF RefineV2
  <2> HIDE DEF none, all
  <2> QED BY <2>1, <2>2, RefineNames
<1>4. \A source, field : Named(Refine(source, <<field>>).rejections)
  <2>1. \A field : Apart(<<field>>)
    BY DEF Apart
  <2> QED BY <2>1, RefineNames
<1> QED BY <1>2, <1>3, <1>4 DEF RefineSelection

LEMMA TagNames ==
  ASSUME NEW row
  PROVE  Named(RefineOddTag(row).rejections) /\ Named(RefineLabel(row).rejections)
<1>1. /\ \A attr, field, res, caught : Field(attr, field, res, caught).field = field
      /\ \A attr, c, Values : EnumField(attr, c, Values).field = attr
      /\ \A c : ObjCountField(c).field = "obj_count"
  BY DEF EnumField, ObjCountField, Field
<1>2. Named(RefineOddTag(row).rejections)
  <2> DEFINE fields ==
        << Field("id", "id", ParseInt(row["id"]), InvalidFormat),
           Field("video", "video_id", OddVideoId(row["video_id"]), InvalidFormat),
           EnumField("weather", row["weather"], Weather),
           EnumField("time_of_day", row["time_of_day"], TimeOfDay),
           EnumField("road_surface", row["road_surface"], RoadSurface) >>
  <2>1. Apart(fields)
    BY <1>1 DEF Apart
  <2>2. RefineOddTag(row) = OddTag(Refine(row["id"].text, fields))
    BY DEF RefineOddTag
  <2> HIDE DEF fields
  <2>3. Named({})
    BY DEF Named
  <2>4. Named(Refine(row["id"].text, fields).rejections)
    BY <2>1, RefineNames
  <2> QED BY <2>2, <2>3, <2>4 DEF OddTag, Raised
<1>3. Named(RefineLabel(row).rejections)
  <2> DEFINE fields ==
        << Field("video", "video_id", Then(ParseInt(row["video_id"]), VideoId), InvalidFormat),
           EnumField("object_class", row["object_class"], ObjectClass),
           ObjCountField(row["obj_count"]),
           Field("confidence", "avg_confidence", Then(ParseFloat(row["avg_confidence"]), Confidence),
                 InvalidFormat),
           Field("labeled_at", "labeled_at", IsoDate(row["labeled_at"]), InvalidFormat) >>
  <2>1. Apart(fields)
    BY <1>1 DEF Apart
  <2>2. \E source : RefineLabel(row) = Refine(source, fields)
    BY DEF RefineLabel
  <2> HIDE DEF fields
  <2> QED BY <2>1, <2>2, RefineNames
<1> QED BY <1>2, <1>3

\* Linking takes an accepted record and makes a rejection of it, or leaves all as it was.
Unlinked(r, source) ==
  /\ r.record = None /\ r.raised = None
  /\ r.rejections = {[nth |-> 1, source |-> source, field |-> "video_id",
                      reason |-> "unlinked_record"]}

LEMMA Linked ==
  ASSUME NEW stage \in Stages, NEW cells, NEW ids
  PROVE  LET one == RefineSingle(stage, cells, {})
             r == RefineSingle(stage, cells, ids)
         IN /\ Named(one.rejections)
            /\ \/ r = one
               \/ /\ stage # "selection" /\ one.record # None
                  /\ Unlinked(r, LinkSource(stage, one.record))
<1> DEFINE one == RefineSingle(stage, cells, {})
           r == RefineSingle(stage, cells, ids)
<1>1. /\ \A refined : Link(stage, refined, {}) = refined
      /\ \A refined : \/ Link(stage, refined, ids) = refined
                      \/ /\ refined.record # None
                         /\ Unlinked(Link(stage, refined, ids), LinkSource(stage, refined.record))
  BY DEF Link, Unlinked
<1>2. CASE stage = "selection"
  <2>1. one = RefineSelection(cells) /\ r = RefineSelection(cells)
    BY <1>2 DEF RefineSingle
  <2> HIDE DEF one, r
  <2> QED BY <2>1, SelectionNames DEF one, r
<1>3. CASE stage = "odd_tagging"
  <2>1. one = RefineOddTag(cells) /\ r = Link(stage, RefineOddTag(cells), ids)
    BY <1>1, <1>3 DEF RefineSingle
  <2> HIDE DEF one, r
  <2>2. stage # "selection"
    BY <1>3
  <2> QED BY <1>1, <2>1, <2>2, TagNames DEF one, r
<1>4. CASE stage = "auto_labeling"
  <2>1. one = RefineLabel(cells) /\ r = Link(stage, RefineLabel(cells), ids)
    BY <1>1, <1>4 DEF RefineSingle
  <2> HIDE DEF one, r
  <2>2. stage # "selection"
    BY <1>4
  <2> QED BY <1>1, <2>1, <2>2, TagNames DEF one, r
<1> QED BY <1>2, <1>3, <1>4 DEF Stages

\* What becomes of a row that does not stop the analysis: it is accepted, or it is right and
\* unlinked, or it is wrong and each of its defects rejected.
Accepted(row, r) == row.defects = {} /\ r.record # None /\ r.rejections = {}
Severed(row, r) ==
  /\ row.defects = {} /\ r.record = None
  /\ \E source : source # "" /\ Unlinked(r, source)
Refused(row, r) ==
  /\ row.defects # {} /\ r.record = None /\ Named(r.rejections)
  /\ {[field |-> x.field, reason |-> Coarse(x.reason)] : x \in r.rejections} = row.defects
  /\ \A x \in r.rejections : x.source = row.source /\ ForADefect(x)

LEMMA RowIsJudged ==
  ASSUME NEW stage \in Stages, NEW row, RowIsReported(stage, row), NEW ids, NEW r,
         r = RefineSingle(stage, row.cells, ids)
  PROVE  /\ r.raised # None \/ (\E x \in r.rejections : x.source \in LongSources) <=> Stops(row)
         /\ ~Stops(row) => Accepted(row, r) \/ Severed(row, r) \/ Refused(row, r)
<1> DEFINE one == RefineSingle(stage, row.cells, {})
<1>1. /\ Named(one.rejections)
      /\ \/ r = one
         \/ /\ stage # "selection" /\ one.record # None
            /\ Unlinked(r, LinkSource(stage, one.record))
  BY Linked
<1>2. /\ one.record # None <=> row.defects = {}
      /\ one.raised # None \/ (\E x \in one.rejections : x.source \in LongSources) <=> Stops(row)
      /\ ~Stops(row) =>
           /\ {[field |-> x.field, reason |-> Coarse(x.reason)] : x \in one.rejections} = row.defects
           /\ \A x \in one.rejections : x.source = row.source /\ ForADefect(x)
      /\ stage # "selection" /\ one.record # None =>
           LinkSource(stage, one.record) \notin LongSources \union {""}
  BY DEF RowIsReported
<1> HIDE DEF one
<1>3. row.defects = {} => ~Stops(row)
  BY DEF Stops
<1>4. CASE r = one
  <2>1. ASSUME ~Stops(row), row.defects = {} PROVE one.rejections = {}
    <3>1. \A x \in one.rejections : [field |-> x.field, reason |-> Coarse(x.reason)] \in row.defects
      BY <1>2, <2>1
    <3> QED BY <2>1, <3>1
  <2> QED BY <1>1, <1>2, <1>4, <2>1 DEF Accepted, Refused
<1>5. CASE /\ stage # "selection" /\ one.record # None
           /\ Unlinked(r, LinkSource(stage, one.record))
  <2>1. row.defects = {} /\ ~Stops(row) /\ LinkSource(stage, one.record) \notin LongSources \union {""}
    BY <1>2, <1>3, <1>5
  <2>2. r.raised = None /\ ~\E x \in r.rejections : x.source \in LongSources
    <3>1. /\ r.raised = None
          /\ \A x \in r.rejections : x.source = LinkSource(stage, one.record)
      BY <1>5 DEF Unlinked
    <3> QED BY <2>1, <3>1
  <2>3. Severed(row, r)
    BY <1>5, <2>1 DEF Severed, Unlinked
  <2> QED BY <2>1, <2>2, <2>3
<1> QED BY <1>1, <1>4, <1>5

\* An analysis ends by an exception just when a row stops it.
LEMMA ChunkRaises ==
  ASSUME NEW stage \in Stages, NEW t, NEW file, NEW table, NEW ids, NEW refined,
         RowsOf(refined, stage, file, ids), "batch" \notin LongSources,
         \A i \in DOMAIN file : RowIsReported(stage, file[i])
  PROVE  Chunk(t, stage, refined, table).raised # None <=> \E i \in DOMAIN file : Stops(file[i])
<1> DEFINE accepted == {i \in DOMAIN refined : refined[i].record # None}
           raising == {i \in DOMAIN refined : refined[i].raised # None}
           row == [i \in accepted |-> Row(stage, t, refined[i].record)]
           ignored == Ignored({Key(stage, x) : x \in table}, [i \in accepted |-> Key(stage, row[i])])
           rejections == Rejections(t, stage, refined, ignored)
           raised == Chunk(t, stage, refined, table).raised
           n == Len(file)
<1>1. raised = IF raising # {} THEN refined[Min(raising)].raised
               ELSE IF \E x \in rejections : x.source \in LongSources THEN "DataError" ELSE None
  BY DEF Chunk
<1>2. /\ n \in Nat /\ DOMAIN file = 1 .. n /\ DOMAIN refined = 1 .. n
      /\ \A i \in 1 .. n : refined[i] = RefineSingle(stage, file[i].cells, ids)
  BY DEF RowsOf
<1>3. \A i \in 1 .. n :
        refined[i].raised # None \/ (\E x \in refined[i].rejections : x.source \in LongSources)
          <=> Stops(file[i])
  BY <1>2, RowIsJudged
<1>4. (\E x \in rejections : x.source \in LongSources)
        <=> \E i \in 1 .. n : \E x \in refined[i].rejections : x.source \in LongSources
  <2> HIDE DEF ignored
  <2>1. \A i, x : Rejection(t, stage, i, x).source = x.source
    BY DEF Rejection
  <2>2. \A x \in rejections \ OwnRejections(t, stage, refined) : x.source = "batch"
    BY DEF Rejections, Rejection
  <2>3. OwnRejections(t, stage, refined) \subseteq rejections
    BY DEF Rejections
  <2> HIDE DEF rejections
  <2>4. ASSUME NEW x \in rejections, x.source \in LongSources
        PROVE  \E i \in 1 .. n : \E y \in refined[i].rejections : y.source \in LongSources
    <3>1. x \in OwnRejections(t, stage, refined)
      BY <2>2, <2>4
    <3>2. PICK i \in 1 .. n : x \in {Rejection(t, stage, i, y) : y \in refined[i].rejections}
      BY <1>2, <3>1 DEF OwnRejections
    <3> QED BY <2>1, <2>4, <3>2
  <2>5. ASSUME NEW i \in 1 .. n, NEW y \in refined[i].rejections, y.source \in LongSources
        PROVE  \E x \in rejections : x.source \in LongSources
    <3>1. Rejection(t, stage, i, y) \in OwnRejections(t, stage, refined)
      BY <1>2 DEF OwnRejections
    <3> QED BY <2>1, <2>3, <2>5, <3>1
  <2> QED BY <2>4, <2>5
<1>5. raising # {} => refined[Min(raising)].raised # None
  <2> SUFFICES ASSUME raising # {} PROVE Min(raising) \in raising
    OBVIOUS
  <2>1. raising \subseteq Nat
    BY <1>2
  <2> HIDE DEF raising
  <2>2. \E x \in raising : \A y \in raising : x <= y
    BY <2>1, LeastNat
  <2> QED BY <2>2 DEF Min
<1>6. "DataError" # None
  BY DataAssumption
<1>7. raising # {} <=> \E i \in 1 .. n : refined[i].raised # None
  BY <1>2
<1> HIDE DEF raising, rejections, raised, n
<1>8. raised # None <=> raising # {} \/ \E x \in rejections : x.source \in LongSources
  BY <1>1, <1>5, <1>6
<1> QED BY <1>2, <1>3, <1>4, <1>7, <1>8 DEF raised

\* The rejections of a phase, by their reasons.
Because(R, reasons) == {r \in R : r.reason \in reasons}
Others(R) == {r \in R : ForADefect(r)}
Repeats(R) == {r \in R : r.field = "unique_constraint"}

Distinguished(R) == \A r \in R : r.reason = "unlinked_record" => r.field # "unique_constraint"
Told(R) == \A r \in R : r.source # "" /\ {"source", "stage", "field", "reason"} \subseteq DOMAIN r

Of(t, stage, refined, rows) ==
  UNION {{Rejection(t, stage, i, x) : x \in refined[i].rejections} : i \in rows}
Repeated(t, stage, n) ==
  Rejection(t, stage, n + 1,
            [nth |-> 1, source |-> "batch", field |-> "unique_constraint",
             reason |-> IF stage = "odd_tagging" THEN "duplicate_tagging" ELSE "duplicate_label"])

AcceptedRows(rows, refined) == {i \in DOMAIN rows : Accepted(rows[i], refined[i])}
SeveredRows(rows, refined) == {i \in DOMAIN rows : Severed(rows[i], refined[i])}
RefusedRows(rows, refined) == {i \in DOMAIN rows : Refused(rows[i], refined[i])}

\* The refined rows of a phase that no row stops.
Judged(rows, refined, n) ==
  /\ n \in Nat /\ rows = [i \in 1 .. n |-> rows[i]]
  /\ DOMAIN refined = 1 .. n /\ Len(refined) = n
  /\ \A i \in 1 .. n :
       /\ IsRejected(refined[i].rejections)
       /\ \/ Accepted(rows[i], refined[i])
          \/ Severed(rows[i], refined[i])
          \/ Refused(rows[i], refined[i])

LEMMA RejectionFields ==
  /\ \A t, stage, i, x :
       /\ Rejection(t, stage, i, x).source = x.source /\ Rejection(t, stage, i, x).field = x.field
       /\ Rejection(t, stage, i, x).reason = x.reason /\ Rejection(t, stage, i, x).id = 8 * i + x.nth
       /\ {"source", "stage", "field", "reason"} \subseteq DOMAIN Rejection(t, stage, i, x)
  /\ \A t, stage, n :
       /\ Repeated(t, stage, n).stage = stage /\ Repeated(t, stage, n).source = "batch"
       /\ Repeated(t, stage, n).field = "unique_constraint"
       /\ Repeated(t, stage, n).reason
            = IF stage = "odd_tagging" THEN "duplicate_tagging" ELSE "duplicate_label"
       /\ {"source", "stage", "field", "reason"} \subseteq DOMAIN Repeated(t, stage, n)
BY DEF Rejection, Repeated

\* The id of a rejection says which row it is of.
LEMMA RowOfId ==
  ASSUME NEW i \in Nat, NEW j \in Nat, NEW k \in 1 .. 6, NEW l \in 1 .. 6, 8 * i + k = 8 * j + l
  PROVE  i = j /\ k = l
<1>1. \A a, b \in Int : 0 < a /\ a < 8 /\ 0 < b /\ b < 8 /\ 8 * i + a = 8 * j + b => i = j /\ a = b
  OBVIOUS
<1>2. k \in Int /\ 0 < k /\ k < 8 /\ l \in Int /\ 0 < l /\ l < 8
  OBVIOUS
<1> QED BY <1>1, <1>2

LEMMA ReasonsOfRejections ==
  ASSUME NEW t, NEW stage, NEW rows, NEW refined, NEW n, Judged(rows, refined, n), NEW ignored,
         NEW R, R = Rejections(t, stage, refined, ignored)
  PROVE  /\ Others(R) = Of(t, stage, refined, RefusedRows(rows, refined))
         /\ Because(R, {"unlinked_record"}) = Of(t, stage, refined, SeveredRows(rows, refined))
         /\ Repeats(R) = IF ignored = {} THEN {} ELSE {Repeated(t, stage, n)}
         /\ Told(R) /\ Distinguished(R)
<1> DEFINE W == Of(t, stage, refined, RefusedRows(rows, refined))
           U == Of(t, stage, refined, SeveredRows(rows, refined))
           E == IF ignored = {} THEN {} ELSE {Repeated(t, stage, n)}
<1>1. R = Of(t, stage, refined, 1 .. n) \union E
  BY DEF Rejections, OwnRejections, Judged, Repeated, Of
<1>2. ASSUME NEW i \in 1 .. n, NEW x \in refined[i].rejections
      PROVE  \/ i \in RefusedRows(rows, refined) /\ ForADefect(x)
             \/ /\ i \in SeveredRows(rows, refined)
                /\ x.reason = "unlinked_record" /\ x.field = "video_id"
  <2>1. ~Accepted(rows[i], refined[i])
    BY <1>2 DEF Accepted
  <2>2. CASE Refused(rows[i], refined[i])
    BY <2>2 DEF Refused, RefusedRows, Judged
  <2>3. CASE Severed(rows[i], refined[i])
    <3>1. PICK source : Unlinked(refined[i], source)
      BY <2>3 DEF Severed
    <3>2. x.reason = "unlinked_record" /\ x.field = "video_id"
      BY <3>1 DEF Unlinked
    <3> QED BY <2>3, <3>2 DEF SeveredRows, Judged
  <2> QED BY <2>1, <2>2, <2>3 DEF Judged
<1>3. ASSUME NEW i \in 1 .. n, NEW x \in refined[i].rejections PROVE x.source # ""
  <2>1. ~Accepted(rows[i], refined[i])
    BY <1>3 DEF Accepted
  <2>2. CASE Refused(rows[i], refined[i])
    BY <2>2 DEF Refused, Named
  <2>3. CASE Severed(rows[i], refined[i])
    <3>1. PICK source : source # "" /\ Unlinked(refined[i], source)
      BY <2>3 DEF Severed
    <3>2. x = [nth |-> 1, source |-> source, field |-> "video_id", reason |-> "unlinked_record"]
      BY <3>1, Zenon DEF Unlinked
    <3>3. x.source = source
      BY <3>2
    <3> QED BY <3>1, <3>3
  <2> QED BY <2>1, <2>2, <2>3 DEF Judged
<1>4. RefusedRows(rows, refined) \subseteq 1 .. n /\ SeveredRows(rows, refined) \subseteq 1 .. n
  BY DEF RefusedRows, SeveredRows, Judged
<1>5. \A r, S : r \in Of(t, stage, refined, S) <=>
        \E i \in S : \E x \in refined[i].rejections : r = Rejection(t, stage, i, x)
  BY DEF Of
<1>6. RefusedRows(rows, refined) \intersect SeveredRows(rows, refined) = {}
  BY DEF RefusedRows, SeveredRows, Refused, Severed
<1>7. \A r \in W : ForADefect(r)
  BY <1>2, <1>4, <1>5, <1>6, RejectionFields DEF ForADefect
<1>8. \A r \in U : r.reason = "unlinked_record" /\ r.field = "video_id"
  BY <1>2, <1>4, <1>5, <1>6, RejectionFields
<1>9. \A r \in E : r.reason # "unlinked_record" /\ r.field = "unique_constraint"
  BY RejectionFields
<1>10. Of(t, stage, refined, 1 .. n) = W \union U
  BY <1>2, <1>4, <1>5
<1>11. \A r \in R : r.source # "" /\ {"source", "stage", "field", "reason"} \subseteq DOMAIN r
  <2>1. \A r \in Of(t, stage, refined, 1 .. n) :
          r.source # "" /\ {"source", "stage", "field", "reason"} \subseteq DOMAIN r
    <3>1. ASSUME NEW r \in Of(t, stage, refined, 1 .. n)
          PROVE  r.source # "" /\ {"source", "stage", "field", "reason"} \subseteq DOMAIN r
      <4>1. PICK i \in 1 .. n : \E x \in refined[i].rejections : r = Rejection(t, stage, i, x)
        BY <1>5
      <4>2. PICK x \in refined[i].rejections : r = Rejection(t, stage, i, x)
        BY <4>1
      <4>3. x.source # ""
        BY <1>3
      <4>4. r.source = x.source
        BY <4>2, RejectionFields
      <4>5. {"source", "stage", "field", "reason"} \subseteq DOMAIN r
        BY <4>2, RejectionFields
      <4> QED BY <4>3, <4>4, <4>5
    <3> QED BY <3>1
  <2>2. \A r \in E : r.source # "" /\ {"source", "stage", "field", "reason"} \subseteq DOMAIN r
    <3> SUFFICES ASSUME NEW r \in E
                 PROVE  r.source # "" /\ {"source", "stage", "field", "reason"} \subseteq DOMAIN r
      OBVIOUS
    <3>1. r = Repeated(t, stage, n)
      OBVIOUS
    <3> HIDE DEF E
    <3>2. r.source = "batch"
      BY <3>1, RejectionFields
    <3>3. {"source", "stage", "field", "reason"} \subseteq DOMAIN r
      BY <3>1, RejectionFields
    <3> QED BY <3>2, <3>3
  <2> QED BY <1>1, <2>1, <2>2
<1> HIDE DEF W, U, E
<1>12. R = W \union U \union E
  BY <1>1, <1>10
<1>13. Others(R) = W /\ Because(R, {"unlinked_record"}) = U /\ Repeats(R) = E
  BY <1>7, <1>8, <1>9, <1>12 DEF Others, Because, Repeats, ForADefect
<1>14. Told(R)
  BY <1>11, Zenon DEF Told
<1>15. Distinguished(R)
  BY <1>7, <1>8, <1>9, <1>12 DEF Distinguished, ForADefect
<1> QED BY <1>13, <1>14, <1>15 DEF W, U, E

LEMMA RejectionsAreTold ==
  ASSUME NEW t, NEW stage, NEW rows, NEW refined, NEW n, Judged(rows, refined, n), NEW ignored
  PROVE  Told(Rejections(t, stage, refined, ignored))
BY ReasonsOfRejections

LEMMA DisjointCounts ==
  ASSUME NEW S, NEW T, IsFiniteSet(S), IsFiniteSet(T), S \intersect T = {}
  PROVE  IsFiniteSet(S \union T) /\ Cardinality(S \union T) = Cardinality(S) + Cardinality(T)
<1>1. Cardinality(S \intersect T) = 0
  BY FS_EmptySet
<1>2. Cardinality(S) \in Nat /\ Cardinality(T) \in Nat
  BY FS_CardinalityType
<1>3. /\ IsFiniteSet(S \union T)
      /\ Cardinality(S \union T) = Cardinality(S) + Cardinality(T) - Cardinality(S \intersect T)
  BY FS_Union
<1> QED BY <1>1, <1>2, <1>3

\* Each defect has its rejection, and only one.
LEMMA DefectsAreRejected ==
  ASSUME NEW t, NEW stage, NEW rows, NEW refined, NEW n, Judged(rows, refined, n), NEW W,
         W = Of(t, stage, refined, RefusedRows(rows, refined)), IsFiniteSet(W)
  PROVE  /\ {<<r.source, r.field, Coarse(r.reason)>> : r \in W}
              = {<<rows[d[1]].source, d[2].field, d[2].reason>> : d \in DefectsOf(rows)}
         /\ Cardinality(W) = Cardinality(DefectsOf(rows))
         /\ (\A i \in 1 .. n : \A d, e \in rows[i].defects : d = e) =>
              Cardinality(W) = Cardinality(RefusedRows(rows, refined))
<1> DEFINE B == RefusedRows(rows, refined)
           Is(r, i, x) == x \in refined[i].rejections /\ r = Rejection(t, stage, i, x)
           row == [r \in W |-> CHOOSE i \in B : \E x : Is(r, i, x)]
           Named2(r) == [field |-> r.field, reason |-> Coarse(r.reason)]
           defect == [r \in W |-> <<row[r], Named2(r)>>]
<1>1. /\ B \subseteq 1 .. n /\ n \in Nat
      /\ \A i \in B : /\ rows[i].defects # {}
                      /\ {Named2(x) : x \in refined[i].rejections} = rows[i].defects
                      /\ \A x \in refined[i].rejections : x.source = rows[i].source
                      /\ Named(refined[i].rejections) /\ IsRejected(refined[i].rejections)
  BY DEF RefusedRows, Refused, Judged
<1>2. \A i \in (1 .. n) \ B : rows[i].defects = {}
  BY DEF RefusedRows, Accepted, Severed, Judged
<1>3. \A d : d \in DefectsOf(rows) <=> \E i \in B : \E e \in rows[i].defects : d = <<i, e>>
  <2>1. DOMAIN rows = 1 .. n
    BY DEF Judged
  <2> QED BY <1>1, <1>2, <2>1 DEF DefectsOf
<1>4. \A r : r \in W <=> \E i \in B : \E x : Is(r, i, x)
  BY DEF Of
<1>5. \A r, i, x : Is(r, i, x) => /\ r.source = x.source /\ Named2(r) = Named2(x)
                                  /\ r.id = 8 * i + x.nth
  BY RejectionFields
<1>6. ASSUME NEW r, NEW i \in B, NEW x, Is(r, i, x)
      PROVE  r \in W /\ row[r] = i
  <2>1. r \in W
    BY <1>4, <1>6
  <2>2. PICK j \in B : j = row[r] /\ \E y : Is(r, j, y)
    BY <1>4, <2>1
  <2>3. PICK y : Is(r, j, y)
    BY <2>2
  <2> HIDE DEF row, Is
  <2>4. r.id = 8 * i + x.nth /\ r.id = 8 * j + y.nth
    <3>1. r.id = 8 * i + x.nth
      BY <1>5, <1>6, ZenonT(60)
    <3>2. r.id = 8 * j + y.nth
      BY <1>5, <2>3, ZenonT(60)
    <3> QED BY <3>1, <3>2
  <2>5. x.nth \in 1 .. 6 /\ y.nth \in 1 .. 6
    BY <1>1, <1>6, <2>3 DEF IsRejected, Is
  <2>6. i \in Nat /\ j \in Nat
    BY <1>1
  <2>7. i = j
    BY <2>4, <2>5, <2>6, RowOfId
  <2> QED BY <2>1, <2>2, <2>7
<1>7. ASSUME NEW r \in W
      PROVE  \E x : Is(r, row[r], x) /\ row[r] \in B
  BY <1>4, <1>6
<1> HIDE DEF B, row
<1>8. ASSUME NEW r \in W
      PROVE  /\ row[r] \in B /\ Named2(r) \in rows[row[r]].defects
             /\ r.source = rows[row[r]].source
  <2>1. PICK x : Is(r, row[r], x) /\ row[r] \in B
    BY <1>7
  <2>2. x \in refined[row[r]].rejections /\ r.source = x.source /\ Named2(r) = Named2(x)
    BY <1>5, <2>1
  <2> HIDE DEF Is, Named2
  <2> QED BY <1>1, <2>1, <2>2
<1>9. ASSUME NEW i \in B, NEW e \in rows[i].defects
      PROVE  \E r \in W : row[r] = i /\ Named2(r) = e
  <2>1. PICK x \in refined[i].rejections : e = Named2(x)
    BY <1>1
  <2>2. Is(Rejection(t, stage, i, x), i, x)
    OBVIOUS
  <2>3. Named2(Rejection(t, stage, i, x)) = e
    BY <1>5, <2>1, <2>2
  <2> HIDE DEF Is, Named2
  <2> QED BY <1>6, <2>2, <2>3
<1>10. ASSUME NEW r \in W, NEW s \in W, row[r] = row[s], Named2(r) = Named2(s)
       PROVE  r = s
  <2>1. PICK x : Is(r, row[r], x) /\ row[r] \in B
    BY <1>7
  <2>2. PICK y : Is(s, row[s], y) /\ row[s] \in B
    BY <1>7
  <2>3. r.field = s.field
    BY <1>10
  <2>4. x.field = y.field
    BY <2>1, <2>2, <2>3, RejectionFields
  <2>5. x = y
    BY <1>1, <1>10, <2>1, <2>2, <2>4 DEF Named
  <2> QED BY <1>10, <2>1, <2>2, <2>5
<1>11. W \subseteq DOMAIN defect /\ \A r \in W : defect[r] = <<row[r], Named2(r)>>
  OBVIOUS
<1> HIDE DEF Is, defect
<1>12. {defect[r] : r \in W} = DefectsOf(rows)
  <2>1. \A r \in W : defect[r] \in DefectsOf(rows)
    BY <1>3, <1>8, <1>11
  <2>2. ASSUME NEW d \in DefectsOf(rows) PROVE \E r \in W : d = defect[r]
    <3>1. PICK i \in B : \E e \in rows[i].defects : d = <<i, e>>
      BY <1>3
    <3>2. PICK e \in rows[i].defects : d = <<i, e>>
      BY <3>1
    <3> QED BY <1>9, <1>11, <3>2
  <2> QED BY <2>1, <2>2
<1>13. Cardinality(W) = Cardinality(DefectsOf(rows))
  <2>1. \A r, s \in W : defect[r] = defect[s] => r = s
    <3>1. \A r, s \in W : defect[r] = defect[s] => row[r] = row[s] /\ Named2(r) = Named2(s)
      BY <1>11
    <3> HIDE DEF Named2
    <3> QED BY <1>10, <3>1
  <2> QED BY <1>11, <1>12, <2>1, ImageIsAsLarge
<1>14. {<<r.source, r.field, Coarse(r.reason)>> : r \in W}
         = {<<rows[d[1]].source, d[2].field, d[2].reason>> : d \in DefectsOf(rows)}
  <2>1. ASSUME NEW r \in W
        PROVE  \E d \in DefectsOf(rows) :
                 <<r.source, r.field, Coarse(r.reason)>> = <<rows[d[1]].source, d[2].field, d[2].reason>>
    <3>1. defect[r] \in DefectsOf(rows) /\ defect[r] = <<row[r], Named2(r)>>
      BY <1>11, <1>12
    <3>2. /\ defect[r][1] = row[r] /\ defect[r][2].field = r.field
          /\ Coarse(r.reason) = defect[r][2].reason
      BY <3>1
    <3>3. r.source = rows[row[r]].source
      BY <1>8
    <3> QED BY <3>1, <3>2, <3>3
  <2>2. ASSUME NEW d \in DefectsOf(rows)
        PROVE  \E r \in W :
                 <<r.source, r.field, Coarse(r.reason)>> = <<rows[d[1]].source, d[2].field, d[2].reason>>
    <3>1. PICK r \in W : d = defect[r]
      BY <1>12
    <3>2. d = <<row[r], Named2(r)>>
      BY <1>11, <3>1
    <3>3. d[1] = row[r] /\ d[2].field = r.field /\ Coarse(r.reason) = d[2].reason
      BY <3>2
    <3>4. r.source = rows[row[r]].source
      BY <1>8
    <3> QED BY <3>3, <3>4
  <2> QED BY <2>1, <2>2
<1>15. ASSUME \A i \in 1 .. n : \A d, e \in rows[i].defects : d = e
       PROVE  Cardinality(W) = Cardinality(B)
  <2>1. \A r, s \in W : row[r] = row[s] => r = s
    <3> HIDE DEF Named2
    <3>1. ASSUME NEW r \in W, NEW s \in W, row[r] = row[s] PROVE Named2(r) = Named2(s)
      <4>1. row[r] \in 1 .. n
        BY <1>1, <1>8
      <4>2. Named2(r) \in rows[row[r]].defects /\ Named2(s) \in rows[row[r]].defects
        BY <1>8, <3>1
      <4> QED BY <1>15, <4>1, <4>2
    <3> QED BY <1>10, <3>1
  <2>2. {row[r] : r \in W} = B
    <3>1. \A i \in B : \E e : e \in rows[i].defects
      BY <1>1
    <3> HIDE DEF Named2
    <3> QED BY <1>8, <1>9, <3>1
  <2>3. W \subseteq DOMAIN row
    BY DEF row
  <2> QED BY <2>1, <2>2, <2>3, ImageIsAsLarge
<1> QED BY <1>13, <1>14, <1>15 DEF B

\* Each right row that is not linked has one.
LEMMA SeveredAreRejected ==
  ASSUME NEW t, NEW stage, NEW rows, NEW refined, NEW n, Judged(rows, refined, n)
  PROVE  Cardinality(Of(t, stage, refined, SeveredRows(rows, refined)))
           = Cardinality(SeveredRows(rows, refined))
<1> DEFINE U == SeveredRows(rows, refined)
           one == [i \in U |-> CHOOSE x : refined[i].rejections = {x}]
           rejection == [i \in U |-> Rejection(t, stage, i, one[i])]
<1>1. U \subseteq 1 .. n /\ n \in Nat
  BY DEF SeveredRows, Judged
<1>2. ASSUME NEW i \in U PROVE refined[i].rejections = {one[i]} /\ one[i].nth \in 1 .. 6
  <2>1. \E x : refined[i].rejections = {x}
    BY DEF SeveredRows, Severed, Unlinked
  <2>2. refined[i].rejections = {one[i]}
    BY <2>1
  <2>3. IsRejected(refined[i].rejections)
    BY <1>1 DEF Judged
  <2> HIDE DEF one
  <2> QED BY <2>2, <2>3 DEF IsRejected
<1>3. Of(t, stage, refined, U) = {rejection[i] : i \in U} /\ U \subseteq DOMAIN rejection
  <2>1. \A i \in U : {Rejection(t, stage, i, x) : x \in refined[i].rejections} = {rejection[i]}
    <3>1. \A i \in U : rejection[i] = Rejection(t, stage, i, one[i])
      OBVIOUS
    <3>2. \A i \in U : refined[i].rejections = {one[i]}
      BY <1>2
    <3> HIDE DEF U, one, rejection
    <3> QED BY <3>1, <3>2
  <2> HIDE DEF one
  <2> QED BY <2>1 DEF Of
<1>4. \A i, j \in U : rejection[i] = rejection[j] => i = j
  <2> SUFFICES ASSUME NEW i \in U, NEW j \in U, rejection[i] = rejection[j] PROVE i = j
    OBVIOUS
  <2> HIDE DEF one, U
  <2>1. 8 * i + one[i].nth = 8 * j + one[j].nth
    BY RejectionFields
  <2> QED BY <1>1, <1>2, <2>1, RowOfId
<1>5. IsFiniteSet(U)
  BY <1>1, FS_Interval, FS_Subset
<1> HIDE DEF one, rejection, U
<1> QED BY <1>3, <1>4, <1>5, ImageIsAsLarge DEF U

\* What the tables and the counters say of the rows of a phase: no row stops it, every defect
\* is reported and every right row accounted for.
Lost(rows, R, own) ==
  Cardinality({i \in DOMAIN rows : rows[i].defects = {}}) - Cardinality(own)
    - Cardinality(Because(R, {"unlinked_record"}))
\* Rejections for duplicates, of which there are n: some, if there are any, and no more.
RepeatsTell(R, n) ==
  /\ n = 0 <=> Repeats(R) = {}
  /\ Cardinality(Repeats(R)) <= n
  /\ \A r \in Repeats(R) : /\ r.stage = "odd_tagging" => r.reason = "duplicate_tagging"
                           /\ r.stage = "auto_labeling" => r.reason = "duplicate_label"
Accounts(rows, R, own, p) ==
  /\ \A i \in DOMAIN rows : ~Stops(rows[i])
  /\ \A r \in R : r.source # ""
  /\ {<<r.source, r.field, Coarse(r.reason)>> : r \in Others(R)}
       = {<<rows[d[1]].source, d[2].field, d[2].reason>> : d \in DefectsOf(rows)}
  /\ Cardinality(Others(R)) = Cardinality(DefectsOf(rows))
  /\ Lost(rows, R, own) >= 0 /\ RepeatsTell(R, Lost(rows, R, own))
  /\ \/ Percent(p) = 1000 \/ rows = <<>> \/ Lost(rows, R, own) > 1
     \/ \E i \in DOMAIN rows : Cardinality(rows[i].defects) > 1

LEMMA LossIsShown ==
  ASSUME NEW rows, NEW R, NEW own, NEW p, Accounts(rows, R, own, p),
         NEW lost, lost = Lost(rows, R, own), NEW percent, percent = Percent(p)
  PROVE  /\ lost >= 0 /\ RepeatsTell(R, lost)
         /\ \/ percent = 1000
            \/ rows = <<>>
            \/ \E i \in DOMAIN rows : Cardinality(rows[i].defects) > 1
            \/ lost > 1
<1>1. Lost(rows, R, own) >= 0
  BY Zenon DEF Accounts
<1>2. RepeatsTell(R, Lost(rows, R, own))
  BY Zenon DEF Accounts
<1>3. \/ Percent(p) = 1000 \/ rows = <<>> \/ Lost(rows, R, own) > 1
      \/ \E i \in DOMAIN rows : Cardinality(rows[i].defects) > 1
  BY Zenon DEF Accounts
<1>4. lost >= 0 /\ RepeatsTell(R, lost)
  BY <1>1, <1>2, Zenon
<1>5. percent = 1000 \/ rows = <<>> \/ lost > 1
        \/ \E i \in DOMAIN rows : Cardinality(rows[i].defects) > 1
  BY <1>3, ZenonT(60)
<1> QED BY <1>4, <1>5

LEMMA AllIsFullPercent ==
  ASSUME NEW p, p.total \in Nat \ {0}, p.processed + p.rejected = p.total
  PROVE  Percent(p) = 1000
<1>1. \A m \in Nat \ {0} : (m * 2000 + m) \div (2 * m) = 1000
  <2>1. ASSUME NEW m \in Nat \ {0} PROVE (m * 2000 + m) \div (2 * m) = 1000
    <3>1. m * 2000 + m = (2 * m) * 1000 + m /\ 0 <= m /\ m < 2 * m /\ 2 * m \in Nat
      OBVIOUS
    <3>2. \A b, c, q \in Nat : c < b => (b * q + c) \div b = q
      OBVIOUS
    <3> QED BY <3>1, <3>2
  <2> QED BY <2>1
<1> QED BY <1>1 DEF Percent

LEMMA RowsAreCounted ==
  ASSUME NEW t, NEW stage, NEW rows, NEW refined, NEW n, Judged(rows, refined, n),
         \A i \in DOMAIN rows : ~Stops(rows[i]),
         NEW ignored, ignored \subseteq AcceptedRows(rows, refined),
         NEW R, R = Rejections(t, stage, refined, ignored), IsFiniteSet(R),
         NEW own, Cardinality(own) = Cardinality(AcceptedRows(rows, refined) \ ignored),
         NEW p, p.total = n, p.processed = Cardinality(own), p.rejected = Cardinality(R)
  PROVE  Accounts(rows, R, own, p)
<1> DEFINE A == AcceptedRows(rows, refined)
           U == SeveredRows(rows, refined)
           B == RefusedRows(rows, refined)
           good == {i \in DOMAIN rows : rows[i].defects = {}}
           W == Others(R)
           V == Because(R, {"unlinked_record"})
           E == Repeats(R)
           lost == Cardinality(ignored)
<1>0. \A r \in R : r.source # ""
  <2>1. Told(R)
    BY ReasonsOfRejections
  <2> QED BY <2>1, Zenon DEF Told
<1>1. /\ W = Of(t, stage, refined, B) /\ V = Of(t, stage, refined, U)
      /\ E = IF ignored = {} THEN {} ELSE {Repeated(t, stage, n)}
  <2> HIDE DEF B, U
  <2>1. /\ Others(R) = Of(t, stage, refined, RefusedRows(rows, refined))
        /\ Because(R, {"unlinked_record"}) = Of(t, stage, refined, SeveredRows(rows, refined))
        /\ Repeats(R) = IF ignored = {} THEN {} ELSE {Repeated(t, stage, n)}
    BY ReasonsOfRejections
  <2> QED BY <2>1, Zenon DEF B, U
<1>2. /\ n \in Nat /\ DOMAIN rows = 1 .. n /\ 1 .. n = A \union U \union B
      /\ good = A \union U /\ A \intersect U = {} /\ good \intersect B = {}
  BY DEF Judged, AcceptedRows, SeveredRows, RefusedRows, Accepted, Severed, Refused
<1>3. R = W \union V \union E /\ W \intersect V = {} /\ (W \union V) \intersect E = {}
  <2>1. Distinguished(R)
    BY ReasonsOfRejections
  <2> QED BY <2>1 DEF Distinguished, Others, Because, Repeats, ForADefect
<1> HIDE DEF A, U, B, good, W, V, E
<1>4. /\ IsFiniteSet(1 .. n) /\ Cardinality(1 .. n) = n
      /\ IsFiniteSet(A) /\ IsFiniteSet(U) /\ IsFiniteSet(B) /\ IsFiniteSet(good)
      /\ IsFiniteSet(ignored)
  <2>1. IsFiniteSet(1 .. n) /\ Cardinality(1 .. n) = n
    BY <1>2, FS_Interval
  <2>2. A \subseteq 1 .. n /\ U \subseteq 1 .. n /\ B \subseteq 1 .. n /\ good \subseteq 1 .. n
    BY <1>2
  <2>3. IsFiniteSet(A) /\ IsFiniteSet(U) /\ IsFiniteSet(B) /\ IsFiniteSet(good)
    BY <2>1, <2>2, FS_Subset
  <2>4. IsFiniteSet(ignored)
    BY <2>3, FS_Subset DEF A
  <2> QED BY <2>1, <2>3, <2>4
<1>5. IsFiniteSet(W) /\ IsFiniteSet(V) /\ IsFiniteSet(E)
  BY <1>3, FS_Subset
<1>6. /\ Cardinality(A) \in Nat /\ Cardinality(U) \in Nat /\ Cardinality(B) \in Nat
      /\ Cardinality(W) \in Nat /\ lost \in Nat
  BY <1>4, <1>5, FS_CardinalityType
<1>7. /\ Cardinality(good) = Cardinality(A) + Cardinality(U)
      /\ n = Cardinality(A) + Cardinality(U) + Cardinality(B)
  <2>1. Cardinality(good) = Cardinality(A) + Cardinality(U)
    BY <1>2, <1>4, DisjointCounts
  <2>2. 1 .. n = good \union B
    BY <1>2
  <2>3. Cardinality(1 .. n) = Cardinality(good) + Cardinality(B)
    BY <1>2, <1>4, <2>2, DisjointCounts
  <2> QED BY <1>4, <2>1, <2>3
<1>8. Cardinality(own) = Cardinality(A) - lost
  <2>1. A \intersect ignored = ignored
    BY DEF A
  <2>2. Cardinality(A \ ignored) = Cardinality(A) - Cardinality(A \intersect ignored)
    BY <1>4, FS_Difference
  <2> QED BY <2>1, <2>2 DEF A
<1>9. Cardinality(V) = Cardinality(U)
  <2>1. Cardinality(Of(t, stage, refined, U)) = Cardinality(U)
    BY SeveredAreRejected DEF U
  <2> QED BY <1>1, <2>1
<1>10. Lost(rows, R, own) = lost
  <2>1. Lost(rows, R, own) = Cardinality(good) - Cardinality(own) - Cardinality(V)
    BY DEF Lost, good, V
  <2> QED BY <1>6, <1>7, <1>8, <1>9, <2>1
<1>11. Cardinality(E) = IF lost = 0 THEN 0 ELSE 1
  <2>1. lost = 0 <=> ignored = {}
    BY <1>4, FS_EmptySet
  <2>2. Cardinality({}) = 0 /\ Cardinality({Repeated(t, stage, n)}) = 1
    BY FS_EmptySet, FS_Singleton
  <2> QED BY <1>1, <2>1, <2>2
<1>12. RepeatsTell(R, lost)
  <2>1. /\ Repeated(t, stage, n).stage = stage
        /\ Repeated(t, stage, n).reason
             = IF stage = "odd_tagging" THEN "duplicate_tagging" ELSE "duplicate_label"
    BY RejectionFields
  <2>2. lost = 0 <=> ignored = {}
    BY <1>4, FS_EmptySet
  <2>3. (E = {} <=> lost = 0) /\ Cardinality(E) <= lost
    BY <1>1, <1>6, <1>11, <2>2
  <2>4. \A r \in E : r = Repeated(t, stage, n)
    BY <1>1
  <2> QED BY <2>1, <2>3, <2>4 DEF RepeatsTell, E
<1>13. /\ {<<r.source, r.field, Coarse(r.reason)>> : r \in W}
            = {<<rows[d[1]].source, d[2].field, d[2].reason>> : d \in DefectsOf(rows)}
       /\ Cardinality(W) = Cardinality(DefectsOf(rows))
       /\ (\A i \in 1 .. n : \A d, e \in rows[i].defects : d = e) => Cardinality(W) = Cardinality(B)
  <2>1. W = Of(t, stage, refined, RefusedRows(rows, refined)) /\ IsFiniteSet(W)
    BY <1>1, <1>5 DEF B
  <2> QED BY <2>1, DefectsAreRejected DEF B
<1>14. Cardinality(R) = Cardinality(W) + Cardinality(U) + Cardinality(E)
  <2>1. /\ IsFiniteSet(W \union V)
        /\ Cardinality(W \union V) = Cardinality(W) + Cardinality(V)
    BY <1>3, <1>5, DisjointCounts
  <2>2. Cardinality(R) = Cardinality(W \union V) + Cardinality(E)
    BY <1>3, <1>5, <2>1, DisjointCounts
  <2> QED BY <1>9, <2>1, <2>2
<1>15. ASSUME rows # <<>>, ~(lost > 1), ~\E i \in DOMAIN rows : Cardinality(rows[i].defects) > 1
       PROVE  Percent(p) = 1000
  <2>1. ASSUME NEW i \in 1 .. n PROVE IsFiniteSet(rows[i].defects)
    <3>1. i \in good \/ i \in B
      BY <1>2
    <3>2. CASE i \in good
      BY <3>2, FS_EmptySet DEF good
    <3>3. CASE i \in B
      <4> DEFINE defect == [x \in refined[i].rejections |-> [field |-> x.field, reason |-> Coarse(x.reason)]]
      <4>1. rows[i].defects = {defect[x] : x \in refined[i].rejections}
        BY <3>3 DEF B, RefusedRows, Refused
      <4>2. /\ IsFiniteSet(refined[i].rejections)
            /\ refined[i].rejections \subseteq DOMAIN defect
        BY DEF Judged, IsRejected
      <4> HIDE DEF defect
      <4> QED BY <4>1, <4>2, ImageIsFinite
    <3> QED BY <3>1, <3>2, <3>3
  <2>2. ASSUME NEW i \in 1 .. n, NEW d \in rows[i].defects, NEW e \in rows[i].defects
        PROVE  d = e
    <3>1. IsFiniteSet(rows[i].defects) /\ Cardinality(rows[i].defects) \in Nat
      BY <2>1, FS_CardinalityType
    <3>2. ~(Cardinality(rows[i].defects) > 1)
      BY <1>2, <1>15
    <3>3. Cardinality(rows[i].defects) # 0
      BY <3>1, FS_EmptySet
    <3>4. Cardinality(rows[i].defects) = 1
      BY <3>1, <3>2, <3>3
    <3> QED BY <3>1, <3>4, FS_Singleton
  <2>3. Cardinality(W) = Cardinality(B)
    BY <1>13, <2>2
  <2>4. n # 0
    <3>1. rows = <<>> \/ n # 0
      BY <1>2 DEF Judged
    <3> QED BY <1>15, <3>1
  <2>5. p.processed + p.rejected = n
    BY <1>6, <1>7, <1>8, <1>11, <1>14, <1>15, <2>3
  <2> QED BY <1>2, <2>4, <2>5, AllIsFullPercent
<1>16. lost >= 0
  BY <1>6
<1>17. Others(R) = W
  BY DEF W
<1> HIDE DEF lost
<1>18. /\ {<<r.source, r.field, Coarse(r.reason)>> : r \in Others(R)}
            = {<<rows[d[1]].source, d[2].field, d[2].reason>> : d \in DefectsOf(rows)}
       /\ Cardinality(Others(R)) = Cardinality(DefectsOf(rows))
  BY <1>13, <1>17
<1>19. Lost(rows, R, own) >= 0 /\ RepeatsTell(R, Lost(rows, R, own))
  BY <1>10, <1>12, <1>16
<1>20. \/ Percent(p) = 1000 \/ rows = <<>> \/ Lost(rows, R, own) > 1
       \/ \E i \in DOMAIN rows : Cardinality(rows[i].defects) > 1
  BY <1>10, <1>15
<1> QED BY <1>0, <1>18, <1>19, <1>20, Zenon DEF Accounts

\* The rejections of a phase as they are inserted account for the same.
LEMMA InsertedAccount ==
  ASSUME NEW t, NEW stage \in Stages, NEW block \in Nat, NEW R, Numbers(t, stage, R),
         Told(R), NEW rows, NEW own, NEW p, Accounts(rows, R, own, p),
         NEW new, new = {Inserted(block, r) : r \in R}
  PROVE  Accounts(rows, new, own, p)
<1>1. \A r \in R : /\ Inserted(block, r).source = r.source /\ Inserted(block, r).field = r.field
                   /\ Inserted(block, r).reason = r.reason /\ Inserted(block, r).stage = r.stage
  BY DEF Inserted, Told
<1>2. ASSUME NEW S \in SUBSET R
      PROVE  Cardinality({Inserted(block, r) : r \in S}) = Cardinality(S)
  <2>1. IsFiniteSet(S)
    BY FS_Subset DEF Numbers
  <2>2. Numbers(t, stage, S)
    BY <2>1 DEF Numbers
  <2> QED BY <2>2, InsertedCounts
<1>3. /\ Others(new) = {Inserted(block, r) : r \in Others(R)} /\ Others(R) \subseteq R
      /\ \A S : /\ Because(new, S) = {Inserted(block, r) : r \in Because(R, S)}
                /\ Because(R, S) \subseteq R
      /\ Repeats(new) = {Inserted(block, r) : r \in Repeats(R)} /\ Repeats(R) \subseteq R
  BY <1>1 DEF Others, Because, Repeats, ForADefect
<1>4. /\ Cardinality(Others(new)) = Cardinality(Others(R))
      /\ \A S : Cardinality(Because(new, S)) = Cardinality(Because(R, S))
      /\ Cardinality(Repeats(new)) = Cardinality(Repeats(R))
  BY <1>2, <1>3
<1>5. {<<r.source, r.field, Coarse(r.reason)>> : r \in Others(new)}
        = {<<r.source, r.field, Coarse(r.reason)>> : r \in Others(R)}
  <2> DEFINE About(r) == <<r.source, r.field, Coarse(r.reason)>>
  <2>1. \A x : x \in Others(new) <=> \E r \in Others(R) : x = Inserted(block, r)
    BY <1>3
  <2>2. \A r \in Others(R) : About(Inserted(block, r)) = About(r)
    BY <1>1, <1>3
  <2> HIDE DEF About
  <2>3. {About(r) : r \in Others(new)} = {About(r) : r \in Others(R)}
    <3>1. ASSUME NEW x \in Others(new) PROVE \E r \in Others(R) : About(x) = About(r)
      BY <2>1, <2>2
    <3>2. ASSUME NEW r \in Others(R) PROVE \E x \in Others(new) : About(r) = About(x)
      BY <2>1, <2>2
    <3> DEFINE left == {About(x) : x \in Others(new)}
               right == {About(r) : r \in Others(R)}
    <3>3. ASSUME NEW y \in left PROVE y \in right
      <4>1. PICK x \in Others(new) : y = About(x)
        OBVIOUS
      <4>2. PICK r \in Others(R) : About(x) = About(r)
        BY <3>1
      <4> QED BY <4>1, <4>2
    <3>4. ASSUME NEW y \in right PROVE y \in left
      <4>1. PICK r \in Others(R) : y = About(r)
        OBVIOUS
      <4>2. PICK x \in Others(new) : About(r) = About(x)
        BY <3>2
      <4> QED BY <4>1, <4>2
    <3>5. \A y : y \in left <=> y \in right
      BY <3>3, <3>4
    <3> HIDE DEF left, right
    <3>6. left = right
      BY <3>5
    <3> QED BY <3>6, Zenon DEF left, right
  <2> QED BY <2>3, Zenon DEF About
<1>6. \A r \in new : r.source # ""
  <2>1. \A r \in R : r.source # ""
    BY Zenon DEF Accounts
  <2>2. ASSUME NEW r \in new PROVE r.source # ""
    <3>1. PICK x \in R : r = Inserted(block, x)
      OBVIOUS
    <3>2. r.source = x.source
      BY <1>1, <3>1, Zenon
    <3> QED BY <2>1, <3>2, Zenon
  <2> QED BY <2>2
<1>7. Lost(rows, new, own) = Lost(rows, R, own)
  BY <1>4 DEF Lost
<1>8. /\ \A i \in DOMAIN rows : ~Stops(rows[i])
      /\ {<<r.source, r.field, Coarse(r.reason)>> : r \in Others(R)}
           = {<<rows[d[1]].source, d[2].field, d[2].reason>> : d \in DefectsOf(rows)}
      /\ Cardinality(Others(R)) = Cardinality(DefectsOf(rows))
      /\ Lost(rows, R, own) >= 0
  BY Zenon DEF Accounts
<1>9. RepeatsTell(new, Lost(rows, new, own))
  <2>1. RepeatsTell(R, Lost(rows, R, own))
    BY Zenon DEF Accounts
  <2>2. Repeats(new) = {} <=> Repeats(R) = {}
    <3>1. \A x : x \in Repeats(new) <=> \E r \in Repeats(R) : x = Inserted(block, r)
      BY <1>3
    <3> QED BY <3>1
  <2>3. \A r \in Repeats(new) : \E x \in Repeats(R) : r.stage = x.stage /\ r.reason = x.reason
    BY <1>1, <1>3
  <2> QED BY <1>4, <1>7, <2>1, <2>2, <2>3 DEF RepeatsTell
<1>10. {<<r.source, r.field, Coarse(r.reason)>> : r \in Others(new)}
         = {<<rows[d[1]].source, d[2].field, d[2].reason>> : d \in DefectsOf(rows)}
  BY <1>5, <1>8, Zenon
<1>11. Cardinality(Others(new)) = Cardinality(DefectsOf(rows)) /\ Lost(rows, new, own) >= 0
  BY <1>4, <1>7, <1>8
<1>12. \/ Percent(p) = 1000 \/ rows = <<>> \/ Lost(rows, new, own) > 1
       \/ \E i \in DOMAIN rows : Cardinality(rows[i].defects) > 1
  <2>1. \/ Percent(p) = 1000 \/ rows = <<>> \/ Lost(rows, R, own) > 1
        \/ \E i \in DOMAIN rows : Cardinality(rows[i].defects) > 1
    BY Zenon DEF Accounts
  <2> QED BY <1>7, <2>1, ZenonT(60)
<1> QED BY <1>6, <1>8, <1>9, <1>10, <1>11, <1>12, Zenon DEF Accounts

LEMMA PhaseAccounts ==
  ASSUME NEW stage \in Stages, NEW t \in Tasks, NEW file \in File(FieldsOf(stage)), NEW table,
         IsFiniteSet(table), Keyed(stage, table), OwnRows(table, t) = {}, NEW ids, NEW p,
         p = Phase(t, stage, file, table, ids), "batch" \notin LongSources,
         \A i \in DOMAIN file : RowIsReported(stage, file[i])
  PROVE  /\ p.raised # None <=> \E i \in DOMAIN file : Stops(file[i])
         /\ p.raised = None =>
              /\ Told(p.rejections)
              /\ Accounts(file, p.rejections, OwnRows(p.table, t), p.progress)
<1>1. PICK refined : p = Chunk(t, stage, refined, table) /\ RowsOf(refined, stage, file, ids)
  BY PhaseIsChunk
<1> DEFINE accepted == {i \in DOMAIN refined : refined[i].record # None}
           row == [i \in accepted |-> Row(stage, t, refined[i].record)]
           ignored == Ignored({Key(stage, x) : x \in table}, [i \in accepted |-> Key(stage, row[i])])
           n == Len(file)
           own == OwnRows(p.table, t)
<1>2. p.raised # None <=> \E i \in DOMAIN file : Stops(file[i])
  BY <1>1, ChunkRaises
<1>3. /\ p.rejections = Rejections(t, stage, refined, ignored)
      /\ p.progress = PhaseProgress(Len(refined), Cardinality(accepted \ ignored),
                                    Cardinality(p.rejections), Cardinality(ignored))
  BY <1>1 DEF Chunk
<1>4. /\ n \in Nat /\ n <= MaxRows /\ DOMAIN file = 1 .. n /\ DOMAIN refined = 1 .. n
      /\ Len(refined) = n
      /\ \A i \in 1 .. n :
           /\ refined[i] = RefineSingle(stage, file[i].cells, ids)
           /\ IsRejected(refined[i].rejections)
           /\ refined[i].record # None => RecordOf(stage, refined[i].record)
  BY <1>1 DEF RowsOf
<1>5. file = [i \in 1 .. n |-> file[i]]
  BY <1>4 DEF File
<1>6. ignored \subseteq accepted
  BY DEF Ignored
<1>7. Numbers(t, stage, p.rejections) /\ Tallied(t, table, p)
  <2>1. /\ Numbers(t, stage, Chunk(t, stage, refined, table).rejections)
        /\ Tallied(t, table, Chunk(t, stage, refined, table))
    BY <1>1, ChunkStores DEF RowsOf
  <2> QED BY <1>1, <2>1
<1> HIDE DEF ignored, n
<1>8. ASSUME p.raised = None
      PROVE  /\ Told(p.rejections)
             /\ Accounts(file, p.rejections, OwnRows(p.table, t), p.progress)
  <2>1. \A i \in DOMAIN file : ~Stops(file[i])
    BY <1>2, <1>8
  <2>2. Judged(file, refined, n)
    <3>1. ASSUME NEW i \in 1 .. n
          PROVE  \/ Accepted(file[i], refined[i]) \/ Severed(file[i], refined[i])
                 \/ Refused(file[i], refined[i])
      <4>1. /\ RowIsReported(stage, file[i]) /\ ~Stops(file[i])
            /\ refined[i] = RefineSingle(stage, file[i].cells, ids)
        BY <1>4, <2>1
      <4> QED BY <4>1, RowIsJudged
    <3>2. \A i \in 1 .. n : IsRejected(refined[i].rejections)
      BY <1>4
    <3> QED BY <1>4, <1>5, <3>1, <3>2, Zenon DEF Judged
  <2>3. AcceptedRows(file, refined) = accepted
    BY <2>2 DEF AcceptedRows, Accepted, Severed, Refused, Judged
  <2>4. Told(p.rejections)
    <3>1. Told(Rejections(t, stage, refined, ignored))
      BY <2>2, RejectionsAreTold
    <3> QED BY <1>3, <3>1
  <2>5. /\ p.progress.total = n /\ p.progress.processed = Cardinality(accepted \ ignored)
        /\ p.progress.rejected = Cardinality(p.rejections)
    BY <1>3, <1>4 DEF PhaseProgress
  <2>6. Cardinality(own) = Cardinality(accepted \ ignored)
    BY <1>7, <2>5 DEF Tallied
  <2>7. IsFiniteSet(p.rejections)
    BY <1>7 DEF Numbers
  <2> HIDE DEF accepted, own
  <2>8. Accounts(file, p.rejections, own, p.progress)
    BY <1>3, <1>6, <2>1, <2>2, <2>3, <2>5, <2>6, <2>7, RowsAreCounted
  <2> QED BY <2>4, <2>8 DEF own
<1> QED BY <1>2, <1>8

\* Each row of each file is reported as its defects say, and what is stored of a task accounts
\* for its rows; a failed one has a row that stops it.
ReportedRows ==
  \A t \in Tasks, stage \in Stages : \A i \in DOMAIN RawOf(t, stage) :
    RowIsReported(stage, RawOf(t, stage)[i])
Accounted(t) ==
  /\ t \in Stored => \A stage \in Stages :
       Accounts(RawOf(t, stage), Found(t, stage), OwnRows(TableOf(stage), t),
                tasks[t].progress[stage])
  /\ tasks[t].status = "failed" => \E stage \in Stages :
       \E i \in DOMAIN RawOf(t, stage) : Stops(RawOf(t, stage)[i])
ReportInv == ReportedRows /\ \A t \in Tasks : Accounted(t)

LEMMA StillAccounted ==
  ASSUME NEW t \in Tasks, Accounted(t), raw' = raw, tasks'[t] = tasks[t],
         blocks'[t] = blocks[t],
         \A stage \in Stages : /\ OwnRows(TableOf(stage)', t) = OwnRows(TableOf(stage), t)
                               /\ Found(t, stage)' = Found(t, stage)
  PROVE  Accounted(t)'
<1>1. \A stage : RawOf(t, stage)' = RawOf(t, stage)
  BY DEF RawOf
<1>2. \A stage \in Stages : OwnRows(TableOf(stage), t)' = OwnRows(TableOf(stage), t)
  BY DEF OwnRows
<1>3. t \in Stored' <=> t \in Stored
  BY DEF Stored
<1> QED BY <1>1, <1>2, <1>3 DEF Accounted

\* A phase settles what becomes of its rows.
Settles(t, stage, p) ==
  /\ p.raised # None <=> \E i \in DOMAIN RawOf(t, stage) : Stops(RawOf(t, stage)[i])
  /\ p.raised = None =>
       /\ Told(p.rejections)
       /\ Accounts(RawOf(t, stage), p.rejections, OwnRows(p.table, t), p.progress)

LEMMA PhasesSettle ==
  ASSUME Tables, ReportedRows, "batch" \notin LongSources, NEW t \in Tasks, Agrees(t),
         t \notin Stored, NEW ids
  PROVE  /\ Settles(t, "selection", SelectionPhase(t))
         /\ Settles(t, "odd_tagging", OddTagPhase(t, ids))
         /\ Settles(t, "auto_labeling", LabelPhase(t, ids))
<1>1. "selection" \in Stages /\ "odd_tagging" \in Stages /\ "auto_labeling" \in Stages
  BY DEF Stages
<1>2. /\ RawOf(t, "selection") = raw[t].selections /\ RawOf(t, "odd_tagging") = raw[t].odds
      /\ RawOf(t, "auto_labeling") = raw[t].labels
  BY DEF RawOf, FileOf
<1>3. /\ raw[t].selections \in File(FieldsOf("selection"))
      /\ raw[t].odds \in File(FieldsOf("odd_tagging"))
      /\ raw[t].labels \in File(FieldsOf("auto_labeling"))
  BY DEF Tables, TablesTyped, Files, FieldsOf
<1>4. /\ IsFiniteSet(db.selections) /\ IsFiniteSet(db.oddTags) /\ IsFiniteSet(db.labels)
      /\ Keyed("selection", db.selections) /\ Keyed("odd_tagging", db.oddTags)
      /\ Keyed("auto_labeling", db.labels)
  BY DEF Tables, FiniteTables, Keys
<1>5. /\ OwnRows(db.selections, t) = {} /\ OwnRows(db.oddTags, t) = {}
      /\ OwnRows(db.labels, t) = {}
  BY <1>1, TablesByStage DEF Agrees
<1>6. \A stage \in Stages : \A i \in DOMAIN RawOf(t, stage) : RowIsReported(stage, RawOf(t, stage)[i])
  BY DEF ReportedRows
<1>7. Settles(t, "selection", SelectionPhase(t))
  <2>1. SelectionPhase(t) = Phase(t, "selection", RawOf(t, "selection"), db.selections, {})
    BY <1>2 DEF SelectionPhase
  <2>2. RawOf(t, "selection") \in File(FieldsOf("selection"))
    BY <1>2, <1>3
  <2>3. \A i \in DOMAIN RawOf(t, "selection") : RowIsReported("selection", RawOf(t, "selection")[i])
    BY <1>1, <1>6
  <2> QED BY <1>1, <1>4, <1>5, <2>1, <2>2, <2>3, PhaseAccounts DEF Settles
<1>8. Settles(t, "odd_tagging", OddTagPhase(t, ids))
  <2>1. OddTagPhase(t, ids) = Phase(t, "odd_tagging", RawOf(t, "odd_tagging"), db.oddTags, ids)
    BY <1>2 DEF OddTagPhase
  <2>2. RawOf(t, "odd_tagging") \in File(FieldsOf("odd_tagging"))
    BY <1>2, <1>3
  <2>3. \A i \in DOMAIN RawOf(t, "odd_tagging") :
          RowIsReported("odd_tagging", RawOf(t, "odd_tagging")[i])
    BY <1>1, <1>6
  <2> QED BY <1>1, <1>4, <1>5, <2>1, <2>2, <2>3, PhaseAccounts DEF Settles
<1>9. Settles(t, "auto_labeling", LabelPhase(t, ids))
  <2>1. LabelPhase(t, ids) = Phase(t, "auto_labeling", RawOf(t, "auto_labeling"), db.labels, ids)
    BY <1>2 DEF LabelPhase
  <2>2. RawOf(t, "auto_labeling") \in File(FieldsOf("auto_labeling"))
    BY <1>2, <1>3
  <2>3. \A i \in DOMAIN RawOf(t, "auto_labeling") :
          RowIsReported("auto_labeling", RawOf(t, "auto_labeling")[i])
    BY <1>1, <1>6
  <2> QED BY <1>1, <1>4, <1>5, <2>1, <2>2, <2>3, PhaseAccounts DEF Settles
<1> QED BY <1>7, <1>8, <1>9

LEMMA WritesAccounts ==
  ASSUME Tables, \A u \in Tasks : Agrees(u), ReportInv, "batch" \notin LongSources,
         NEW t \in Tasks, Writes(t)
  PROVE  \A u \in Tasks : Accounted(u)'
<1>1. /\ \A u \in Tasks \ {t} : tasks'[u] = tasks[u]
      /\ db' = db /\ raw' = raw /\ blocks' = blocks /\ t \notin Stored /\ t \notin Stored'
  BY DEF Writes, Stored
<1>2. \A u, s : /\ RawOf(u, s)' = RawOf(u, s) /\ TableOf(s)' = TableOf(s)
                /\ Found(u, s)' = Found(u, s)
  BY <1>1 DEF RawOf, TableOf, Found
<1>3. ASSUME tasks'[t].status = "failed"
      PROVE  \E stage \in Stages : \E i \in DOMAIN RawOf(t, stage) : Stops(RawOf(t, stage)[i])
  <2>1. PICK stage \in Stages : Outcome(t, stage).raised # None
    BY <1>3 DEF Writes
  <2>2. \A ids : /\ Settles(t, "selection", SelectionPhase(t))
                 /\ Settles(t, "odd_tagging", OddTagPhase(t, ids))
                 /\ Settles(t, "auto_labeling", LabelPhase(t, ids))
    BY <1>1, PhasesSettle DEF ReportInv
  <2>3. Settles(t, stage, Outcome(t, stage))
    BY <2>2, OutcomesOf DEF Stages
  <2> QED BY <2>1, <2>3 DEF Settles
<1>4. Accounted(t)'
  BY <1>1, <1>2, <1>3 DEF Accounted
<1>5. ASSUME NEW u \in Tasks \ {t} PROVE Accounted(u)'
  <2>1. Accounted(u) /\ tasks'[u] = tasks[u] /\ blocks'[u] = blocks[u]
    BY <1>1 DEF ReportInv
  <2> QED BY <1>1, <1>2, <2>1, StillAccounted
<1> QED BY <1>4, <1>5

LEMMA CommitAccounts ==
  ASSUME Tables, ReportInv, NEW t \in Tasks, NEW S, NEW T, NEW L,
         Stores(t, "selection", db.selections, S.table),
         Stores(t, "odd_tagging", db.oddTags, T.table),
         Stores(t, "auto_labeling", db.labels, L.table),
         Numbers(t, "selection", S.rejections), Numbers(t, "odd_tagging", T.rejections),
         Numbers(t, "auto_labeling", L.rejections),
         Settles(t, "selection", S), Settles(t, "odd_tagging", T), Settles(t, "auto_labeling", L),
         Commits(t, S, T, L), Tells(t, S, T, L)
  PROVE  \A u \in Tasks : Accounted(u)'
<1>1. PICK block \in Nat :
        /\ Found(t, "selection")' = {Inserted(block, r) : r \in S.rejections}
        /\ Found(t, "odd_tagging")' = {Inserted(block, r) : r \in T.rejections}
        /\ Found(t, "auto_labeling")' = {Inserted(block, r) : r \in L.rejections}
  BY CommitStores
<1>2. /\ TableOf("selection")' = S.table /\ TableOf("odd_tagging")' = T.table
      /\ TableOf("auto_labeling")' = L.table /\ t \in Stored'
      /\ S.raised = None /\ T.raised = None /\ L.raised = None
      /\ tasks'[t].status # "failed"
      /\ tasks'[t].progress["selection"] = S.progress
      /\ tasks'[t].progress["odd_tagging"] = T.progress
      /\ tasks'[t].progress["auto_labeling"] = L.progress
  <2>1. /\ TableOf("selection")' = S.table /\ TableOf("odd_tagging")' = T.table
        /\ TableOf("auto_labeling")' = L.table /\ t \in Stored' /\ tasks' = tasks
    BY CommitStores, Zenon
  <2> QED BY <2>1 DEF Tells
<1>3. raw' = raw /\ \A u \in Tasks \ {t} :
        /\ tasks'[u] = tasks[u] /\ blocks'[u] = blocks[u]
        /\ \A stage \in Stages : /\ OwnRows(TableOf(stage)', u) = OwnRows(TableOf(stage), u)
                                 /\ Found(u, stage)' = Found(u, stage)
  <2>1. raw' = raw /\ tasks' = tasks
    BY DEF Commits
  <2>2. \A u \in Tasks \ {t} :
          /\ blocks'[u] = blocks[u]
          /\ \A stage \in Stages : /\ OwnRows(TableOf(stage)', u) = OwnRows(TableOf(stage), u)
                                   /\ Found(u, stage)' = Found(u, stage)
    BY CommitStores
  <2> QED BY <2>1, <2>2
<1>4. "selection" \in Stages /\ "odd_tagging" \in Stages /\ "auto_labeling" \in Stages
  BY DEF Stages
<1>5. \A stage : RawOf(t, stage)' = RawOf(t, stage)
  BY <1>3 DEF RawOf
<1>6. Accounts(RawOf(t, "selection"), Found(t, "selection")', OwnRows(S.table, t), S.progress)
  <2>1. Told(S.rejections) /\ Accounts(RawOf(t, "selection"), S.rejections, OwnRows(S.table, t), S.progress)
    BY <1>2 DEF Settles
  <2> QED BY <1>1, <1>4, <2>1, InsertedAccount
<1>7. Accounts(RawOf(t, "odd_tagging"), Found(t, "odd_tagging")', OwnRows(T.table, t), T.progress)
  <2>1. Told(T.rejections) /\ Accounts(RawOf(t, "odd_tagging"), T.rejections, OwnRows(T.table, t), T.progress)
    BY <1>2 DEF Settles
  <2> QED BY <1>1, <1>4, <2>1, InsertedAccount
<1>8. Accounts(RawOf(t, "auto_labeling"), Found(t, "auto_labeling")', OwnRows(L.table, t), L.progress)
  <2>1. Told(L.rejections) /\ Accounts(RawOf(t, "auto_labeling"), L.rejections, OwnRows(L.table, t), L.progress)
    BY <1>2 DEF Settles
  <2> QED BY <1>1, <1>4, <2>1, InsertedAccount
<1>9. Accounted(t)'
  <2>1. ASSUME NEW stage \in Stages
        PROVE  Accounts(RawOf(t, stage), Found(t, stage)', OwnRows(TableOf(stage)', t),
                        tasks'[t].progress[stage])
    <3>1. stage \in {"selection", "odd_tagging", "auto_labeling"}
      BY DEF Stages
    <3> QED BY <1>2, <1>6, <1>7, <1>8, <3>1
  <2>2. \A stage : OwnRows(TableOf(stage)', t) = OwnRows(TableOf(stage), t)'
    BY DEF OwnRows
  <2>3. (\A stage \in Stages : Accounts(RawOf(t, stage), Found(t, stage),
                                        OwnRows(TableOf(stage), t), tasks[t].progress[stage]))'
    BY <1>5, <2>1, <2>2
  <2> QED BY <1>2, <2>3 DEF Accounted
<1>10. ASSUME NEW u \in Tasks \ {t} PROVE Accounted(u)'
  <2>1. Accounted(u)
    BY DEF ReportInv
  <2> QED BY <1>3, <1>10, <2>1, StillAccounted
<1> QED BY <1>9, <1>10

LEMMA WorkAccounts ==
  ASSUME Tables, Documents, \A u \in Tasks : Agrees(u), ReportInv, "batch" \notin LongSources,
         NEW t \in Tasks, Work(t)
  PROVE  \A u \in Tasks : Accounted(u)'
<1>1. CASE Writes(t)
  BY <1>1, WritesAccounts
<1>2. CASE Commit(t)
  <2>1. PICK ids : /\ Commits(t, SelectionPhase(t), OddTagPhase(t, ids), LabelPhase(t, ids))
                   /\ Tells(t, SelectionPhase(t), OddTagPhase(t, ids), LabelPhase(t, ids))
    BY <1>2, CommitCases
  <2> DEFINE S == SelectionPhase(t)
             T == OddTagPhase(t, ids)
             L == LabelPhase(t, ids)
  <2>2. /\ Stores(t, "selection", db.selections, S.table)
        /\ Stores(t, "odd_tagging", db.oddTags, T.table)
        /\ Stores(t, "auto_labeling", db.labels, L.table)
        /\ Numbers(t, "selection", S.rejections) /\ Numbers(t, "odd_tagging", T.rejections)
        /\ Numbers(t, "auto_labeling", L.rejections)
    BY PhasesStore
  <2>3. /\ Settles(t, "selection", S) /\ Settles(t, "odd_tagging", T)
        /\ Settles(t, "auto_labeling", L)
    BY <2>1, PhasesSettle DEF Commits, ReportInv
  <2>4. Commits(t, S, T, L) /\ Tells(t, S, T, L)
    BY <2>1
  <2> HIDE DEF S, T, L
  <2> QED BY <2>2, <2>3, <2>4, CommitAccounts
<1> QED BY <1>1, <1>2, WorkCases

LEMMA NextAccounts ==
  ASSUME Tables, Documents, \A t \in Tasks : Agrees(t), ReportInv, "batch" \notin LongSources,
         [Next]_vars
  PROVE  ReportInv'
<1>1. raw' = raw
  BY WorkKeepsTables DEF Next, Start, Read, vars
<1>2. \A t, stage : RawOf(t, stage)' = RawOf(t, stage)
  BY <1>1 DEF RawOf
<1>3. ReportedRows'
  BY <1>2 DEF ReportInv, ReportedRows
<1>4. ASSUME NEW t \in Tasks, Work(t) PROVE \A u \in Tasks : Accounted(u)'
  BY <1>4, WorkAccounts
<1>5. CASE UNCHANGED <<raw, tasks, analysis, db, blocks>>
  <2>1. ASSUME NEW t \in Tasks PROVE Accounted(t)'
    <3>1. \A stage \in Stages : /\ OwnRows(TableOf(stage)', t) = OwnRows(TableOf(stage), t)
                                /\ Found(t, stage)' = Found(t, stage)
      BY <1>5 DEF TableOf, Found
    <3>2. Accounted(t) /\ tasks'[t] = tasks[t] /\ blocks'[t] = blocks[t]
      BY <1>5 DEF ReportInv
    <3> QED BY <1>1, <3>1, <3>2, StillAccounted
  <2> QED BY <1>3, <2>1 DEF ReportInv
<1>6. (\E t \in Tasks : Work(t)) \/ UNCHANGED <<raw, tasks, analysis, db, blocks>>
  BY DEF Next, Start, Read, vars
<1> QED BY <1>3, <1>4, <1>5, <1>6 DEF ReportInv

LEMMA InitAccounts ==
  ASSUME DefectsAreNamed, Init
  PROVE  ReportInv
<1>1. PICK instance \in Instances : raw = instance.raw
  BY DEF Init
<1>2. ReportedRows
  BY <1>1 DEF ReportedRows, DefectsAreNamed, RawOf
<1>3. \A t \in Tasks : tasks[t].status = "pending" /\ t \notin Stored
  BY DEF Init, NotStarted, Stored
<1> QED BY <1>2, <1>3 DEF ReportInv, Accounted

\* The parts of the properties.
LEMMA ResponsePercent ==
  ASSUME Tables, NEW t \in Tasks, NEW stage \in Stages
  PROVE  TaskResponse(t).progress[stage].percent = Percent(tasks[t].progress[stage])
<1>1. {"status", "error", "progress", "result"} = DOMAIN tasks[t]
  BY DEF Tables, TablesTyped
<1> QED BY <1>1 DEF TaskResponse

LEMMA LostIsHidden ==
  ASSUME NEW t, NEW stage
  PROVE  /\ Hidden(t, stage) = Lost(RawOf(t, stage), Found(t, stage), OwnRows(TableOf(stage), t))
         /\ DuplicateRejections(t, stage) = Repeats(Found(t, stage))
<1>1. \A reasons : RejectionsFor(t, stage, reasons) = Because(Found(t, stage), reasons)
  BY DEF RejectionsFor, Because, Found
<1> QED BY <1>1 DEF Hidden, Lost, OwnRows, DuplicateRejections, Repeats, Found

-----------------------------------------------------------------------------
\* Every table and the client keep their types, whatever the files, requests and the
\* other constants are.
THEOREM TypeCorrect == Spec => []TypeOK
<1>1. DataInv => TypeOK
  <2>1. SUFFICES ASSUME DataInv PROVE TypeOK
    OBVIOUS
  <2>2. TablesTyped
    BY <2>1 DEF DataInv, Tables
  <2>3. \/ walk.state = "idle" /\ walk.requests \subseteq Requests
        \/ Walking(walk)
    BY <2>1 DEF DataInv, WalkInv
  <2> QED BY <2>2, <2>3 DEF TypeOK, TablesTyped, SelectionTyped, OddTagTyped, LabelTyped, Walking
<1> QED BY <1>1, DataInvariant, PTL

\* A client that follows the pages to the end sees every row that met its filters when it
\* began, for any number of tasks, rows and filters, any page size, and any analyses that
\* are stored in between; but not by the cursor of GET /rejections.
THEOREM WalksMissNothing == Spec => []WalkIsComplete
<1>1. (walk.state = "idle" \/ Finds(walk)) => WalkIsComplete
  BY DEF Finds, WalkIsComplete
<1>2. DataInv => WalkIsComplete
  BY <1>1, WalkFacts
<1> QED BY <1>2, DataInvariant, PTL

\* No walk by a cursor, and no walk during which nothing is stored, shows a row twice, but
\* for the videos that several tasks tagged.
THEOREM WalksShowOnce == Spec => []WalkRepeatsNothing
<1>1. (walk.state = "idle" \/ Once(walk)) => WalkRepeatsNothing
  BY Zenon DEF Once, Alone, WalkRepeatsNothing
<1>2. DataInv => WalkRepeatsNothing
  BY <1>1, WalkFacts
<1> QED BY <1>2, DataInvariant, PTL

\* What GET /data shows meets the filters as they are meant, FLOAT columns and joins
\* notwithstanding.
THEOREM WalksShowMatches == Spec => []ShownMatches
<1>1. (walk.state = "idle" \/ Matches(walk)) => ShownMatches
  BY Zenon DEF Matches, RowMatches, ShownMatches
<1>2. DataInv => ShownMatches
  BY <1>1, WalkFacts
<1> QED BY <1>2, DataInvariant, PTL

\* last is true on the page behind which nothing lies, and on no page before it.
THEOREM LastIsTrue == Spec => []LastPageIsLast
<1>1. (walk.state = "idle" \/ Last(walk)) => LastPageIsLast
  BY DEF Last, LastPageIsLast
<1>2. DataInv => LastPageIsLast
  BY <1>1, WalkFacts
<1> QED BY <1>2, DataInvariant, PTL

\* Whatever is stored in between, GET /analyze/{task_id} reports of a task whose rows are
\* committed that it is COMPLETED, with what the tables have and the searches find of it.  Of
\* any other nothing is found, it is COMPLETED only while its commit is to come, and it shows
\* progress only of phases that are over.  Analyses follow one another here, and none is
\* run again.
THEOREM StatusIsTrue == Spec => []StatusAgreesWithSearch
<1>1. Init => \A t \in Tasks : Agrees(t)
  BY InitAgrees
<1>2. DataInv /\ (\A t \in Tasks : Agrees(t)) /\ [Next]_vars => (\A t \in Tasks : Agrees(t))'
  BY NextAgrees DEF DataInv
<1>3. DataInv /\ (\A t \in Tasks : Agrees(t)) => StatusAgreesWithSearch
  <2> SUFFICES ASSUME Tables, Documents, NEW t \in Tasks, Agrees(t)
               PROVE  LET shown == TaskResponse(t)
                          videos == Cardinality(OwnRows(db.selections, t))
                      IN IF t \in Stored
                         THEN /\ shown.status = "completed"
                              /\ shown.result.linked + shown.result.partial = videos
                              /\ shown.progress["selection"].processed = videos
                              /\ \A stage \in Stages :
                                   /\ shown.progress[stage].processed
                                        = Cardinality(OwnRows(TableOf(stage), t))
                                   /\ shown.progress[stage].rejected = Cardinality(Found(t, stage))
                         ELSE /\ videos = 0
                              /\ \A stage \in Stages :
                                   Cardinality(OwnRows(TableOf(stage), t))
                                     + Cardinality(Found(t, stage)) = 0
                              /\ shown.status = "completed" => t = analysis.task
                              /\ shown.status \in {"pending", "processing"} =>
                                   \A stage \in Stages :
                                     \/ shown.progress[stage].percent = 0
                                     \/ t = analysis.task /\ stage \in analysis.over
    BY SearchesFind DEF StatusAgreesWithSearch, OwnRows, DataInv
  <2> DEFINE shown == TaskResponse(t)
  <2>1. tasks[t].progress \in Progresses /\ "selection" \in Stages
    BY DEF Tables, TablesTyped, Stages
  <2>2. \A stage \in Stages :
          /\ tasks[t].progress[stage] \in [total : Nat, processed : Nat, rejected : Nat]
          /\ tasks[t].progress[stage].total \in Nat
    BY <2>1 DEF Progresses
  <2>3. shown.status = tasks[t].status /\ shown.result = tasks[t].result
        /\ \A stage \in Stages :
             /\ shown.progress[stage].processed = tasks[t].progress[stage].processed
             /\ shown.progress[stage].rejected = tasks[t].progress[stage].rejected
             /\ shown.progress[stage].percent = Percent(tasks[t].progress[stage])
    <3>1. {"status", "error", "progress", "result"} = DOMAIN tasks[t]
      BY DEF Tables, TablesTyped
    <3> HIDE DEF Stages
    <3> QED BY <3>1 DEF TaskResponse
  <2>4. Documented(t)
    BY DEF Documents
  <2> HIDE DEF shown
  <2>5. CASE t \in Stored
    <3>1. tasks[t].status = "completed"
      BY <2>4, <2>5 DEF Documented
    <3> QED BY <2>1, <2>3, <2>5, <3>1, TablesByStage DEF Agrees, shown
  <2>6. CASE t \notin Stored
    <3>1. \A stage \in Stages : OwnRows(TableOf(stage), t) = {}
      BY <2>6 DEF Agrees
    <3>2. \A stage : Found(t, stage) = {}
      BY <2>6 DEF Found, Tables, Blocks, Stored
    <3>3. OwnRows(db.selections, t) = {} /\ Cardinality({}) = 0
      <4>1. OwnRows(TableOf("selection"), t) = {}
        BY <2>1, <3>1
      <4> QED BY <4>1, TablesByStage, FS_EmptySet
    <3>4. ASSUME NEW stage \in Stages
          PROVE  Cardinality(OwnRows(TableOf(stage), t)) + Cardinality(Found(t, stage)) = 0
      <4>1. Cardinality(OwnRows(TableOf(stage), t)) = 0 /\ Cardinality(Found(t, stage)) = 0
        BY <3>1, <3>2, <3>3
      <4> QED BY <4>1
    <3>5. shown.status = "completed" => t = analysis.task
      BY <2>3, <2>4, <2>6 DEF Documented
    <3>6. ASSUME shown.status \in {"pending", "processing"}, NEW stage \in Stages
          PROVE  shown.progress[stage].percent = 0 \/ (t = analysis.task /\ stage \in analysis.over)
      <4>1. \/ t = analysis.task /\ stage \in analysis.over
            \/ tasks[t].progress[stage].processed = 0 /\ tasks[t].progress[stage].rejected = 0
        BY <2>3, <2>4, <2>6, <3>6 DEF Documented, Fresh, Reached
      <4> QED BY <2>2, <2>3, <4>1, NothingIsNoPercent
    <3> QED BY <2>6, <3>3, <3>4, <3>5, <3>6 DEF shown
  <2> QED BY <2>5, <2>6, SMTT(30)
<1> QED BY <1>1, <1>2, <1>3, DataInvariant, PTL DEF Spec

\* If BadRequests are the requests the models refuse, then a request that keeps the rules is
\* refused on no page of any walk but for a path that some file has too long for its column,
\* and one that breaks them is never answered: whatever the files, the filters and the pages.
THEOREM RefusalsHaveReasons ==
  ASSUME BadRequestsAreNamed
  PROVE  Spec => []RefusedForAReason
<1>1. Init => RefusalInv
  BY InitRefusesNothing
<1>2. DataInv /\ RefusalInv /\ [Next]_vars => RefusalInv'
  BY NextKeepsRefusals
<1>3. RefusalInv => RefusedForAReason
  BY DEF RefusalInv, Entitled, RefusedForAReason, LongPath
<1> QED BY <1>1, <1>2, <1>3, DataInvariant, PTL DEF Spec

\* What the analyses have reported is what is wrong in the files, and stays so while they and
\* the walks interleave.
LEMMA ReportInvariant ==
  ASSUME DefectsAreNamed
  PROVE  Spec => []ReportInv
<1>1. Init => ReportInv /\ \A t \in Tasks : Agrees(t)
  BY InitAccounts, InitAgrees
<1>2. DataInv /\ ReportInv /\ (\A t \in Tasks : Agrees(t)) /\ [Next]_vars
        => ReportInv' /\ (\A t \in Tasks : Agrees(t))'
  BY NextAccounts, NextAgrees DEF DefectsAreNamed, DataInv
<1> QED BY <1>1, <1>2, DataInvariant, PTL DEF Spec

\* If the defects of every row are what its refiner alone finds wrong in it, then whatever the
\* analyses of other files store before, in between and after: each defect of each row of a
\* stored task has one rejection in MySQL and nothing else has one of its reasons, and no
\* analysis fails without a row that stops it.
THEOREM DefectsAreReported ==
  ASSUME DefectsAreNamed
  PROVE  Spec => []EachDefectReported
<1>1. DataInv /\ ReportInv => EachDefectReported
  <2> SUFFICES ASSUME DataInv, ReportInv PROVE EachDefectReported
    OBVIOUS
  <2>1. Tables
    BY DEF DataInv
  <2>2. ASSUME NEW r \in db.rejections PROVE r.source # ""
    <3>1. r.task \in Tasks /\ r.stage \in Stages /\ r.task \in Stored
      BY <2>1 DEF Tables, TablesTyped, Blocks, Stored
    <3>2. \A x \in Found(r.task, r.stage) : x.source # ""
      BY <3>1, Zenon DEF ReportInv, Accounted, Accounts
    <3>3. r \in Found(r.task, r.stage)
      BY DEF Found
    <3> QED BY <3>2, <3>3, Zenon
  <2>3. ASSUME NEW t \in Stored, NEW stage \in Stages
        PROVE  /\ {<<r.source, r.field, Coarse(r.reason)>> : r \in Others(Found(t, stage))}
                    = {<<RawOf(t, stage)[d[1]].source, d[2].field, d[2].reason>> :
                        d \in DefectsOf(RawOf(t, stage))}
               /\ Cardinality(Others(Found(t, stage))) = Cardinality(DefectsOf(RawOf(t, stage)))
    <3>1. t \in Tasks
      BY DEF Stored
    <3> QED BY <3>1, Zenon DEF ReportInv, Accounted, Accounts
  <2>4. ASSUME NEW t \in Stored, NEW stage \in Stages
        PROVE  LET rows == RawOf(t, stage)
                   reported == {r \in db.rejections :
                                 /\ r.task = t /\ r.stage = stage /\ r.reason # "unlinked_record"
                                 /\ r.field # "unique_constraint"}
               IN /\ {<<r.source, r.field, Coarse(r.reason)>> : r \in reported}
                       = {<<rows[d[1]].source, d[2].field, d[2].reason>> : d \in DefectsOf(rows)}
                  /\ Cardinality(reported) = Cardinality(DefectsOf(rows))
    <3>1. PICK R : R = {r \in db.rejections :
                         /\ r.task = t /\ r.stage = stage /\ r.reason # "unlinked_record"
                         /\ r.field # "unique_constraint"}
      OBVIOUS
    <3>2. Others(Found(t, stage)) = R
      BY <3>1 DEF Others, Found, ForADefect
    <3> QED BY <2>3, <3>1, <3>2, Zenon
  <2>5. ASSUME NEW t \in Tasks, tasks[t].status = "failed"
        PROVE  \E stage \in Stages : \E i \in DOMAIN RawOf(t, stage) : Stops(RawOf(t, stage)[i])
    BY <2>5 DEF ReportInv, Accounted
  <2> QED BY <2>2, <2>4, <2>5 DEF EachDefectReported
<1> QED BY <1>1, ReportInvariant, DataInvariant, PTL DEF Spec

\* Under the same hypothesis no row of a stored task disappears: a right row is stored or
\* rejected as unlinked, or it is a duplicate and the stage has rejections for duplicates, with
\* the reason of the stage and no more than there are; and a phase is reported at 100 % but
\* for rows with several defects and several duplicates.
THEOREM RowsAreKept ==
  ASSUME DefectsAreNamed
  PROVE  Spec => []NoRowVanishes
<1>1. DataInv /\ ReportInv => NoRowVanishes
  <2> SUFFICES ASSUME DataInv, ReportInv, NEW t \in Stored, NEW stage \in Stages
               PROVE  /\ Hidden(t, stage) >= 0
                      /\ Hidden(t, stage) = 0 <=> DuplicateRejections(t, stage) = {}
                      /\ Cardinality(DuplicateRejections(t, stage)) <= Hidden(t, stage)
                      /\ \A r \in DuplicateRejections(t, stage) :
                           /\ stage = "odd_tagging" => r.reason = "duplicate_tagging"
                           /\ stage = "auto_labeling" => r.reason = "duplicate_label"
                      /\ \/ TaskResponse(t).progress[stage].percent = 1000
                         \/ RawOf(t, stage) = <<>>
                         \/ \E i \in DOMAIN RawOf(t, stage) :
                              Cardinality(RawOf(t, stage)[i].defects) > 1
                         \/ Hidden(t, stage) > 1
    BY ZenonT(60) DEF NoRowVanishes
  <2> DEFINE rows == RawOf(t, stage)
             R == Found(t, stage)
             own == OwnRows(TableOf(stage), t)
             p == tasks[t].progress[stage]
             lost == Hidden(t, stage)
             repeats == DuplicateRejections(t, stage)
             percent == TaskResponse(t).progress[stage].percent
  <2>1. t \in Tasks /\ Accounts(rows, R, own, p)
    BY DEF Stored, ReportInv, Accounted
  <2>2. percent = Percent(p)
    BY <2>1, ResponsePercent DEF DataInv
  <2>3. lost = Lost(rows, R, own) /\ repeats = Repeats(R)
    BY LostIsHidden
  <2>4. \A r \in R : r.stage = stage
    BY DEF Found
  <2> SUFFICES /\ lost >= 0
               /\ lost = 0 <=> repeats = {}
               /\ Cardinality(repeats) <= lost
               /\ \A r \in repeats : /\ stage = "odd_tagging" => r.reason = "duplicate_tagging"
                                     /\ stage = "auto_labeling" => r.reason = "duplicate_label"
               /\ \/ percent = 1000
                  \/ rows = <<>>
                  \/ \E i \in DOMAIN rows : Cardinality(rows[i].defects) > 1
                  \/ lost > 1
    OBVIOUS
  <2> HIDE DEF rows, R, own, p, lost, repeats, percent
  <2>5. /\ lost >= 0 /\ RepeatsTell(R, lost)
        /\ \/ percent = 1000
           \/ rows = <<>>
           \/ \E i \in DOMAIN rows : Cardinality(rows[i].defects) > 1
           \/ lost > 1
    BY <2>1, <2>2, <2>3, LossIsShown
  <2>6. /\ lost = 0 <=> repeats = {}
        /\ Cardinality(repeats) <= lost
        /\ \A r \in repeats : /\ stage = "odd_tagging" => r.reason = "duplicate_tagging"
                              /\ stage = "auto_labeling" => r.reason = "duplicate_label"
    BY <2>3, <2>4, <2>5 DEF RepeatsTell, Repeats
  <2> QED BY <2>5, <2>6
<1> QED BY <1>1, ReportInvariant, DataInvariant, PTL DEF Spec
=============================================================================
