-------------------------- MODULE ConversionsProofs --------------------------
(***************************************************************************)
(* Proofs about Conversions, for any set of plain texts and any number of  *)
(* headers in a request and items in a dictionary.                         *)
(***************************************************************************)
EXTENDS Conversions, SequenceTheorems, FiniteSetTheorems, TLAPS

-----------------------------------------------------------------------------
(* The inputs. *)

LEMMA UpToAreSequences ==
  ASSUME NEW max \in Nat, NEW S, NEW s \in UpTo(max, S)
  PROVE  s \in Seq(S)
<1>1. PICK n \in 0..max : s \in [1..n -> S]
  BY DEF UpTo
<1>2. n \in Nat
  OBVIOUS
<1>3. QED
  BY <1>1, <1>2

LEMMA RequestsHaveHeaders ==
  ASSUME NEW req \in Requests
  PROVE  req.headers \in Seq(RequestHeaders)
<1>1. PICK k \in {"http", "websocket"} :
        req \in {Request(k, v, "GET", "none", <<>>) :
                    v \in {"0.9", "1.0", "1.1", "2", "3"}}
             \cup {Request(k, "1.1", m, "none", <<>>) :
                    m \in KnownMethods \cup {"PURGE"}}
             \cup {Request(k, "1.1", "GET", s, <<>>) :
                    s \in {"http", "https", "ws", "wss"}}
             \cup {Request(k, "1.1", "GET", "none", h) : h \in UpTo(MaxHeaders, RequestHeaders)}
  BY DEF Requests
<1>2. req.headers = <<>> \/ req.headers \in UpTo(MaxHeaders, RequestHeaders)
  BY <1>1 DEF Request
<1>3. QED
  BY <1>2, UpToAreSequences, EmptySeq, ConversionsAssumption

LEMMA DictionariesHaveItems ==
  ASSUME NEW d \in Dictionaries
  PROVE  \E S : d.items \in Seq(S)
<1>1. d.items = <<>> \/ d.items \in UpTo(MaxHeaders, Items)
      \/ d.items \in UpTo(MaxPairs, Pairs)
  BY DEF Dictionaries, Dictionary, Plainly
<1>2. CASE d.items = <<>>
  BY <1>2, EmptySeq
<1>3. CASE d.items \in UpTo(MaxHeaders, Items)
  BY <1>3, UpToAreSequences, ConversionsAssumption
<1>4. CASE d.items \in UpTo(MaxPairs, Pairs)
  BY <1>4, UpToAreSequences, ConversionsAssumption
<1>5. QED
  BY <1>1, <1>2, <1>3, <1>4

-----------------------------------------------------------------------------
(* The headers of a response. *)

\* A set of numbers that is not empty has a least one: of the intervals that
\* end at its elements, one has none of the others inside it.
LEMMA LeastElement ==
  ASSUME NEW S, S \subseteq Nat, S # {}
  PROVE  \E i \in S : \A j \in S : i <= j
<1> DEFINE T == {1..i : i \in S}
<1>1. T \subseteq FiniteSubsetsOf(Nat)
  <2>1. \A i \in S : 1..i \subseteq Nat /\ IsFiniteSet(1..i)
    BY FS_Interval
  <2>2. QED
    BY <2>1 DEF FiniteSubsetsOf
<1>2. PICK t \in T : \A u \in T : ~ (<<u, t>> \in StrictSubsetOrdering(Nat))
  <2>1. T # {}
    OBVIOUS
  <2>2. IsWellFoundedOn(StrictSubsetOrdering(Nat), FiniteSubsetsOf(Nat))
    BY FS_StrictSubsetOrderingWellFounded
  <2> HIDE DEF T
  <2>3. QED
    BY <1>1, <2>1, <2>2, WFMin
<1>3. PICK i \in S : t = 1..i
  OBVIOUS
<1>4. ASSUME NEW j \in S, ~(i <= j)
      PROVE  FALSE
  <2>1. i \in Nat /\ j \in Nat /\ j < i
    BY <1>4
  <2>2. 1..j \subseteq 1..i /\ i \in 1..i /\ i \notin 1..j
    BY <2>1
  <2>3. 1..j \in SUBSET Nat /\ 1..i \in SUBSET Nat /\ 1..j # 1..i
    BY <2>2
  <2>4. <<1..j, t>> \in StrictSubsetOrdering(Nat)
    BY <1>3, <2>2, <2>3 DEF StrictSubsetOrdering
  <2>5. QED
    BY <1>2, <2>4
<1>5. QED
  BY <1>4

\* A function is determined by its value at 0 and by how each value follows
\* from the one before.
LEMMA SameRecursion ==
  ASSUME NEW L \in Nat, NEW f, NEW g, f[0] = g[0],
         \A n \in 1..L : f[n-1] = g[n-1] => f[n] = g[n]
  PROVE  f[L] = g[L]
<1> DEFINE S == {n \in 0..L : f[n] # g[n]}
<1>1. SUFFICES ASSUME S # {} PROVE FALSE
  OBVIOUS
<1>2. S \subseteq 0..L /\ S \subseteq Nat
  OBVIOUS
<1>3. PICK i \in S : \A j \in S : i <= j
  <2> HIDE DEF S
  <2>1. QED
    BY <1>1, <1>2, LeastElement
<1>4. i \in 1..L
  BY <1>2
<1>5. i - 1 \notin S /\ i - 1 \in 0..L
  BY <1>2, <1>3, <1>4
<1>6. QED
  BY <1>4, <1>5

\* Where every item is a pair, each gives its header.
LEMMA PairsAreKept ==
  ASSUME NEW S, NEW items \in Seq(S), \A i \in 1..Len(items) : IsPair(items[i])
  PROVE  StartHeaders(items) = [i \in 1..Len(items) |-> Decoded(items[i])]
<1> DEFINE L == Len(items)
           W == [n \in 0..L |-> [i \in 1..n |-> Decoded(items[i])]]
           Step(f) == [n \in 0..L |->
                          IF n = 0 THEN <<>>
                          ELSE IF IsPair(items[n]) THEN Append(f[n-1], Decoded(items[n]))
                          ELSE f[n-1]]
           found == CHOOSE f : f = Step(f)
<1>1. L \in Nat
  OBVIOUS
<1>2. W[0] = <<>> /\ \A n \in 1..L : W[n] = Append(W[n-1], Decoded(items[n]))
  <2>1. W[0] = <<>>
    BY <1>1
  <2>2. ASSUME NEW n \in 1..L
        PROVE  W[n] = Append(W[n-1], Decoded(items[n]))
    <3>1. /\ W[n] = [i \in 1..n |-> Decoded(items[i])]
          /\ W[n-1] = [i \in 1..(n-1) |-> Decoded(items[i])]
          /\ n \in Nat /\ n - 1 \in Nat
      BY <1>1
    <3> HIDE DEF W
    <3>2. QED
      BY <3>1
  <2>3. QED
    BY <2>1, <2>2
<1>3. W = Step(W)
  <2>1. \A n \in 0..L : W[n] = Step(W)[n]
    BY <1>1, <1>2
  <2>2. W = [n \in 0..L |-> W[n]]
    OBVIOUS
  <2>3. Step(W) = [n \in 0..L |-> Step(W)[n]]
    OBVIOUS
  <2>4. QED
    BY <2>1, <2>2, <2>3
<1>4. found = Step(found)
  BY <1>3
<1>5. StartHeaders(items) = found[L]
  BY DEF StartHeaders
<1> HIDE DEF found, W
<1>6. \A n \in 0..L : found[n] = Step(found)[n]
  BY <1>4
<1>7. \A n \in 1..L : IsPair(items[n])
  OBVIOUS
<1>8. found[0] = W[0]
  BY <1>1, <1>2, <1>6
<1>9. ASSUME NEW n \in 1..L, found[n-1] = W[n-1]
      PROVE  found[n] = W[n]
  <2>1. n \in 0..L /\ n # 0
    BY <1>1
  <2>2. found[n] = Append(found[n-1], Decoded(items[n]))
    BY <1>6, <1>7, <2>1
  <2>3. QED
    BY <1>2, <1>9, <2>2
<1>10. found[L] = W[L]
  <2> HIDE DEF L, Step
  <2>1. QED
    BY <1>1, <1>8, <1>9, SameRecursion
<1>11. QED
  BY <1>1, <1>5, <1>10 DEF W

\* The items of one name are finitely many, and each counts once.
LEMMA ItemsAreCounted ==
  ASSUME NEW items, NEW field, NEW n \in Nat
  PROVE  /\ IsFiniteSet(ItemsOf(items, field, n))
         /\ Cardinality(ItemsOf(items, field, n)) \in Nat
         /\ \A i \in ItemsOf(items, field, n) :
               /\ i \in 1..n
               /\ Cardinality(ItemsOf(items, field, i))
                     \in 1..Cardinality(ItemsOf(items, field, n))
<1> DEFINE Of(m) == ItemsOf(items, field, m)
<1>1. \A m \in Nat : IsFiniteSet(Of(m)) /\ Cardinality(Of(m)) \in Nat
  <2> SUFFICES ASSUME NEW m \in Nat
               PROVE  IsFiniteSet(Of(m)) /\ Cardinality(Of(m)) \in Nat
    OBVIOUS
  <2>1. IsFiniteSet(1..m) /\ Of(m) \subseteq 1..m
    BY FS_Interval DEF ItemsOf
  <2>2. IsFiniteSet(Of(m))
    BY <2>1, FS_Subset
  <2> HIDE DEF Of
  <2>3. QED
    BY <2>2, FS_CardinalityType
<1>2. ASSUME NEW i \in Of(n)
      PROVE  i \in 1..n /\ Cardinality(Of(i)) \in 1..Cardinality(Of(n))
  <2>1. i \in 1..n /\ i \in Nat /\ i \in Of(i) /\ Of(i) \subseteq Of(n)
    BY DEF ItemsOf
  <2>2. /\ IsFiniteSet(Of(n)) /\ IsFiniteSet(Of(i))
        /\ Cardinality(Of(n)) \in Nat /\ Cardinality(Of(i)) \in Nat
    BY <1>1, <2>1
  <2> HIDE DEF Of
  <2>3. Cardinality(Of(i)) <= Cardinality(Of(n))
    BY <2>1, <2>2, FS_Subset
  <2>4. Cardinality(Of(i)) # 0
    BY <2>1, <2>2, FS_EmptySet
  <2>5. QED
    BY <2>1, <2>2, <2>3, <2>4
<1>3. QED
  BY <1>1, <1>2

\* One header more: it goes behind the values of its name, and every other
\* value stays where it is.
LEMMA AppendedKeeps ==
  ASSUME NEW V, NEW map \in [FieldNames -> Seq(V)],
         NEW items, NEW n \in Nat, n # 0,
         HasItems(map, items, n-1),
         NEW header, header.name = items[n].name, header.value \in V,
         SameText(items[n].value, header.value)
  PROVE  /\ Appended(map, header) \in [FieldNames -> Seq(V)]
         /\ HasItems(Appended(map, header), items, n)
<1> DEFINE f == HeaderName(header.name)
           new == Appended(map, header)
<1>1. n - 1 \in Nat
  OBVIOUS
<1>2. \A field \in FieldNames :
         new[field] = IF field = f THEN Append(map[field], header.value) ELSE map[field]
  BY DEF Appended
<1>3. new \in [FieldNames -> Seq(V)]
  <2>1. new = [map EXCEPT ![f] = Append(@, header.value)]
    BY DEF Appended
  <2> HIDE DEF new, f
  <2>2. \A field \in FieldNames : Append(map[field], header.value) \in Seq(V)
    OBVIOUS
  <2>3. QED
    BY <2>1, <2>2
<1> HIDE DEF new
<1>4. ASSUME NEW field \in FieldNames
      PROVE  /\ Len(new[field]) = Cardinality(ItemsOf(items, field, n))
             /\ \A i \in ItemsOf(items, field, n) :
                   SameText(items[i].value,
                            new[field][Cardinality(ItemsOf(items, field, i))])
  <2> DEFINE Of(m) == ItemsOf(items, field, m)
             before == map[field]
             value == header.value
  <2>1. /\ Len(before) = Cardinality(Of(n-1))
        /\ \A i \in Of(n-1) : SameText(items[i].value, before[Cardinality(Of(i))])
    BY DEF HasItems
  <2>2. /\ IsFiniteSet(Of(n-1))
        /\ Cardinality(Of(n-1)) \in Nat
        /\ \A i \in Of(n-1) : i \in 1..(n-1)
                             /\ Cardinality(Of(i)) \in 1..Cardinality(Of(n-1))
    BY <1>1, ItemsAreCounted
  <2>3. before \in Seq(V)
    OBVIOUS
  <2>4. CASE field # f
    <3>1. Of(n) = Of(n-1)
      BY <2>4 DEF ItemsOf
    <3>2. new[field] = before
      BY <1>2, <2>4
    <3> HIDE DEF Of, before
    <3>3. /\ Len(new[field]) = Cardinality(Of(n))
          /\ \A i \in Of(n) :
                SameText(items[i].value, new[field][Cardinality(Of(i))])
      BY <2>1, <3>1, <3>2
    <3>4. QED
      BY <3>3 DEF Of
  <2>5. CASE field = f
    <3>1. Of(n) = Of(n-1) \cup {n} /\ n \notin Of(n-1)
      BY <2>5 DEF ItemsOf
    <3>2. new[field] = Append(before, value)
      BY <1>2, <2>5
    <3> HIDE DEF Of, before, value
    <3>3. Cardinality(Of(n)) = Cardinality(Of(n-1)) + 1
      BY <2>2, <3>1, FS_AddElement
    <3>4. /\ Len(new[field]) = Cardinality(Of(n))
          /\ new[field][Cardinality(Of(n))] = value
          /\ \A k \in 1..Cardinality(Of(n-1)) : new[field][k] = before[k]
      <4>1. value \in V
        BY DEF value
      <4>2. QED
        BY <2>1, <2>2, <2>3, <3>2, <3>3, <4>1
    <3>5. ASSUME NEW i \in Of(n)
          PROVE  SameText(items[i].value, new[field][Cardinality(Of(i))])
      <4>1. CASE i = n
        BY <3>4, <4>1 DEF value
      <4>2. CASE i # n
        <5>1. i \in Of(n-1)
          BY <3>1, <3>5, <4>2
        <5>2. new[field][Cardinality(Of(i))] = before[Cardinality(Of(i))]
          BY <2>2, <3>4, <5>1
        <5>3. QED
          BY <2>1, <5>1, <5>2
      <4>3. QED
        BY <4>1, <4>2
    <3>6. QED
      BY <3>4, <3>5 DEF Of
  <2>6. QED
    BY <2>4, <2>5
<1>5. HasItems(new, items, n)
  BY <1>4 DEF HasItems
<1>6. QED
  BY <1>3, <1>5 DEF new

\* The recursion of HeaderMap has a solution: were there a first length it has
\* none for, the one of the length before could be continued.
LEMMA MapIsBuilt ==
  ASSUME NEW headers, Len(headers) \in Nat
  PROVE  \E built :
           /\ HeaderMap(headers) = built[Len(headers)]
           /\ built[0] = NoHeaders
           /\ \A n \in 1..Len(headers) : built[n] = Appended(built[n-1], headers[n])
<1> DEFINE L == Len(headers)
           Step(f, m) == [n \in 0..m |-> IF n = 0 THEN NoHeaders
                                         ELSE Appended(f[n-1], headers[n])]
           Solved(m) == \E f : f = Step(f, m)
           S == {m \in 0..L : ~Solved(m)}
           built == CHOOSE f : f = Step(f, L)
<1>1. S = {}
  <2>1. SUFFICES ASSUME S # {} PROVE FALSE
    OBVIOUS
  <2>2. S \subseteq Nat
    OBVIOUS
  <2>3. PICK m \in S : \A k \in S : m <= k
    <3> HIDE DEF S
    <3>1. QED
      BY <2>1, <2>2, LeastElement
  <2>4. m \in 0..L /\ ~Solved(m)
    OBVIOUS
  <2>5. m # 0
    <3>1. SUFFICES ASSUME m = 0 PROVE FALSE
      OBVIOUS
    <3> DEFINE g == [n \in 0..0 |-> NoHeaders]
    <3>2. g = Step(g, 0)
      <4>1. \A n \in 0..0 : n = 0
        OBVIOUS
      <4>2. QED
        BY <4>1
    <3>3. QED
      BY <2>4, <3>1, <3>2
  <2>6. m - 1 \in 0..L /\ m - 1 \notin S
    BY <2>3, <2>4, <2>5
  <2>7. PICK f : f = Step(f, m-1)
    BY <2>6
  <2> DEFINE g == [n \in 0..m |-> IF n = m THEN Appended(f[m-1], headers[m]) ELSE f[n]]
  <2>8. \A n \in 0..m : n # m => n \in 0..(m-1)
    BY <2>4, <2>5
  <2>9. \A n \in 0..m : g[n] = IF n = 0 THEN NoHeaders
                               ELSE Appended(g[n-1], headers[n])
    <3> SUFFICES ASSUME NEW n \in 0..m
                 PROVE  g[n] = IF n = 0 THEN NoHeaders ELSE Appended(g[n-1], headers[n])
      OBVIOUS
    <3>1. n # 0 => n - 1 \in 0..m /\ n - 1 # m
      BY <2>4
    <3>2. n # 0 => g[n-1] = f[n-1]
      BY <3>1
    <3>3. CASE n = m
      BY <2>5, <3>2, <3>3
    <3>4. CASE n # m
      <4>1. n \in 0..(m-1)
        BY <2>8, <3>4
      <4>2. f[n] = IF n = 0 THEN NoHeaders ELSE Appended(f[n-1], headers[n])
        BY <2>7, <4>1
      <4>3. g[n] = f[n]
        BY <3>4
      <4>4. QED
        BY <3>2, <4>2, <4>3
    <3>5. QED
      BY <3>3, <3>4
  <2>10. g = Step(g, m)
    <3>1. \A n \in 0..m : g[n] = Step(g, m)[n]
      BY <2>9
    <3>2. g = [n \in 0..m |-> g[n]]
      OBVIOUS
    <3>3. Step(g, m) = [n \in 0..m |-> Step(g, m)[n]]
      OBVIOUS
    <3>4. QED
      BY <3>1, <3>2, <3>3
  <2>11. QED
    BY <2>4, <2>10
<1>2. L \in 0..L
  OBVIOUS
<1>3. built = Step(built, L)
  <2>1. Solved(L)
    BY <1>1, <1>2
  <2>2. QED
    BY <2>1
<1>4. HeaderMap(headers) = built[L]
  BY DEF HeaderMap
<1> HIDE DEF built
<1>5. \A n \in 0..L : built[n] = Step(built, L)[n]
  BY <1>3
<1>6. built[0] = NoHeaders /\ \A n \in 1..L : built[n] = Appended(built[n-1], headers[n])
  BY <1>5
<1>7. QED
  BY <1>4, <1>6

\* So all headers are in the map, those of one name in their order, and only a
\* text that is not UTF-8 is another.
LEMMA MapHasItems ==
  ASSUME NEW S, NEW items \in Seq(S), \A i \in 1..Len(items) : IsPair(items[i])
  PROVE  HasItems(HeaderMap(StartHeaders(items)), items, Len(items))
<1> DEFINE headers == StartHeaders(items)
           L == Len(items)
           V == {Decoded(items[i]).value : i \in 1..L}
<1>1. L \in Nat
  OBVIOUS
<1>2. headers = [i \in 1..L |-> Decoded(items[i])]
  BY PairsAreKept
<1> HIDE DEF headers
<1>3. Len(headers) = L
  BY <1>1, <1>2
<1>4. \A i \in 1..L : /\ headers[i].name = items[i].name
                      /\ headers[i].value \in V
                      /\ SameText(items[i].value, headers[i].value)
  BY <1>2 DEF Decoded, Header, FromUtf8Lossy, SameText
<1> HIDE DEF L, V
<1>5. PICK built :
        /\ HeaderMap(headers) = built[L]
        /\ built[0] = NoHeaders
        /\ \A n \in 1..L : built[n] = Appended(built[n-1], headers[n])
  BY <1>1, <1>3, MapIsBuilt
<1> DEFINE Good(n) == built[n] \in [FieldNames -> Seq(V)] /\ HasItems(built[n], items, n)
           Bad == {n \in 0..L : ~Good(n)}
<1>6. Good(0)
  <2>1. NoHeaders \in [FieldNames -> Seq(V)]
    BY EmptySeq DEF NoHeaders
  <2>2. \A field \in FieldNames : ItemsOf(items, field, 0) = {}
    BY DEF ItemsOf
  <2>3. Cardinality({}) = 0
    BY FS_EmptySet
  <2>4. HasItems(NoHeaders, items, 0)
    <3>1. \A field \in FieldNames : Len(NoHeaders[field]) = 0
      BY DEF NoHeaders
    <3>2. QED
      BY <2>2, <2>3, <3>1 DEF HasItems
  <2>5. QED
    BY <1>5, <2>1, <2>4
<1>7. ASSUME NEW n \in 1..L, Good(n-1)
      PROVE  Good(n)
  <2>1. n \in Nat /\ n # 0
    BY <1>1
  <2>2. built[n] = Appended(built[n-1], headers[n])
    BY <1>5
  <2>3. /\ headers[n].name = items[n].name /\ headers[n].value \in V
        /\ SameText(items[n].value, headers[n].value)
    BY <1>4
  <2>4. built[n-1] \in [FieldNames -> Seq(V)] /\ HasItems(built[n-1], items, n-1)
    BY <1>7
  <2> DEFINE map == built[n-1]
             header == headers[n]
  <2>5. /\ map \in [FieldNames -> Seq(V)] /\ HasItems(map, items, n-1)
        /\ header.name = items[n].name /\ header.value \in V
        /\ SameText(items[n].value, header.value)
    BY <2>3, <2>4
  <2>6. Good(n) <=> /\ Appended(map, header) \in [FieldNames -> Seq(V)]
                    /\ HasItems(Appended(map, header), items, n)
    BY <2>2
  <2> HIDE DEF map, header, Good
  <2>7. /\ Appended(map, header) \in [FieldNames -> Seq(V)]
        /\ HasItems(Appended(map, header), items, n)
    BY <2>1, <2>5, AppendedKeeps
  <2>8. QED
    BY <2>6, <2>7
<1>8. Bad = {}
  <2>1. SUFFICES ASSUME Bad # {} PROVE FALSE
    OBVIOUS
  <2>2. Bad \subseteq Nat
    OBVIOUS
  <2>3. PICK n \in Bad : \A k \in Bad : n <= k
    <3> HIDE DEF Bad
    <3>1. QED
      BY <2>1, <2>2, LeastElement
  <2>4. n \in 0..L /\ ~Good(n)
    OBVIOUS
  <2> HIDE DEF Good
  <2>5. n \in 1..L
    BY <1>1, <1>6, <2>4
  <2>6. n - 1 \in 0..L /\ n - 1 \notin Bad
    BY <1>1, <2>3, <2>5
  <2>7. QED
    BY <1>7, <2>4, <2>5, <2>6
<1>9. Good(L)
  <2> HIDE DEF Good
  <2>1. QED
    BY <1>1, <1>8
<1>10. QED
  BY <1>5, <1>9 DEF headers, L

\* Only a dictionary that starts the response becomes a message that does, with
\* its status and, out of a list, its headers.
LEMMA StartIsOfDictionary ==
  ASSUME NEW d \in Dictionaries, HttpSendMessage(d).type = "start"
  PROVE  /\ HttpSendMessage(d).status = d.status
         /\ d.headers = "list" =>
               HttpSendMessage(d).headers = StartHeaders(d.items)
<1>1. d.type = "http.response.start"
  <2>1. CASE d.type = "http.response.body"
    <3>1. HttpSendMessage(d) = BodyMessage(d)
      BY <2>1 DEF HttpSendMessage
    <3>2. BodyMessage(d).type # "start"
      BY DEF BodyMessage, Raised
    <3>3. QED
      BY <3>1, <3>2
  <2>2. CASE d.type \notin {"http.response.start", "http.response.body"}
    <3>1. HttpSendMessage(d) = Raised
      BY <2>2 DEF HttpSendMessage
    <3>2. QED
      BY <3>1 DEF Raised
  <2>3. QED
    BY <2>1, <2>2
<1>2. HttpSendMessage(d) = StartMessage(d)
  BY <1>1 DEF HttpSendMessage
<1>3. StartMessage(d).type = "start"
  BY <1>2
<1> DEFINE built == [type |-> "start", status |-> d.status,
                     headers |-> IF d.headers = "list" THEN StartHeaders(d.items)
                                 ELSE <<>>]
           refused == \/ d.status \notin 0..65535
                      \/ d.headers = "missing"
                      \/ /\ d.headers = "list"
                         /\ \E i \in 1..Len(d.items) : StartItemRaises(d.items[i])
<1>4. StartMessage(d) = IF refused THEN Raised ELSE built
  BY DEF StartMessage
<1>5. StartMessage(d) = built
  <2> HIDE DEF refused, built
  <2>1. QED
    BY <1>3, <1>4 DEF Raised
<1>6. QED
  BY <1>2, <1>5

-----------------------------------------------------------------------------
(* The invariant: each value is what the conversion makes of the one before. *)

\* The scope is that of the request.
ScopeInv ==
    /\ request \in Requests
    /\ scope # NoScope => scope.headers = ScopeHeaders(request.headers)

\* The message is that of the dictionary.
MessageInv ==
    message # NoMessage =>
        /\ dictionary \in Dictionaries
        /\ request.kind = "http" => message = HttpSendMessage(dictionary)

\* The head of the response is that of the message.
AnswerInv ==
    answer.outcome = "response" /\ request.kind = "http" =>
        /\ message.type = "start"
        /\ Builds(message.status, message.headers)
        /\ answer = Response(message.status, HeaderMap(message.headers))

ConversionsInv == ScopeInv /\ MessageInv /\ AnswerInv

LEMMA InitInv == Init => ConversionsInv
  BY DEF Init, ConversionsInv, ScopeInv, MessageInv, AnswerInv

LEMMA NextInv == ConversionsInv /\ [Next]_vars => ConversionsInv'
<1> SUFFICES ASSUME ConversionsInv, [Next]_vars PROVE ConversionsInv'
  OBVIOUS
<1> USE DEF ConversionsInv
<1>1. CASE CallApplication
  <2>1. ScopeInv'
    BY <1>1 DEF CallApplication, ScopeInv, HttpConnectionScope,
                WebSocketConnectionScope
  <2>2. MessageInv'
    BY <1>1 DEF CallApplication, MessageInv
  <2>3. AnswerInv'
    BY <1>1 DEF CallApplication, AnswerInv, Error
  <2>4. QED
    BY <2>1, <2>2, <2>3
<1>2. ASSUME NEW d \in Dictionaries, Send(d) PROVE ConversionsInv'
  <2>1. ScopeInv'
    BY <1>2 DEF Send, ScopeInv
  <2>2. MessageInv'
    BY <1>2 DEF Send, MessageInv
  <2>3. AnswerInv'
    BY <1>2 DEF Send, AnswerInv, NoMessage
  <2>4. QED
    BY <2>1, <2>2, <2>3
<1>3. CASE AnswerHttp
  <2>1. ScopeInv'
    BY <1>3 DEF AnswerHttp, ScopeInv
  <2>2. MessageInv'
    BY <1>3 DEF AnswerHttp, MessageInv
  <2>3. AnswerInv'
    BY <1>3 DEF AnswerHttp, AnswerInv, Error
  <2>4. QED
    BY <2>1, <2>2, <2>3
<1>4. CASE AnswerWebSocket
  <2>1. ScopeInv'
    BY <1>4 DEF AnswerWebSocket, ScopeInv
  <2>2. MessageInv'
    BY <1>4 DEF AnswerWebSocket, MessageInv
  <2>3. AnswerInv'
    BY <1>4 DEF AnswerWebSocket, AnswerInv
  <2>4. QED
    BY <2>1, <2>2, <2>3
<1>5. CASE UNCHANGED vars
  BY <1>5 DEF vars, ScopeInv, MessageInv, AnswerInv
<1>6. QED
  BY <1>1, <1>2, <1>3, <1>4, <1>5 DEF Next

LEMMA InvariantHolds == Spec => []ConversionsInv
<1>1. QED
  BY InitInv, NextInv, PTL DEF Spec

\* The application sees every header of the request in order: the scope's
\* header list is built entry by entry from the request's.
THEOREM HeadersReachTheScope == Spec => []ScopeKeepsHeaders
<1>1. ConversionsInv => ScopeKeepsHeaders
  <2> SUFFICES ASSUME ConversionsInv, scope # NoScope
               PROVE  /\ Len(scope.headers) = Len(request.headers)
                      /\ \A i \in 1..Len(request.headers) :
                            /\ scope.headers[i].name = request.headers[i].name
                            /\ request.headers[i].value \in Plain =>
                                  scope.headers[i].value = request.headers[i].value
                            /\ request.headers[i].value \notin Plain =>
                                  scope.headers[i].value = ""
    BY Zenon DEF ScopeKeepsHeaders
  <2> DEFINE given == request.headers
             seen  == scope.headers
  <2>1. given \in Seq(RequestHeaders)
    BY RequestsHaveHeaders DEF ConversionsInv, ScopeInv
  <2>2. seen = [i \in 1..Len(given) |->
                   Header(given[i].name, ToStr(given[i].value))]
    BY DEF ConversionsInv, ScopeInv, ScopeHeaders
  <2> HIDE DEF given, seen
  <2>3. Len(given) \in Nat
    BY <2>1
  <2>4. Len(seen) = Len(given)
    BY <2>2, <2>3
  <2>5. \A i \in 1..Len(given) :
           /\ seen[i].name = given[i].name
           /\ given[i].value \in Plain => seen[i].value = given[i].value
           /\ given[i].value \notin Plain => seen[i].value = ""
    BY <2>2 DEF Header, ToStr
  <2>6. QED
    BY <2>4, <2>5 DEF given, seen
<1>2. QED
  BY InvariantHolds, <1>1, PTL

\* The head that handle() returns is the one the application gave: its status,
\* within what the builder takes, and all of its headers when they are a list
\* of pairs, with the values of one name in their order.
THEOREM HeadIsTheApplications == Spec => []HeadIsAsGiven
<1>1. ConversionsInv => HeadIsAsGiven
  <2> SUFFICES ASSUME ConversionsInv,
                      answer.outcome = "response", request.kind = "http"
               PROVE  /\ answer.status = dictionary.status
                      /\ answer.status \in 100..999
                      /\ /\ dictionary.headers = "list"
                         /\ \A i \in 1..Len(dictionary.items) :
                               IsPair(dictionary.items[i])
                         => HasItems(answer.headers, dictionary.items,
                                     Len(dictionary.items))
    BY DEF HeadIsAsGiven
  <2>1. /\ message.type = "start"
        /\ answer.status = message.status
        /\ answer.headers = HeaderMap(message.headers)
        /\ message.status \in 100..999
    <3>1. /\ message.type = "start"
          /\ Builds(message.status, message.headers)
          /\ answer = Response(message.status, HeaderMap(message.headers))
      BY DEF ConversionsInv, AnswerInv
    <3>2. message.status \in 100..999
      BY <3>1 DEF Builds
    <3>3. QED
      BY <3>1, <3>2 DEF Response
  <2>2. dictionary \in Dictionaries /\ message = HttpSendMessage(dictionary)
    BY <2>1 DEF ConversionsInv, MessageInv, NoMessage
  <2>3. /\ message.status = dictionary.status
        /\ dictionary.headers = "list" =>
              message.headers = StartHeaders(dictionary.items)
    BY <2>1, <2>2, StartIsOfDictionary
  <2>4. PICK S : dictionary.items \in Seq(S)
    BY <2>2, DictionariesHaveItems
  <2>5. ASSUME dictionary.headers = "list",
               \A i \in 1..Len(dictionary.items) : IsPair(dictionary.items[i])
        PROVE  HasItems(answer.headers, dictionary.items, Len(dictionary.items))
    <3>1. answer.headers = HeaderMap(StartHeaders(dictionary.items))
      BY <2>1, <2>3, <2>5
    <3>2. QED
      BY <2>4, <2>5, <3>1, MapHasItems
  <2>6. QED
    BY <2>1, <2>3, <2>5
<1>2. QED
  BY InvariantHolds, <1>1, PTL
=============================================================================
