--------------------------- MODULE EventRingProofs ---------------------------
(***************************************************************************)
(* EventQueue is a queue, for rings of any size, and what sequences of a   *)
(* few bytes are made of.                                                  *)
(***************************************************************************)
EXTENDS EventRing, SequenceTheorems, TLAPS

(***************************************************************************)
(* The rings                                                               *)
(***************************************************************************)
\* A ring of n slots whose events are in E.
IsRing(r, n, E) ==
    r \in [buf : [0..(n - 1) -> E \cup {None}], head : 0..(n - 1), tail : 0..(n - 1), size : {n}]

\* The slot k places after slot i, and how many places j is after i.
After(i, k, n) == IF i + k < n THEN i + k ELSE i + k - n
Places(j, i, n) == IF j >= i THEN j - i ELSE j + n - i

\* How far head is ahead of tail.
Ahead(r) == Places(r.head, r.tail, r.size)

\* Walking from one slot as far as another is away arrives at it.
LEMMA AfterPlaces ==
    ASSUME NEW n \in Nat, NEW i \in 0..(n - 1), NEW j \in 0..(n - 1)
    PROVE  After(i, Places(j, i, n), n) = j
  BY DEF After, Places

\* One slot further on is one place more, until it is where one began.
LEMMA PlacesNext ==
    ASSUME NEW n \in Nat, NEW i \in 0..(n - 1), NEW j \in 0..(n - 1)
    PROVE  IF After(j, 1, n) = i THEN Places(j, i, n) = n - 1
           ELSE Places(After(j, 1, n), i, n) = Places(j, i, n) + 1
  BY DEF After, Places

\* Having gone k places, there are k fewer left to go.
LEMMA PlacesLeft ==
    ASSUME NEW n \in Nat, NEW i \in 0..(n - 1), NEW j \in 0..(n - 1), NEW k \in 0..Places(j, i, n)
    PROVE  Places(j, After(i, k, n), n) = Places(j, i, n) - k
  BY DEF After, Places

\* k places after a slot is a slot, and it is k places away.
LEMMA AfterSlot ==
    ASSUME NEW n \in Nat, NEW i \in 0..(n - 1), NEW k \in 0..(n - 1)
    PROVE  After(i, k, n) \in 0..(n - 1) /\ Places(After(i, k, n), i, n) = k
  BY DEF After, Places

\* Two walks are one.
LEMMA AfterAfter ==
    ASSUME NEW n \in Nat, NEW i \in 0..(n - 1), NEW k \in Nat, NEW m \in Nat, k + m < n
    PROVE  After(After(i, k, n), m, n) = After(i, k + m, n)
  BY DEF After

\* Indices wrap once.
LEMMA Wrap ==
    ASSUME NEW n \in Nat, NEW x \in Nat, x < n + n
    PROVE  x % n = IF x < n THEN x ELSE x - n
<1>1. CASE x < n
  BY <1>1, SMT
<1>2. CASE x >= n
  BY <1>2, SMT
<1> QED
  BY <1>1, <1>2

\* Held, without remainders.
LEMMA HeldIs ==
    ASSUME NEW n \in Nat \ {0}, NEW E, NEW r, IsRing(r, n, E)
    PROVE  /\ Ahead(r) \in 0..(n - 1)
           /\ Held(r) = [i \in 1..Ahead(r) |-> r.buf[After(r.tail, i - 1, n)]]
           /\ \A i \in 1..Ahead(r) : After(r.tail, i - 1, n) \in 0..(n - 1)
<1> USE DEF IsRing
<1>0. n \in Nat /\ n # 0 /\ r.size = n /\ r.head \in 0..(n - 1) /\ r.tail \in 0..(n - 1)
  OBVIOUS
<1> HIDE DEF IsRing
<1>1. (r.head + r.size - r.tail) % r.size = Ahead(r) /\ Ahead(r) \in 0..(n - 1)
  <2>1. PICK x \in Nat : x = r.head + n - r.tail /\ x < n + n
    BY <1>0
  <2>2. x % n = IF x < n THEN x ELSE x - n
    BY <1>0, <2>1, Wrap
  <2> QED
    BY <1>0, <2>1, <2>2 DEF Ahead, Places
<1>2. ASSUME NEW i \in 1..Ahead(r)
      PROVE  /\ (r.tail + i - 1) % r.size = After(r.tail, i - 1, n)
             /\ After(r.tail, i - 1, n) \in 0..(n - 1)
  <2>1. PICK x \in Nat : x = r.tail + i - 1 /\ x < n + n
    BY <1>0, <1>1
  <2>2. x % n = IF x < n THEN x ELSE x - n
    BY <1>0, <2>1, Wrap
  <2> QED
    BY <1>0, <1>1, <2>1, <2>2 DEF After
<1> QED
  BY <1>1, <1>2 DEF Held

\* The second fact on its own.
LEMMA HeldFun ==
    ASSUME NEW n \in Nat \ {0}, NEW E, NEW r, IsRing(r, n, E)
    PROVE  Held(r) = [i \in 1..Ahead(r) |-> r.buf[After(r.tail, i - 1, n)]]
  BY HeldIs, ZenonT(60)

\* What a ring holds is a sequence of events, empty if head meets tail, and
\* the oldest is at tail (EventQueue::pop).
LEMMA HeldSeq ==
    ASSUME NEW n \in Nat \ {0}, NEW E, NEW r, IsRing(r, n, E)
    PROVE  /\ Held(r) \in Seq(E \cup {None})
           /\ Len(Held(r)) = Ahead(r)
           /\ IsEmpty(r) <=> Held(r) = <<>>
           /\ ~IsEmpty(r) => Front1(r) = Head(Held(r))
<1>0. n \in Nat /\ n # 0 /\ r.size = n /\ r.head \in 0..(n - 1) /\ r.tail \in 0..(n - 1)
      /\ r.buf \in [0..(n - 1) -> E \cup {None}]
  BY DEF IsRing
<1>1. /\ Ahead(r) \in 0..(n - 1)
      /\ Held(r) = [i \in 1..Ahead(r) |-> r.buf[After(r.tail, i - 1, n)]]
      /\ \A i \in 1..Ahead(r) : After(r.tail, i - 1, n) \in 0..(n - 1)
  BY HeldIs
<1>2. Held(r) \in Seq(E \cup {None}) /\ Len(Held(r)) = Ahead(r)
  BY <1>0, <1>1
<1>3. IsEmpty(r) <=> Ahead(r) = 0
  BY <1>0 DEF IsEmpty, Ahead, Places
<1>4. ASSUME Ahead(r) # 0 PROVE Front1(r) = Held(r)[1]
  <2>1. After(r.tail, 0, n) = r.tail
    BY <1>0 DEF After
  <2>2. 1 \in 1..Ahead(r) /\ 1 - 1 = 0
    BY <1>1, <1>4
  <2> QED
    BY <1>1, <2>1, <2>2 DEF Front1
<1> QED
  BY <1>1, <1>2, <1>3, <1>4

\* EventQueue::push appends, unless that would fill the last slot.
LEMMA PushHeld ==
    ASSUME NEW n \in Nat \ {0}, NEW E, NEW r, IsRing(r, n, E), NEW e \in E, e # None
    PROVE  IsRing(Push(r, e), n, E) /\ Held(Push(r, e)) = Queued(Held(r), e, n)
<1>0. n \in Nat /\ n # 0 /\ r.size = n /\ r.head \in 0..(n - 1) /\ r.tail \in 0..(n - 1)
      /\ r.buf \in [0..(n - 1) -> E \cup {None}]
  BY DEF IsRing
<1> DEFINE next == After(r.head, 1, n)
<1>1. (r.head + 1) % r.size = next /\ next \in 0..(n - 1)
  <2>1. PICK x \in Nat : x = r.head + 1 /\ x < n + n
    BY <1>0
  <2>2. x % n = IF x < n THEN x ELSE x - n
    BY <1>0, <2>1, Wrap, Zenon
  <2> QED
    BY <1>0, <2>1, <2>2 DEF After
<1>2. /\ Ahead(r) \in 0..(n - 1)
      /\ Held(r) = [i \in 1..Ahead(r) |-> r.buf[After(r.tail, i - 1, n)]]
      /\ \A i \in 1..Ahead(r) : After(r.tail, i - 1, n) \in 0..(n - 1)
  BY HeldIs
<1>3. Held(r) \in Seq(E \cup {None}) /\ Len(Held(r)) = Ahead(r)
  BY HeldSeq, Zenon
<1>4. CASE next = r.tail
  <2>1. Push(r, e) = r
    BY <1>1, <1>4 DEF Push
  <2>2. Ahead(r) = n - 1
    BY <1>0, <1>4, PlacesNext DEF Ahead
  <2> QED
    BY <1>0, <1>3, <2>1, <2>2 DEF Queued
<1>5. CASE next # r.tail
  <2>0. PICK r2 : r2 = [r EXCEPT !.buf[r.head] = e, !.head = next]
    OBVIOUS
  <2>1. Push(r, e) = r2
    BY <1>1, <1>5, <2>0, Zenon DEF Push
  <2>2. /\ IsRing(r2, n, E) /\ r2.head = next /\ r2.tail = r.tail /\ r2.size = n
        /\ r2.buf = [r.buf EXCEPT ![r.head] = e]
    BY <1>0, <1>1, <2>0, Zenon DEF IsRing
  <2>3. Ahead(r2) = Ahead(r) + 1
    BY <1>0, <1>5, <2>2, PlacesNext DEF Ahead
  <2>4. Held(r2) = [i \in 1..(Ahead(r) + 1) |-> r2.buf[After(r.tail, i - 1, n)]]
    <3>1. Held(r2) = [i \in 1..Ahead(r2) |-> r2.buf[After(r2.tail, i - 1, n)]]
      <4>1. IsRing(r2, n, E)
        BY <2>2
      <4> QED
        BY <4>1, HeldIs
    <3> QED
      BY <2>2, <2>3, <3>1, Zenon
  <2>5. ASSUME NEW i \in 1..Ahead(r) PROVE r2.buf[After(r.tail, i - 1, n)] = Held(r)[i]
    <3>1. After(r.tail, i - 1, n) # r.head
      BY <1>0, <1>2 DEF Ahead, After, Places
    <3> QED
      BY <1>0, <1>2, <2>2, <3>1
  <2>6. r2.buf[After(r.tail, Ahead(r) + 1 - 1, n)] = e
    <3>1. After(r.tail, Ahead(r) + 1 - 1, n) = r.head
      <4>1. Ahead(r) + 1 - 1 = Places(r.head, r.tail, n)
        BY <1>0, <1>2 DEF Ahead
      <4> QED
        BY <1>0, <4>1, AfterPlaces
    <3> QED
      BY <1>0, <2>2, <3>1
  <2>7. Append(Held(r), e) = [i \in 1..(Ahead(r) + 1) |-> IF i = Ahead(r) + 1 THEN e ELSE Held(r)[i]]
    BY <1>2, <1>3
  <2>8. Held(r2) = Append(Held(r), e)
    <3> SUFFICES ASSUME NEW i \in 1..(Ahead(r) + 1)
                 PROVE  r2.buf[After(r.tail, i - 1, n)] = IF i = Ahead(r) + 1 THEN e ELSE Held(r)[i]
      BY <2>4, <2>7
    <3> QED
      BY <1>2, <2>5, <2>6
  <2>9. Ahead(r) < n - 1
    <3>1. Ahead(r2) \in 0..(n - 1)
      BY <2>2, HeldIs
    <3> QED
      BY <1>0, <1>2, <2>3, <3>1
  <2> QED
    BY <1>3, <2>1, <2>2, <2>8, <2>9 DEF Queued
<1> QED
  BY <1>4, <1>5

\* EventQueue::pop, k times, takes the k oldest.
LEMMA PoppedHeld ==
    ASSUME NEW n \in Nat \ {0}, NEW E, NEW r, IsRing(r, n, E), NEW k \in 0..Len(Held(r))
    PROVE  IsRing(Popped(r, k), n, E) /\ Held(Popped(r, k)) = SubSeq(Held(r), k + 1, Len(Held(r)))
<1>0. n \in Nat /\ n # 0 /\ r.size = n /\ r.head \in 0..(n - 1) /\ r.tail \in 0..(n - 1)
      /\ r.buf \in [0..(n - 1) -> E \cup {None}]
  BY DEF IsRing
<1>1. /\ Ahead(r) \in 0..(n - 1)
      /\ Held(r) = [i \in 1..Ahead(r) |-> r.buf[After(r.tail, i - 1, n)]]
      /\ \A i \in 1..Ahead(r) : After(r.tail, i - 1, n) \in 0..(n - 1)
  BY HeldIs
<1>2. Held(r) \in Seq(E \cup {None}) /\ Len(Held(r)) = Ahead(r)
  BY HeldSeq, Zenon
<1>3. (r.tail + k) % r.size = After(r.tail, k, n) /\ After(r.tail, k, n) \in 0..(n - 1)
  <2>0. k \in 0..(n - 1)
    BY <1>0, <1>1, <1>2
  <2>1. PICK x \in Nat : x = r.tail + k /\ x < n + n
    BY <1>0, <1>1, <1>2
  <2>2. x % n = IF x < n THEN x ELSE x - n
    BY <1>0, <2>1, Wrap, Zenon
  <2> QED
    BY <1>0, <2>0, <2>1, <2>2, SMTT(30) DEF After
<1> DEFINE r2 == Popped(r, k)
           buf2 == [i \in 0..(n - 1) |-> IF (i + n - r.tail) % n < k THEN None ELSE r.buf[i]]
<1>4. /\ IsRing(r2, n, E) /\ r2.head = r.head /\ r2.tail = After(r.tail, k, n) /\ r2.size = n
      /\ r2.buf = buf2
  BY <1>0, <1>3, Zenon DEF IsRing, Popped
<1>5. Ahead(r2) = Ahead(r) - k
  <2> HIDE DEF r2
  <2>1. k \in 0..Places(r.head, r.tail, n)
    BY <1>0, <1>2 DEF Ahead
  <2> QED
    BY <1>0, <1>4, <2>1, PlacesLeft DEF Ahead
<1>6. Held(r2) = [i \in 1..(Ahead(r) - k) |-> buf2[After(After(r.tail, k, n), i - 1, n)]]
  <2> HIDE DEF r2, buf2
  <2>1. Held(r2) = [i \in 1..Ahead(r2) |-> r2.buf[After(r2.tail, i - 1, n)]]
    <3>1. IsRing(r2, n, E)
      BY <1>4
    <3> QED
      BY <3>1, HeldFun, Zenon
  <2> QED
    BY <1>4, <1>5, <2>1, Zenon
<1>7. ASSUME NEW i \in 1..(Ahead(r) - k)
      PROVE  buf2[After(After(r.tail, k, n), i - 1, n)] = Held(r)[i + k]
  <2>1. PICK j \in 0..(n - 1) : j = After(r.tail, i + k - 1, n)
    <3>1. i + k - 1 \in 0..(n - 1)
      BY <1>0, <1>1, <1>2
    <3> QED
      BY <1>0, <3>1, AfterSlot
  <2>2. After(After(r.tail, k, n), i - 1, n) = j
    <3>1. k \in 0..(n - 1) /\ i - 1 \in 0..(n - 1) /\ k + (i - 1) < n /\ k + (i - 1) = i + k - 1
      BY <1>0, <1>1, <1>2
    <3> QED
      BY <1>0, <2>1, <3>1, AfterAfter
  <2>3. PICK x \in Nat : x = j + n - r.tail /\ x < n + n
    BY <1>0
  <2>4. x % n = IF x < n THEN x ELSE x - n
    BY <1>0, <2>3, Wrap, Zenon
  <2>5. ~((j + n - r.tail) % n < k)
    <3>1. (j + n - r.tail) % n = Places(j, r.tail, n)
      <4>1. (j + n - r.tail) % n = x % n
        BY <2>3, Zenon
      <4>2. (IF x < n THEN x ELSE x - n) = Places(j, r.tail, n)
        BY <1>0, <2>3 DEF Places
      <4> QED
        BY <2>4, <4>1, <4>2, Zenon
    <3>2. i + k - 1 \in 0..(n - 1)
      BY <1>0, <1>1, <1>2
    <3>3. Places(j, r.tail, n) = i + k - 1
      BY <1>0, <2>1, <3>2, AfterSlot, Zenon
    <3> QED
      BY <1>1, <1>2, <3>1, <3>3
  <2>6. buf2[j] = r.buf[j]
    BY <2>1, <2>5
  <2>7. i + k \in 1..Ahead(r)
    BY <1>1, <1>2
  <2> QED
    BY <1>1, <2>1, <2>2, <2>6, <2>7
<1>8. SubSeq(Held(r), k + 1, Len(Held(r))) = [i \in 1..(Ahead(r) - k) |-> Held(r)[i + k]]
  BY <1>1, <1>2
<1> QED
  <2> HIDE DEF r2, buf2
  <2>1. Held(r2) = SubSeq(Held(r), k + 1, Len(Held(r)))
    BY <1>6, <1>7, <1>8
  <2> QED
    BY <1>4, <2>1 DEF r2

(***************************************************************************)
(* Short sequences                                                         *)
(***************************************************************************)
\* What is left of two bytes when the first has been taken.
LEMMA Tail2 == ASSUME NEW a, NEW b PROVE Head(<<a, b>>) = a /\ Tail(<<a, b>>) = <<b>>
  OBVIOUS

\* The same of three.
LEMMA Tail3 ==
    ASSUME NEW a, NEW b, NEW c
    PROVE  Head(<<a, b, c>>) = a /\ Tail(<<a, b, c>>) = <<b, c>>
  OBVIOUS

\* The same of four.
LEMMA Tail4 ==
    ASSUME NEW a, NEW b, NEW c, NEW d
    PROVE  Head(<<a, b, c, d>>) = a /\ Tail(<<a, b, c, d>>) = <<b, c, d>>
  OBVIOUS

\* A sequence of two is its two elements.
LEMMA IsPair ==
    ASSUME NEW S, NEW s \in Seq(S), Len(s) = 2
    PROVE  s = <<s[1], s[2]>>
<1>1. PICK a, b : a = s[1] /\ b = s[2]
  OBVIOUS
<1>2. a \in S /\ b \in S
  BY <1>1
<1>3. PICK t : t = <<a, b>>
  BY Zenon
<1>4. t \in Seq(S) /\ Len(t) = 2 /\ t[1] = a /\ t[2] = b
  BY <1>2, <1>3
<1>5. s = t
  BY <1>1, <1>4, SeqEqual
<1> QED
  BY <1>1, <1>3, <1>5

\* A sequence of three is its three elements.
LEMMA IsTriple ==
    ASSUME NEW S, NEW s \in Seq(S), Len(s) = 3
    PROVE  s = <<s[1], s[2], s[3]>>
<1>1. PICK a, b, c : a = s[1] /\ b = s[2] /\ c = s[3]
  OBVIOUS
<1>2. a \in S /\ b \in S /\ c \in S
  <2>1. \A i \in 1..3 : s[i] \in S
    BY ElementOfSeq, Zenon
  <2> QED
    BY <1>1, <2>1
<1>3. PICK t : t = <<a, b, c>>
  BY Zenon
<1>4. t \in Seq(S) /\ Len(t) = 3 /\ t[1] = a /\ t[2] = b /\ t[3] = c
  BY <1>2, <1>3
<1>5. s = t
  BY <1>1, <1>4, SeqEqual
<1> QED
  BY <1>1, <1>3, <1>5

\* A sequence of four is its four elements.
LEMMA IsQuadruple ==
    ASSUME NEW S, NEW s \in Seq(S), Len(s) = 4
    PROVE  s = <<s[1], s[2], s[3], s[4]>>
<1>1. PICK a, b, c, d : a = s[1] /\ b = s[2] /\ c = s[3] /\ d = s[4]
  OBVIOUS
<1>2. a \in S /\ b \in S /\ c \in S /\ d \in S
  BY <1>1, ElementOfSeq
<1>3. PICK t : t = <<a, b, c, d>>
  BY Zenon
<1>4. t \in Seq(S) /\ Len(t) = 4 /\ t[1] = a /\ t[2] = b /\ t[3] = c /\ t[4] = d
  BY <1>2, <1>3
<1>5. s = t
  BY <1>1, <1>4, SeqEqual
<1> QED
  BY <1>1, <1>3, <1>5

\* What a concatenation of two pairs is made of.
LEMMA ConcatPairs ==
    ASSUME NEW S, NEW s \in Seq(S), NEW t \in Seq(S), Len(s) = 2, Len(t) = 2
    PROVE  /\ s \o t \in Seq(S) /\ Len(s \o t) = 4
           /\ \A i \in 1..4 : (s \o t)[i] = IF i <= 2 THEN s[i] ELSE t[i - 2]
<1>1. s \o t \in Seq(S) /\ Len(s \o t) = Len(s) + Len(t)
  BY ConcatProperties
<1>2. \A i \in 1..(Len(s) + Len(t)) : (s \o t)[i] = IF i <= Len(s) THEN s[i] ELSE t[i - Len(s)]
  BY ConcatProperties, Zenon
<1>3. 1..(Len(s) + Len(t)) = 1..4
  OBVIOUS
<1> QED
  BY <1>1, <1>2, <1>3

\* What a sequence is made of when an element has been added.
LEMMA AppendLen ==
    ASSUME NEW S, NEW s \in Seq(S), NEW e \in S, NEW n \in Nat, Len(s) = n
    PROVE  /\ Append(s, e) \in Seq(S) /\ Len(Append(s, e)) = n + 1
           /\ Append(s, e)[n + 1] = e /\ \A i \in 1..n : Append(s, e)[i] = s[i]
<1>1. Append(s, e) \in Seq(S) /\ Len(Append(s, e)) = n + 1
  BY AppendProperties
<1>2. Append(s, e)[n + 1] = e
  BY AppendProperties
<1>3. \A i \in 1..n : Append(s, e)[i] = s[i]
  BY AppendProperties
<1> QED
  BY <1>1, <1>2, <1>3

\* The bytes of a key going down, followed by those of it coming up.
LEMMA Join == ASSUME NEW a, NEW b PROVE <<a>> \o <<b>> = <<a, b>>
<1>1. PICK s, t : s = <<a>> /\ t = <<b>>
  BY Zenon
<1>2. s \in Seq({a, b}) /\ t \in Seq({a, b}) /\ Len(s) = 1 /\ Len(t) = 1 /\ s[1] = a /\ t[1] = b
  BY <1>1
<1>3. PICK r : r = s \o t
  BY Zenon
<1>4. r \in Seq({a, b}) /\ Len(r) = 2 /\ r[1] = a /\ r[2] = b
  BY <1>2, <1>3, ConcatProperties
<1>5. r = <<a, b>>
  BY <1>4, IsPair
<1> QED
  BY <1>1, <1>3, <1>5, Zenon

\* The same of a key with a prefix.
LEMMA JoinPrefixed ==
    ASSUME NEW a, NEW b, NEW c PROVE <<c, a>> \o <<c, b>> = <<c, a, c, b>>
<1>1. PICK s, t : s = <<c, a>> /\ t = <<c, b>>
  BY Zenon
<1>2. /\ s \in Seq({a, b, c}) /\ Len(s) = 2 /\ s[1] = c /\ s[2] = a
      /\ t \in Seq({a, b, c}) /\ Len(t) = 2 /\ t[1] = c /\ t[2] = b
  BY <1>1
<1>3. PICK r : r = s \o t
  BY Zenon
<1>4. PICK S : S = {a, b, c}
  BY Zenon
<1>5. s \in Seq(S) /\ t \in Seq(S) /\ Len(s) = 2 /\ Len(t) = 2
  BY <1>2, <1>4
<1>6. r \in Seq(S) /\ Len(r) = 4 /\ r[1] = c /\ r[2] = a /\ r[3] = c /\ r[4] = b
  <2>1. /\ s \o t \in Seq(S) /\ Len(s \o t) = 4
        /\ \A i \in 1..4 : (s \o t)[i] = IF i <= 2 THEN s[i] ELSE t[i - 2]
    BY <1>5, ConcatPairs
  <2> QED
    BY <1>2, <1>3, <2>1
<1>7. r = <<c, a, c, b>>
  BY <1>6, IsQuadruple
<1> QED
  BY <1>1, <1>3, <1>7, Zenon

\* The first byte of a packet.
LEMMA Packet1 ==
    ASSUME NEW S, NEW a \in S
    PROVE  <<a>> \in Seq(S) /\ Append(<<>>, a) = <<a>> /\ Len(<<a>>) = 1
  OBVIOUS

\* Its second byte.
LEMMA Packet2 ==
    ASSUME NEW S, NEW a \in S, NEW b \in S
    PROVE  <<a, b>> \in Seq(S) /\ Append(<<a>>, b) = <<a, b>> /\ Len(<<a, b>>) = 2
<1>1. PICK s : s = <<a>>
  BY Zenon
<1>2. s \in Seq(S) /\ Len(s) = 1 /\ s[1] = a
  BY <1>1
<1>3. PICK r : r = Append(s, b)
  BY Zenon
<1>4. r \in Seq(S) /\ Len(r) = 2 /\ r[1] = a /\ r[2] = b
  BY <1>2, <1>3, AppendProperties
<1>5. r = <<a, b>>
  BY <1>4, IsPair
<1> QED
  BY <1>1, <1>3, <1>4, <1>5, Zenon

\* Its third byte.
LEMMA Packet3 ==
    ASSUME NEW S, NEW a \in S, NEW b \in S, NEW c \in S
    PROVE  /\ Append(<<a, b>>, c) = <<a, b, c>>
           /\ Len(<<a, b, c>>) = 3 /\ <<a, b, c>>[1] = a
<1>1. PICK s : s = <<a, b>>
  BY Zenon
<1>2. s \in Seq(S) /\ Len(s) = 2 /\ s[1] = a /\ s[2] = b
  BY <1>1
<1>3. PICK r : r = Append(s, c)
  BY Zenon
<1>4. r \in Seq(S) /\ Len(r) = 3 /\ r[1] = a /\ r[2] = b /\ r[3] = c
  <2>1. /\ Append(s, c) \in Seq(S) /\ Len(Append(s, c)) = 2 + 1
        /\ Append(s, c)[2 + 1] = c /\ \A i \in 1..2 : Append(s, c)[i] = s[i]
    BY <1>2, AppendLen
  <2> QED
    BY <1>2, <1>3, <2>1
<1>5. r = <<a, b, c>>
  BY <1>4, IsTriple
<1> QED
  BY <1>1, <1>3, <1>4, <1>5, Zenon

\* The rest of a sequence is what is left without its first element.
LEMMA TailSub ==
    ASSUME NEW E, NEW s \in Seq(E), s # <<>>
    PROVE  Tail(s) = SubSeq(s, 1 + 1, Len(s)) /\ 1 \in 0..Len(s)
<1>1. Tail(s) = SubSeq(s, 2, Len(s))
  BY TailIsSubSeq
<1>2. 1 \in 0..Len(s)
  BY EmptySeq
<1> QED
  BY <1>1, <1>2
==============================================================================
