--------------------- MODULE WorkflowInformerFifoProofs ---------------------
(***************************************************************************)
(* WorkflowInformer with one worker and no full reconcile implements       *)
(* KeyedFifo, but for liveness: its first states are first states of       *)
(* KeyedFifo, and each of its steps is one of KeyedFifo or a stutter.      *)
(***************************************************************************)
EXTENDS WorkflowInformerFifo, WorkflowInformerProofs, WellFoundedInduction

-----------------------------------------------------------------------------
(* Induction, with a set for the property.                                 *)

LEMMA Induction ==
  ASSUME NEW S \in SUBSET Nat, 0 \in S, \A n \in S : n + 1 \in S
  PROVE  S = Nat
<1>1. SUFFICES ASSUME Nat \ S # {} PROVE FALSE
  OBVIOUS
<1>2. PICK x \in Nat \ S : \A y \in Nat \ S : ~ (<<y, x>> \in OpToRel(<, Nat))
  BY <1>1, NatLessThanWellFounded, WFMin, Zenon
<1>3. x # 0 /\ x \in Nat
  OBVIOUS
<1>4. x - 1 \in Nat /\ x - 1 < x
  BY <1>3
<1>5. x - 1 \notin Nat \ S
  BY <1>2, <1>4 DEF OpToRel
<1>6. (x - 1) + 1 \in S
  BY <1>4, <1>5
<1>7. QED  BY <1>3, <1>6

-----------------------------------------------------------------------------
(* The values that a sequence of events says.                              *)

\* The recursion of SaidOf, up to n events.
Step(k, events, f, n) ==
  IF n = 0 THEN <<>>
  ELSE IF events[n].key = k THEN Append(f[n - 1], ValueOf(events[n]))
  ELSE f[n - 1]

LEMMA SaidIsDefined ==
  ASSUME NEW k, NEW events \in Seq(Event)
  PROVE  SaidOf(k, events) = [n \in 0..Len(events) |-> Step(k, events, SaidOf(k, events), n)]
<1> DEFINE S == {n \in Nat : \E f : f = [i \in 0..n |-> Step(k, events, f, i)]}
<1>1. 0 \in S
  <2> DEFINE f == [i \in 0..0 |-> <<>>]
  <2>1. f = [i \in 0..0 |-> Step(k, events, f, i)]
    BY DEF Step
  <2>2. QED  BY <2>1
<1>2. ASSUME NEW n \in S PROVE n + 1 \in S
  <2>1. PICK f : f = [i \in 0..n |-> Step(k, events, f, i)]
    OBVIOUS
  <2> DEFINE g == [i \in 0..(n + 1) |-> IF i <= n THEN f[i] ELSE Step(k, events, f, i)]
  <2>2. \A i \in 0..(n + 1) : g[i] = Step(k, events, g, i)
    <3> TAKE i \in 0..(n + 1)
    <3>1. CASE i = 0
      BY <2>1, <3>1 DEF Step
    <3>2. CASE i # 0
      <4>1. i - 1 \in 0..n /\ i - 1 \in 0..(n + 1) /\ i - 1 <= n
        BY <3>2
      <4>2. g[i - 1] = f[i - 1]
        BY <4>1
      <4>3. g[i] = Step(k, events, f, i)
        BY <2>1
      <4> HIDE DEF g
      <4>4. QED  BY <4>2, <4>3 DEF Step
    <3>3. QED  BY <3>1, <3>2
  <2>3. g = [i \in 0..(n + 1) |-> Step(k, events, g, i)]
    BY <2>2
  <2> HIDE DEF g
  <2>4. QED  BY <2>3
<1>3. S = Nat
  BY <1>1, <1>2, Induction
<1> HIDE DEF S
<1>4. Len(events) \in S
  BY <1>3
<1>5. \E f : f = [n \in 0..Len(events) |-> Step(k, events, f, n)]
  BY <1>4 DEF S
<1>6. SaidOf(k, events) = CHOOSE f : f = [n \in 0..Len(events) |-> Step(k, events, f, n)]
  BY DEF SaidOf, Step
<1>7. QED  BY <1>5, <1>6

LEMMA ValueOfEvent == \A e \in Event : ValueOf(e) \in Value
  BY DEF ValueOf, Event, Value

Says(k, events, said) ==
  /\ said[0] = <<>>
  /\ \A n \in 1..Len(events) :
       said[n] = IF events[n].key = k THEN Append(said[n - 1], ValueOf(events[n])) ELSE said[n - 1]
  /\ \A n \in 0..Len(events) : said[n] \in Seq(Value)

LEMMA SaidByStep ==
  ASSUME NEW k, NEW events \in Seq(Event)
  PROVE  Says(k, events, SaidOf(k, events))
<1>0. PICK said : said = SaidOf(k, events)
  OBVIOUS
<1> DEFINE S == {n \in Nat : n <= Len(events) => said[n] \in Seq(Value)}
<1>1. Len(events) \in Nat
  OBVIOUS
<1>2. said = [n \in 0..Len(events) |-> Step(k, events, said, n)]
  BY <1>0, SaidIsDefined
<1>3. said[0] = <<>>
  BY <1>1, <1>2 DEF Step
<1>4. \A n \in 1..Len(events) :
        said[n] = IF events[n].key = k THEN Append(said[n - 1], ValueOf(events[n])) ELSE said[n - 1]
  <2> TAKE n \in 1..Len(events)
  <2>1. n \in 0..Len(events) /\ n # 0
    BY <1>1
  <2>2. said[n] = Step(k, events, said, n)
    BY <1>2, <2>1
  <2>3. QED  BY <2>1, <2>2 DEF Step
<1>5. 0 \in S
  BY <1>3, EmptySeq
<1>6. ASSUME NEW n \in S PROVE n + 1 \in S
  <2>1. SUFFICES ASSUME n + 1 <= Len(events) PROVE said[n + 1] \in Seq(Value)
    OBVIOUS
  <2>2. n \in Nat /\ n + 1 \in 1..Len(events) /\ (n + 1) - 1 = n /\ said[n] \in Seq(Value)
    BY <1>1, <2>1
  <2>3. ValueOf(events[n + 1]) \in Value
    <3>1. events[n + 1] \in Event
      BY <2>2
    <3>2. QED  BY <3>1, ValueOfEvent
  <2>4. said[n + 1] = IF events[n + 1].key = k THEN Append(said[n], ValueOf(events[n + 1])) ELSE said[n]
    BY <1>4, <2>2
  <2>5. QED  BY <2>2, <2>3, <2>4
<1>7. S = Nat
  BY <1>5, <1>6, Induction
<1>8. \A n \in 0..Len(events) : said[n] \in Seq(Value)
  BY <1>1, <1>7
<1>9. QED  BY <1>0, <1>3, <1>4, <1>8 DEF Says

LEMMA ValuesOfNone == \A k : ValuesOf(k, <<>>) = <<>>
<1> SUFFICES ASSUME NEW k PROVE ValuesOf(k, <<>>) = <<>>
  OBVIOUS
<1>1. PICK s : s = <<>>
  OBVIOUS
<1>2. s \in Seq(Event) /\ Len(s) = 0
  BY <1>1, EmptySeq
<1>3. SaidOf(k, s)[0] = <<>>
  BY <1>2, SaidByStep DEF Says
<1>4. QED  BY <1>1, <1>2, <1>3 DEF ValuesOf

LEMMA ValuesOfOne ==
  ASSUME NEW k, NEW e \in Event
  PROVE  ValuesOf(k, <<e>>) = IF e.key = k THEN <<ValueOf(e)>> ELSE <<>>
<1> DEFINE s == <<e>>
<1>1. s \in Seq(Event) /\ Len(s) = 1 /\ s[1] = e
  OBVIOUS
<1> HIDE DEF s
<1>2. PICK said : said = SaidOf(k, s)
  OBVIOUS
<1>3. /\ said[0] = <<>>
      /\ \A n \in 1..Len(s) : said[n] = IF s[n].key = k THEN Append(said[n - 1], ValueOf(s[n]))
                                        ELSE said[n - 1]
  <2>1. Says(k, s, said)
    BY <1>1, <1>2, SaidByStep
  <2>2. QED  BY <2>1 DEF Says
<1>4. said[1] = IF e.key = k THEN Append(<<>>, ValueOf(e)) ELSE <<>>
  <2>1. 1 \in 1..Len(s) /\ 1 - 1 = 0
    BY <1>1
  <2>2. QED  BY <1>1, <1>3, <2>1
<1>5. Append(<<>>, ValueOf(e)) = <<ValueOf(e)>>
  OBVIOUS
<1>6. QED  BY <1>1, <1>2, <1>4, <1>5 DEF ValuesOf, s

LEMMA AppendAfter ==
  \A a, b \in Seq(Value) : \A v \in Value : Append(a \o b, v) = a \o Append(b, v)
<1> SUFFICES ASSUME NEW a \in Seq(Value), NEW b \in Seq(Value), NEW v \in Value
             PROVE  Append(a \o b, v) = a \o Append(b, v)
  OBVIOUS
<1>1. a \o b \in Seq(Value) /\ <<v>> \in Seq(Value)
  BY ConcatProperties
<1>2. Append(a \o b, v) = (a \o b) \o <<v>>
  BY <1>1, AppendIsConcat
<1>3. Append(b, v) = b \o <<v>>
  BY AppendIsConcat
<1>4. (a \o b) \o <<v>> = a \o (b \o <<v>>)
  BY <1>1, ConcatAssociative
<1>5. QED  BY <1>2, <1>3, <1>4

LEMMA ValuesOfConcat ==
  ASSUME NEW k, NEW s \in Seq(Event), NEW t \in Seq(Event)
  PROVE  /\ ValuesOf(k, s) \in Seq(Value)
         /\ ValuesOf(k, s \o t) = ValuesOf(k, s) \o ValuesOf(k, t)
<1>0. PICK u, l, first, second, both :
        /\ u = s \o t /\ l = Len(s)
        /\ first = SaidOf(k, s) /\ second = SaidOf(k, t) /\ both = SaidOf(k, u)
  OBVIOUS
<1>1. /\ u \in Seq(Event) /\ l \in Nat /\ Len(t) \in Nat /\ Len(u) = l + Len(t)
      /\ \A n \in 1..l : u[n] = s[n]
      /\ \A n \in 1..Len(t) : u[l + n] = t[n]
  BY <1>0, ConcatProperties
<1>2. /\ first[0] = <<>>
      /\ \A n \in 1..l : first[n] = IF s[n].key = k THEN Append(first[n - 1], ValueOf(s[n]))
                                    ELSE first[n - 1]
      /\ \A n \in 0..l : first[n] \in Seq(Value)
  <2>1. Says(k, s, first)
    BY <1>0, SaidByStep
  <2>2. QED  BY <1>0, <2>1 DEF Says
<1>3. /\ second[0] = <<>>
      /\ \A n \in 1..Len(t) : second[n] = IF t[n].key = k THEN Append(second[n - 1], ValueOf(t[n]))
                                          ELSE second[n - 1]
      /\ \A n \in 0..Len(t) : second[n] \in Seq(Value)
  <2>1. Says(k, t, second)
    BY <1>0, SaidByStep
  <2>2. QED  BY <2>1 DEF Says
<1>4. /\ both[0] = <<>>
      /\ \A n \in 1..Len(u) : both[n] = IF u[n].key = k THEN Append(both[n - 1], ValueOf(u[n]))
                                        ELSE both[n - 1]
  <2>1. Says(k, u, both)
    BY <1>0, <1>1, SaidByStep
  <2>2. QED  BY <2>1 DEF Says
<1>5. both[l] = first[l]
  <2> DEFINE A == {n \in Nat : n <= l => both[n] = first[n]}
  <2>1. ASSUME NEW n \in Nat, n + 1 <= l, both[n] = first[n] PROVE both[n + 1] = first[n + 1]
    <3>1. n + 1 \in 1..l /\ n + 1 \in 1..Len(u) /\ (n + 1) - 1 = n
      BY <1>1, <2>1
    <3>2. u[n + 1] = s[n + 1]
      BY <1>1, <3>1
    <3>3. /\ first[n + 1] = IF s[n + 1].key = k THEN Append(first[n], ValueOf(s[n + 1])) ELSE first[n]
          /\ both[n + 1] = IF s[n + 1].key = k THEN Append(both[n], ValueOf(s[n + 1])) ELSE both[n]
      BY <1>2, <1>4, <3>1, <3>2
    <3>4. QED  BY <2>1, <3>3
  <2>2. \A n \in A : n + 1 \in A
    BY <1>1, <2>1
  <2>3. 0 \in A
    BY <1>2, <1>4
  <2>4. A = Nat
    BY <2>2, <2>3, Induction
  <2>5. QED  BY <1>1, <2>4
<1>6. first[l] \in Seq(Value)
  BY <1>1, <1>2
<1>7. PICK joined : joined = [n \in 0..Len(t) |-> first[l] \o second[n]]
  OBVIOUS
<1>8. joined[0] = first[l]
  <2>1. first[l] \o <<>> = first[l]
    BY <1>6, ConcatEmptySeq
  <2>2. 0 \in 0..Len(t)
    BY <1>1
  <2>3. QED  BY <1>3, <1>7, <2>1, <2>2
<1>9. both[l + Len(t)] = joined[Len(t)]
  <2> DEFINE B == {n \in Nat : n <= Len(t) => both[l + n] = joined[n]}
  <2>1. ASSUME NEW n \in Nat, n + 1 <= Len(t), both[l + n] = joined[n]
        PROVE  both[l + (n + 1)] = joined[n + 1]
    <3>1. /\ n + 1 \in 1..Len(t) /\ (n + 1) - 1 = n /\ n \in 0..Len(t) /\ n + 1 \in 0..Len(t)
          /\ l + (n + 1) \in 1..Len(u) /\ (l + (n + 1)) - 1 = l + n
          /\ u[l + (n + 1)] = t[n + 1]
      BY <1>1, <2>1
    <3>2. /\ both[l + (n + 1)] = IF t[n + 1].key = k THEN Append(joined[n], ValueOf(t[n + 1]))
                                 ELSE joined[n]
          /\ second[n + 1] = IF t[n + 1].key = k THEN Append(second[n], ValueOf(t[n + 1]))
                             ELSE second[n]
          /\ second[n] \in Seq(Value)
      BY <1>3, <1>4, <2>1, <3>1
    <3>3. joined[n] = first[l] \o second[n] /\ joined[n + 1] = first[l] \o second[n + 1]
      BY <1>7, <3>1
    <3>4. t[n + 1] \in Event
      BY <3>1
    <3>5. \A a, b \in Seq(Value) : \A v \in Value : Append(a \o b, v) = a \o Append(b, v)
      BY AppendAfter
    <3>6. Append(first[l] \o second[n], ValueOf(t[n + 1])) = first[l] \o Append(second[n], ValueOf(t[n + 1]))
      BY <1>6, <3>2, <3>4, <3>5, ValueOfEvent
    <3>7. CASE t[n + 1].key = k
      BY <3>2, <3>3, <3>6, <3>7
    <3>8. CASE t[n + 1].key # k
      BY <3>2, <3>3, <3>8
    <3>9. QED  BY <3>7, <3>8
  <2>2. \A n \in B : n + 1 \in B
    BY <1>1, <2>1
  <2>3. 0 \in B
    BY <1>1, <1>5, <1>8
  <2>4. B = Nat
    BY <2>2, <2>3, Induction
  <2>5. QED  BY <1>1, <2>4
<1>10. joined[Len(t)] = first[l] \o second[Len(t)]
  <2>1. Len(t) \in 0..Len(t)
    BY <1>1
  <2>2. QED  BY <1>7, <2>1
<1>11. QED  BY <1>0, <1>1, <1>6, <1>9, <1>10 DEF ValuesOf

-----------------------------------------------------------------------------
(* Taking a value out of a sequence.                                       *)

LEMMA ConsIsOne ==
  ASSUME NEW S, NEW s \in Seq(S), s # <<>>
  PROVE  Head(s) \in S /\ Tail(s) \in Seq(S) /\ s = <<Head(s)>> \o Tail(s)
<1>1. PICK h, t : h = Head(s) /\ t = Tail(s)
  OBVIOUS
<1>2. h \in S /\ t \in Seq(S) /\ Len(s) = 1 + Len(t) /\ h = s[1] /\ Len(s) \in Nat
      /\ Len(t) \in Nat /\ \A i \in 1..Len(t) : t[i] = s[i + 1]
  BY <1>1, HeadTailProperties
<1>3. PICK one : one = <<h>>
  OBVIOUS
<1>4. one \in Seq(S) /\ Len(one) = 1 /\ one[1] = h
  BY <1>2, <1>3
<1>5. PICK whole : whole = one \o t
  OBVIOUS
<1>6. /\ whole \in Seq(S) /\ Len(whole) = 1 + Len(t)
      /\ \A i \in 1..1 + Len(t) : whole[i] = IF i <= 1 THEN one[1] ELSE t[i - 1]
  <2>1. /\ whole \in Seq(S) /\ Len(whole) = Len(one) + Len(t)
        /\ \A i \in 1..Len(one) + Len(t) :
             whole[i] = IF i <= Len(one) THEN one[i] ELSE t[i - Len(one)]
    BY <1>2, <1>4, <1>5, ConcatProperties
  <2>2. QED  BY <1>2, <1>4, <2>1
<1>7. \A i \in 1..Len(s) : whole[i] = s[i]
  <2> TAKE i \in 1..Len(s)
  <2>1. CASE i = 1
    BY <1>2, <1>4, <1>6, <2>1
  <2>2. CASE i # 1
    <3>1. i - 1 \in 1..Len(t) /\ (i - 1) + 1 = i /\ ~(i <= 1) /\ i \in 1..1 + Len(t)
      BY <1>2, <2>2
    <3>2. t[i - 1] = s[i] /\ whole[i] = t[i - 1]
      BY <1>2, <1>6, <3>1
    <3>3. QED  BY <3>2
  <2>3. QED  BY <2>1, <2>2
<1>8. whole = s
  BY <1>2, <1>6, <1>7, SeqEqual
<1>9. QED  BY <1>1, <1>2, <1>3, <1>5, <1>8

LEMMA HeadOfCons ==
  ASSUME NEW S, NEW v \in S, NEW t \in Seq(S)
  PROVE  <<v>> \o t # <<>> /\ Head(<<v>> \o t) = v /\ Tail(<<v>> \o t) = t
<1>1. PICK one : one = <<v>>
  OBVIOUS
<1>2. one \in Seq(S) /\ Len(one) = 1 /\ one[1] = v /\ Len(t) \in Nat
  BY <1>1
<1>3. PICK s : s = one \o t
  OBVIOUS
<1>4. /\ s \in Seq(S) /\ Len(s) = 1 + Len(t)
      /\ \A i \in 1..1 + Len(t) : s[i] = IF i <= 1 THEN v ELSE t[i - 1]
  <2>1. /\ s \in Seq(S) /\ Len(s) = Len(one) + Len(t)
        /\ \A i \in 1..Len(one) + Len(t) : s[i] = IF i <= Len(one) THEN one[i] ELSE t[i - Len(one)]
    BY <1>2, <1>3, ConcatProperties
  <2>2. QED  BY <1>2, <2>1
<1>5. s # <<>> /\ s[1] = v /\ Head(s) = s[1]
  BY <1>2, <1>4
<1>6. Tail(s) \in Seq(S) /\ Len(Tail(s)) = Len(t) /\ \A i \in 1..Len(Tail(s)) : Tail(s)[i] = s[i + 1]
  BY <1>2, <1>4, <1>5, HeadTailProperties
<1>7. PICK r : r = Tail(s)
  OBVIOUS
<1>8. \A i \in 1..Len(r) : r[i] = t[i]
  BY <1>2, <1>4, <1>6, <1>7
<1>9. r = t
  BY <1>6, <1>7, <1>8, SeqEqual
<1>10. QED  BY <1>1, <1>3, <1>5, <1>7, <1>9

LEMMA RemoveBetween ==
  ASSUME NEW S, NEW a \in Seq(S), NEW v \in S, NEW t \in Seq(S)
  PROVE  LET s == a \o (<<v>> \o t)
         IN Len(a) + 1 \in DOMAIN s /\ Fifo!RemoveAt(s, Len(a) + 1) = a \o t
<1>1. PICK one, s, l, m : one = <<v>> /\ s = a \o (one \o t) /\ l = Len(a) /\ m = Len(t)
  OBVIOUS
<1>2. one \in Seq(S) /\ Len(one) = 1 /\ l \in Nat /\ m \in Nat
  BY <1>1
<1>3. PICK b : b = one \o t
  OBVIOUS
<1>4. b \in Seq(S) /\ Len(b) = 1 + m /\ \A i \in 2..1 + m : b[i] = t[i - 1]
  <2>1. /\ b \in Seq(S) /\ Len(b) = Len(one) + Len(t)
        /\ \A i \in 1..Len(one) + Len(t) : b[i] = IF i <= Len(one) THEN one[i] ELSE t[i - Len(one)]
    BY <1>2, <1>3, ConcatProperties
  <2>2. QED  BY <1>1, <1>2, <2>1
<1>5. /\ s \in Seq(S) /\ Len(s) = l + (1 + m)
      /\ \A i \in 1..l + (1 + m) : s[i] = IF i <= l THEN a[i] ELSE b[i - l]
  <2>1. s = a \o b
    BY <1>1, <1>3
  <2>2. /\ s \in Seq(S) /\ Len(s) = Len(a) + Len(b)
        /\ \A i \in 1..Len(a) + Len(b) : s[i] = IF i <= Len(a) THEN a[i] ELSE b[i - Len(a)]
    BY <1>4, <2>1, ConcatProperties
  <2>3. QED  BY <1>1, <1>4, <2>2
<1>6. l + 1 \in DOMAIN s
  BY <1>2, <1>5
<1>7. SubSeq(s, 1, (l + 1) - 1) = a
  <2>1. PICK r : r = SubSeq(s, 1, (l + 1) - 1)
    OBVIOUS
  <2>2. (l + 1) - 1 = l /\ l \in Int /\ 1 \in Int /\ \A i \in 1..l : s[i] = a[i] /\ s[i] \in S
    BY <1>1, <1>2, <1>5
  <2>3. /\ r \in Seq(S) /\ Len(r) = IF 1 <= l THEN l - 1 + 1 ELSE 0
        /\ \A i \in 1..l - 1 + 1 : r[i] = s[1 + i - 1]
    BY <2>1, <2>2, SubSeqProperties
  <2>4. Len(r) = l /\ \A i \in 1..l : r[i] = a[i]
    BY <1>2, <2>2, <2>3
  <2>5. QED  BY <1>1, <2>1, <2>3, <2>4, SeqEqual
<1>8. SubSeq(s, (l + 1) + 1, Len(s)) = t
  <2>1. PICK r, x, y : r = SubSeq(s, x, y) /\ x = (l + 1) + 1 /\ y = Len(s)
    OBVIOUS
  <2>2. x = l + 2 /\ y = l + (1 + m) /\ x \in Int /\ y \in Int
    BY <1>2, <1>5, <2>1
  <2>3. \A i \in x..y : s[i] \in S
    BY <1>2, <1>5, <2>2
  <2>4. /\ r \in Seq(S) /\ Len(r) = IF x <= y THEN y - x + 1 ELSE 0
        /\ \A i \in 1..y - x + 1 : r[i] = s[x + i - 1]
    BY <2>1, <2>2, <2>3, SubSeqProperties
  <2>5. y - x + 1 = m /\ Len(r) = m
    BY <1>2, <2>2, <2>4
  <2>6. \A i \in 1..m : r[i] = t[i]
    <3> TAKE i \in 1..m
    <3>1. x + i - 1 = l + (1 + i) /\ x + i - 1 \in 1..l + (1 + m) /\ ~(x + i - 1 <= l)
          /\ (x + i - 1) - l = 1 + i /\ 1 + i \in 2..1 + m /\ (1 + i) - 1 = i
      BY <1>2, <2>2
    <3>2. r[i] = s[x + i - 1] /\ s[x + i - 1] = b[1 + i] /\ b[1 + i] = t[i]
      BY <1>4, <1>5, <2>4, <2>5, <3>1
    <3>3. QED  BY <3>2
  <2>7. QED  BY <1>1, <2>1, <2>4, <2>5, <2>6, SeqEqual
<1>9. Fifo!RemoveAt(s, l + 1) = a \o t
  BY <1>7, <1>8 DEF Fifo!RemoveAt
<1>10. QED  BY <1>1, <1>6, <1>9

-----------------------------------------------------------------------------
(* What happens to the values under way when the events under way move.    *)

\* An event more, behind the others.
LEMMA ValuesGrow ==
  ASSUME NEW k, NEW s \in Seq(Event), NEW p \in Seq(Event), NEW e \in Event
  PROVE  /\ e.key = k => ValuesOf(k, s \o Append(p, e)) = Append(ValuesOf(k, s \o p), ValueOf(e))
         /\ e.key # k => ValuesOf(k, s \o Append(p, e)) = ValuesOf(k, s \o p)
<1>1. PICK one, all, v : one = <<e>> /\ all = s \o p /\ v = ValueOf(e)
  OBVIOUS
<1>2. one \in Seq(Event) /\ all \in Seq(Event) /\ v \in Value
  BY <1>1, ConcatProperties, ValueOfEvent
<1>3. s \o Append(p, e) = all \o one
  <2>1. Append(p, e) = p \o one
    BY <1>1, AppendIsConcat
  <2>2. s \o (p \o one) = (s \o p) \o one
    BY <1>2, ConcatAssociative
  <2>3. QED  BY <1>1, <2>1, <2>2
<1>4. PICK before, last : before = ValuesOf(k, all) /\ last = ValuesOf(k, one)
  OBVIOUS
<1>5. before \in Seq(Value) /\ ValuesOf(k, all \o one) = before \o last
  BY <1>2, <1>4, ValuesOfConcat
<1>6. last = IF e.key = k THEN <<v>> ELSE <<>>
  BY <1>1, <1>4, ValuesOfOne
<1>7. Append(before, v) = before \o <<v>> /\ before \o <<>> = before
  BY <1>2, <1>5, AppendIsConcat, ConcatEmptySeq
<1>8. CASE e.key = k
  <2>1. last = <<v>>
    BY <1>6, <1>8
  <2>2. QED  BY <1>1, <1>3, <1>4, <1>5, <1>7, <1>8, <2>1
<1>9. CASE e.key # k
  <2>1. last = <<>>
    BY <1>6, <1>9
  <2>2. QED  BY <1>1, <1>3, <1>4, <1>5, <1>7, <1>9, <2>1
<1>10. QED  BY <1>8, <1>9

\* An event less, from among the others: it says one value, or nothing, of k.
LEMMA ValuesParts ==
  ASSUME NEW k, NEW s \in Seq(Event), NEW p \in Seq(Event), p # <<>>
  PROVE  /\ ValuesOf(k, s) \in Seq(Value) /\ ValuesOf(k, Tail(p)) \in Seq(Value)
         /\ ValuesOf(k, s \o Tail(p)) = ValuesOf(k, s) \o ValuesOf(k, Tail(p))
         /\ ValuesOf(k, s \o p)
              = ValuesOf(k, s) \o (ValuesOf(k, <<Head(p)>>) \o ValuesOf(k, Tail(p)))
<1>1. PICK h, t, one : h = Head(p) /\ t = Tail(p) /\ one = <<h>>
  OBVIOUS
<1>2. h \in Event /\ t \in Seq(Event) /\ p = one \o t
  BY <1>1, ConsIsOne
<1>3. one \in Seq(Event)
  BY <1>1, <1>2
<1>4. PICK a, b, c : a = ValuesOf(k, s) /\ b = ValuesOf(k, one) /\ c = ValuesOf(k, t)
  OBVIOUS
<1>5. a \in Seq(Value) /\ c \in Seq(Value) /\ ValuesOf(k, s \o t) = a \o c
  BY <1>2, <1>4, ValuesOfConcat
<1>6. ValuesOf(k, s \o p) = a \o (b \o c)
  <2>1. ValuesOf(k, p) = b \o c
    BY <1>2, <1>3, <1>4, ValuesOfConcat
  <2>2. ValuesOf(k, s \o p) = a \o ValuesOf(k, p)
    BY <1>4, ValuesOfConcat
  <2>3. QED  BY <2>1, <2>2
<1>7. QED  BY <1>1, <1>4, <1>5, <1>6

LEMMA ValuesShrink ==
  ASSUME NEW k, NEW s \in Seq(Event), NEW p \in Seq(Event), p # <<>>, Head(p).key = k
  PROVE  ValuesOf(k, s \o p) = ValuesOf(k, s) \o (<<ValueOf(Head(p))>> \o ValuesOf(k, Tail(p)))
<1>1. Head(p) \in Event
  BY ConsIsOne
<1>2. ValuesOf(k, <<Head(p)>>) = <<ValueOf(Head(p))>>
  BY <1>1, ValuesOfOne
<1>3. ValuesOf(k, s \o p) = ValuesOf(k, s) \o (ValuesOf(k, <<Head(p)>>) \o ValuesOf(k, Tail(p)))
  BY ValuesParts, Zenon
<1>4. QED  BY <1>2, <1>3

LEMMA ValuesStay ==
  ASSUME NEW k, NEW s \in Seq(Event), NEW p \in Seq(Event), p # <<>>, Head(p).key # k
  PROVE  ValuesOf(k, s \o p) = ValuesOf(k, s \o Tail(p))
<1>1. Head(p) \in Event
  BY ConsIsOne
<1>2. ValuesOf(k, <<Head(p)>>) = <<>>
  BY <1>1, ValuesOfOne
<1>3. /\ ValuesOf(k, Tail(p)) \in Seq(Value)
      /\ ValuesOf(k, s \o Tail(p)) = ValuesOf(k, s) \o ValuesOf(k, Tail(p))
      /\ ValuesOf(k, s \o p) = ValuesOf(k, s) \o (ValuesOf(k, <<Head(p)>>) \o ValuesOf(k, Tail(p)))
  BY ValuesParts, Zenon
<1>4. <<>> \o ValuesOf(k, Tail(p)) = ValuesOf(k, Tail(p))
  BY <1>3, ConcatEmptySeq
<1>5. QED  BY <1>2, <1>3, <1>4

\* An event that goes from the head of p to the end of q keeps its place.
LEMMA MovesOver ==
  ASSUME NEW s \in Seq(Event), NEW q \in Seq(Event), NEW p \in Seq(Event), p # <<>>
  PROVE  s \o Append(q, Head(p)) \o Tail(p) = s \o q \o p
<1>1. PICK h, t, one : h = Head(p) /\ t = Tail(p) /\ one = <<h>>
  OBVIOUS
<1>2. h \in Event /\ t \in Seq(Event) /\ p = one \o t
  BY <1>1, ConsIsOne
<1>3. one \in Seq(Event) /\ s \o q \in Seq(Event)
  BY <1>1, <1>2, ConcatProperties
<1>4. Append(q, h) = q \o one
  BY <1>1, <1>2, AppendIsConcat
<1>5. s \o (q \o one) = (s \o q) \o one
  BY <1>3, ConcatAssociative
<1>6. ((s \o q) \o one) \o t = (s \o q) \o (one \o t)
  BY <1>2, <1>3, ConcatAssociative
<1>7. QED  BY <1>1, <1>2, <1>4, <1>5, <1>6

-----------------------------------------------------------------------------
(* The steps, one by one.                                                  *)

\* Once the queue shuts down the context is cancelled.
CancelledInv == shutdown => ctxDone

FlightInv == TypeInv /\ OnlyMatched /\ CancelledInv

LEMMA FlightInit == Init => FlightInv
  BY TypeInit, OnlyMatchedInit DEF FlightInv, CancelledInv, Init

LEMMA FlightNext == FlightInv /\ [Next]_vars => FlightInv'
<1> SUFFICES ASSUME FlightInv, [Next]_vars PROVE CancelledInv'
  BY TypeNext, OnlyMatchedNext DEF FlightInv
<1> USE DEF FlightInv, CancelledInv
<1>1. ASSUME UNCHANGED <<shutdown, ctxDone>> PROVE CancelledInv'
  BY <1>1
<1>2. ASSUME NEW k, Put(k) \/ Remove(k) \/ Resync(k) PROVE CancelledInv'
  BY <1>1, <1>2 DEF Put, Remove, Resync, queueVars, lifeVars
<1>3. CASE Handle
  BY <1>1, <1>3 DEF Handle, lifeVars
<1>4. ASSUME NEW p, ReadLen(p) \/ SetDepth(p) PROVE CancelledInv'
  BY <1>1, <1>4 DEF ReadLen, SetDepth, queueVars, lifeVars
<1>5. ASSUME NEW w, Launch(w) \/ Get(w) \/ GetShutdown(w) \/ Apply(w) PROVE CancelledInv'
  BY <1>1, <1>5 DEF Launch, Get, GetShutdown, Apply, queueVars, lifeVars
<1>6. CASE List \/ Replace
  BY <1>1, <1>6 DEF List, Replace, queueVars, lifeVars
<1>7. CASE Sync \/ Cancel \/ StartStep
  BY <1>7 DEF Sync, Cancel, StartStep, ShutDown, ZeroDepth, CloseStop, queueVars
<1>8. CASE UNCHANGED vars
  BY <1>1, <1>8 DEF vars, queueVars, lifeVars
<1>9. QED
  BY <1>2, <1>3, <1>4, <1>5, <1>6, <1>7, <1>8 DEF Next, HandlerStep, WorkerStep

LEMMA InHandIs ==
  ASSUME NEW w0, Worker = {w0}
  PROVE  InHand = IF hand[w0] = NoEvent THEN <<>> ELSE <<hand[w0]>>
<1>1. (CHOOSE w \in Worker : TRUE) = w0
  OBVIOUS
<1>2. QED  BY <1>1 DEF InHand

\* The events under way, and the two parts of their sequence.
LEMMA UnderWay ==
  ASSUME NEW w0, Worker = {w0}, TypeInv
  PROVE  /\ InHand \in Seq(Event) /\ queue \in Seq(Event) /\ pending \in Seq(Event)
         /\ InHand \o queue \in Seq(Event)
<1>1. hand[w0] \in Event \cup {NoEvent} /\ queue \in Seq(Event) /\ pending \in Seq(Event)
  BY DEF TypeInv, TypeOK
<1>2. InHand \in Seq(Event)
  <2>1. CASE hand[w0] = NoEvent
    BY <2>1, InHandIs, EmptySeq
  <2>2. CASE hand[w0] # NoEvent
    <3>1. PICK e \in Event : e = hand[w0]
      BY <1>1, <2>2
    <3>2. <<e>> \in Seq(Event)
      OBVIOUS
    <3>3. QED  BY <2>2, <3>1, <3>2, InHandIs
  <2>3. QED  BY <2>1, <2>2
<1>3. QED  BY <1>1, <1>2, ConcatProperties

\* Nothing that KeyedFifo speaks of changes.
LEMMA FifoRests ==
  ASSUME UNCHANGED <<store, mirror, ctxDone>>, \A k \in Matched : Lag(k)' = Lag(k)
  PROVE  UNCHANGED Fifo!vars
  BY DEF Fifo!vars

LEMMA FifoRestsWith ==
  ASSUME UNCHANGED <<store, pending, queue, hand, mirror, ctxDone>>
  PROVE  UNCHANGED Fifo!vars
<1>1. \A k \in Matched : Lag(k)' = Lag(k)
  BY DEF Lag, InHand
<1>2. QED  BY <1>1, FifoRests

\* A notification for every change of the store, behind the earlier ones.
LEMMA FifoChange ==
  ASSUME NEW w0, Worker = {w0}, TypeInv, NEW e \in Event,
         pending' = Append(pending, e),
         store' = [store EXCEPT ![e.key] = ValueOf(e)],
         UNCHANGED <<queue, hand, mirror, ctxDone>>
  PROVE  [Fifo!Next]_(Fifo!vars)
<1>1. PICK j, v : j = e.key /\ v = ValueOf(e)
  OBVIOUS
<1>2. j \in Key /\ v \in Version \cup {Absent} /\ Matched \subseteq Key /\ store \in [Key -> Value]
  BY <1>1, ValueOfEvent, InformerAssumption DEF Event, Value, TypeInv, TypeOK
<1>3. \A k \in Matched : Lag(k)' = IF k = j THEN Append(Lag(k), v) ELSE Lag(k)
  <2> TAKE k \in Matched
  <2>1. PICK s, p : s = InHand \o queue /\ p = pending
    OBVIOUS
  <2>2. s \in Seq(Event) /\ p \in Seq(Event)
    BY <2>1, UnderWay
  <2>3. Lag(k) = ValuesOf(k, s \o p)
    BY <2>1 DEF Lag
  <2>4. Lag(k)' = ValuesOf(k, s \o Append(p, e))
    BY <2>1 DEF Lag, InHand
  <2>5. /\ e.key = k => ValuesOf(k, s \o Append(p, e)) = Append(ValuesOf(k, s \o p), ValueOf(e))
        /\ e.key # k => ValuesOf(k, s \o Append(p, e)) = ValuesOf(k, s \o p)
    BY <2>2, ValuesGrow, Zenon
  <2>6. QED  BY <1>1, <2>3, <2>4, <2>5
<1>4. \A k \in Matched : store'[k] = IF k = j THEN v ELSE store[k]
  BY <1>1, <1>2
<1>5. CASE j \in Matched
  <2>1. [k \in Matched |-> store[k]]' = [[k \in Matched |-> store[k]] EXCEPT ![j] = v]
    BY <1>4, <1>5
  <2>2. [k \in Matched |-> Lag(k)]' = [[k \in Matched |-> Lag(k)] EXCEPT ![j] = Append(@, v)]
    BY <1>3, <1>5
  <2>3. Fifo!Change(j, v)
    BY <2>1, <2>2 DEF Fifo!Change
  <2>4. QED  BY <1>2, <1>5, <2>3 DEF Fifo!Next
<1>6. CASE j \notin Matched
  <2>1. \A k \in Matched : store'[k] = store[k] /\ Lag(k)' = Lag(k)
    BY <1>3, <1>4, <1>6
  <2>2. QED  BY <2>1 DEF Fifo!vars
<1>7. QED  BY <1>5, <1>6

\* The oldest notification becomes an event of the queue, in the same place; one of
\* a foreign namespace says nothing of ours; one that comes after the shutdown is lost.
LEMMA FifoHandle ==
  ASSUME NEW w0, Worker = {w0}, FlightInv, Handle
  PROVE  [Fifo!Next]_(Fifo!vars)
<1>1. PICK i, q, p, s, h : i = InHand /\ q = queue /\ p = pending /\ s = i \o q /\ h = Head(p)
  OBVIOUS
<1>2. i \in Seq(Event) /\ q \in Seq(Event) /\ p \in Seq(Event) /\ s \in Seq(Event)
  BY <1>1, UnderWay DEF FlightInv
<1>3. p # <<>> /\ pending' = Tail(p) /\ InHand' = i /\ UNCHANGED <<store, mirror, ctxDone>>
      /\ queue' = IF h.key \in Matched /\ ~shutdown THEN Append(q, h) ELSE q
  BY <1>1 DEF Handle, InHand, clusterVars, workerVars, lifeVars
<1>4. h \in Event /\ Tail(p) \in Seq(Event)
  BY <1>1, <1>2, <1>3, ConsIsOne
<1>5. \A k : Lag(k) = ValuesOf(k, s \o p)
  BY <1>1 DEF Lag
<1>6. p # <<>>
  BY <1>3
<1>7. \A k : Head(p).key # k => ValuesOf(k, s \o p) = ValuesOf(k, s \o Tail(p))
  BY <1>2, <1>6, ValuesStay, Zenon
<1>8. CASE h.key \in Matched /\ ~shutdown
  <2>1. i \o Append(q, h) \o Tail(p) = s \o p
    <3>1. i \o Append(q, Head(p)) \o Tail(p) = i \o q \o p
      BY <1>2, <1>6, MovesOver, Zenon
    <3>2. QED  BY <1>1, <3>1
  <2>2. \A k : Lag(k)' = ValuesOf(k, i \o Append(q, h) \o Tail(p))
    BY <1>3, <1>8 DEF Lag
  <2>3. \A k : Lag(k)' = Lag(k)
    BY <1>5, <2>1, <2>2
  <2>4. QED  BY <1>3, <2>3, FifoRests
<1>9. CASE ~(h.key \in Matched /\ ~shutdown)
  <2>1. \A k : Lag(k)' = ValuesOf(k, s \o Tail(p))
    BY <1>1, <1>3, <1>9 DEF Lag
  <2>2. \A k : h.key # k => Lag(k)' = Lag(k)
    <3> TAKE k
    <3>1. h.key # k => ValuesOf(k, s \o p) = ValuesOf(k, s \o Tail(p))
      BY <1>1, <1>7
    <3>2. QED  BY <1>5, <2>1, <3>1
  <2>3. CASE h.key \notin Matched
    <3>1. \A k \in Matched : Lag(k)' = Lag(k)
      BY <2>2, <2>3
    <3>2. QED  BY <1>3, <3>1, FifoRests
  <2>4. CASE h.key \in Matched
    <3>1. PICK j, v, a, b : j = h.key /\ v = ValueOf(h) /\ a = ValuesOf(j, s) /\ b = ValuesOf(j, Tail(p))
      OBVIOUS
    <3>2. a \in Seq(Value) /\ b \in Seq(Value) /\ v \in Value
      <4>1. ValuesOf(j, s) \in Seq(Value) /\ ValuesOf(j, Tail(p)) \in Seq(Value)
        BY <1>2, <1>6, ValuesParts, Zenon
      <4>2. QED  BY <1>4, <3>1, <4>1, ValueOfEvent
    <3>3. Lag(j) = a \o (<<v>> \o b)
      <4>1. ValuesOf(j, s \o p) = a \o (<<v>> \o b)
        <5>1. Head(p).key = j
          BY <1>1, <3>1
        <5>2. ValuesOf(j, s \o p) = ValuesOf(j, s) \o (<<ValueOf(Head(p))>> \o ValuesOf(j, Tail(p)))
          BY <1>2, <1>6, <5>1, ValuesShrink, Zenon
        <5>3. QED  BY <1>1, <3>1, <5>2
      <4>2. QED  BY <1>5, <4>1
    <3>4. Lag(j)' = a \o b
      <4>1. ValuesOf(j, s \o Tail(p)) = a \o b
        <5>1. ValuesOf(j, s \o Tail(p)) = ValuesOf(j, s) \o ValuesOf(j, Tail(p))
          BY <1>2, <1>6, ValuesParts, Zenon
        <5>2. QED  BY <3>1, <5>1
      <4>2. QED  BY <2>1, <4>1
    <3>5. PICK n, all, less : n = Len(a) + 1 /\ all = a \o (<<v>> \o b) /\ less = a \o b
      OBVIOUS
    <3>6. n \in DOMAIN all /\ Fifo!RemoveAt(all, n) = less
      BY <3>2, <3>5, RemoveBetween
    <3>7. \A k \in Matched : Lag(k)' = IF k = j THEN Fifo!RemoveAt(Lag(k), n) ELSE Lag(k)
      BY <2>2, <3>1, <3>3, <3>4, <3>5, <3>6
    <3>8. [k \in Matched |-> Lag(k)]'
            = [[k \in Matched |-> Lag(k)] EXCEPT ![j] = Fifo!RemoveAt(@, n)]
      BY <2>4, <3>1, <3>7
    <3>9. n \in DOMAIN ([k \in Matched |-> Lag(k)][j])
      BY <2>4, <3>1, <3>3, <3>5, <3>6
    <3>10. ctxDone
      BY <1>9, <2>4 DEF FlightInv, CancelledInv
    <3>11. Fifo!Lose(j)
      BY <1>3, <3>8, <3>9, <3>10 DEF Fifo!Lose
    <3>12. QED  BY <2>4, <3>1, <3>11 DEF Fifo!Next
  <2>5. QED  BY <2>3, <2>4
<1>10. QED  BY <1>8, <1>9

\* The worker takes the oldest event of the queue in hand, in the same place.
LEMMA FifoGet ==
  ASSUME NEW w0, Worker = {w0}, TypeInv, Get(w0)
  PROVE  UNCHANGED Fifo!vars
<1>1. PICK q, p, h, t : q = queue /\ p = pending /\ h = Head(q) /\ t = Tail(q)
  OBVIOUS
<1>2. q \in Seq(Event) /\ p \in Seq(Event) /\ q # <<>>
  BY <1>1 DEF TypeInv, TypeOK, Get
<1>3. h \in Event /\ t \in Seq(Event) /\ q = <<h>> \o t
  BY <1>1, <1>2, ConsIsOne
<1>4. InHand = <<>>
  <2>1. hand[w0] = NoEvent
    BY DEF TypeInv, HandInv, Get
  <2>2. QED  BY <2>1, InHandIs
<1>5. InHand' = <<h>>
  <2>1. hand' = [hand EXCEPT ![w0] = h] /\ hand \in [Worker -> Event \cup {NoEvent}]
    BY <1>1 DEF TypeInv, TypeOK, Get
  <2>2. hand'[w0] = h /\ h # NoEvent
    BY <1>3, <2>1, NoEventAssumption
  <2>3. (CHOOSE w \in Worker : TRUE) = w0
    OBVIOUS
  <2>4. QED  BY <2>2, <2>3 DEF InHand
<1>6. queue' = t /\ pending' = p /\ UNCHANGED <<store, mirror, ctxDone>>
  BY <1>1 DEF Get, clusterVars, handlerVars, lifeVars
<1>7. <<>> \o q = q
  BY <1>2, ConcatEmptySeq
<1>8. \A k : Lag(k) = ValuesOf(k, q \o p)
  BY <1>1, <1>4, <1>7 DEF Lag
<1>9. \A k : Lag(k)' = ValuesOf(k, q \o p)
  <2>1. \A k : Lag(k)' = ValuesOf(k, <<h>> \o t \o p)
    BY <1>5, <1>6 DEF Lag
  <2>2. QED  BY <1>3, <2>1
<1>10. \A k : Lag(k)' = Lag(k)
  BY <1>8, <1>9
<1>11. QED  BY <1>6, <1>10, FifoRests

\* The worker delivers the oldest value of a workflow of ours.
LEMMA FifoApply ==
  ASSUME NEW w0, Worker = {w0}, FlightInv, Apply(w0)
  PROVE  [Fifo!Next]_(Fifo!vars)
<1>1. PICK h, q, p, r : h = hand[w0] /\ q = queue /\ p = pending /\ r = q \o p
  OBVIOUS
<1>2. h # NoEvent /\ h \in Event /\ h.key \in Matched
  BY <1>1 DEF FlightInv, OnlyMatched, TypeInv, TypeOK, HandInv, Apply
<1>3. q \in Seq(Event) /\ p \in Seq(Event) /\ r \in Seq(Event)
  <2>1. q \in Seq(Event) /\ p \in Seq(Event)
    BY <1>1 DEF FlightInv, TypeInv, TypeOK
  <2>2. QED  BY <1>1, <2>1, ConcatProperties
<1>4. InHand = <<h>>
  BY <1>1, <1>2, InHandIs
<1>5. InHand' = <<>>
  <2>1. hand' = [hand EXCEPT ![w0] = NoEvent] /\ hand \in [Worker -> Event \cup {NoEvent}]
    BY DEF FlightInv, TypeInv, TypeOK, Apply
  <2>2. hand'[w0] = NoEvent
    BY <2>1
  <2>3. (CHOOSE w \in Worker : TRUE) = w0
    OBVIOUS
  <2>4. QED  BY <2>2, <2>3 DEF InHand
<1>6. PICK j, v, one : j = h.key /\ v = ValueOf(h) /\ one = <<h>>
  OBVIOUS
<1>7. j \in Matched /\ v \in Value /\ one \in Seq(Event)
  BY <1>2, <1>6, ValueOfEvent
<1>8. queue' = q /\ pending' = p /\ mirror' = [mirror EXCEPT ![j] = v] /\ UNCHANGED <<store, ctxDone>>
  BY <1>1, <1>6 DEF Apply, clusterVars, handlerVars, queueVars, lifeVars
<1>9. \A k : ValuesOf(k, r) \in Seq(Value) /\ ValuesOf(k, one \o r) = ValuesOf(k, one) \o ValuesOf(k, r)
  BY <1>3, <1>7, ValuesOfConcat
<1>10. \A k : Lag(k) = ValuesOf(k, one) \o ValuesOf(k, r)
  <2>1. one \o q \o p = one \o (q \o p)
    BY <1>3, <1>7, ConcatAssociative
  <2>2. \A k : Lag(k) = ValuesOf(k, one \o q \o p)
    BY <1>1, <1>4, <1>6 DEF Lag
  <2>3. QED  BY <1>1, <1>9, <2>1, <2>2
<1>11. \A k : Lag(k)' = ValuesOf(k, r)
  <2>1. <<>> \o q = q
    BY <1>3, ConcatEmptySeq
  <2>2. QED  BY <1>1, <1>5, <1>8, <2>1 DEF Lag
<1>12. \A k : k # j => Lag(k)' = Lag(k)
  <2> SUFFICES ASSUME NEW k, k # j PROVE Lag(k)' = Lag(k)
    OBVIOUS
  <2>1. ValuesOf(k, one) = <<>>
    BY <1>2, <1>6, ValuesOfOne
  <2>2. PICK c : c = ValuesOf(k, r)
    OBVIOUS
  <2>3. <<>> \o c = c
    BY <1>9, <2>2, ConcatEmptySeq
  <2>4. QED  BY <1>10, <1>11, <2>1, <2>2, <2>3
<1>13. PICK c : c = ValuesOf(j, r)
  OBVIOUS
<1>14. c \in Seq(Value) /\ Lag(j)' = c /\ Lag(j) = <<v>> \o c
  <2>1. ValuesOf(j, one) = <<v>>
    BY <1>2, <1>6, ValuesOfOne
  <2>2. QED  BY <1>9, <1>10, <1>11, <1>13, <2>1
<1>15. PICK lag : lag = Lag(j)
  OBVIOUS
<1>16. lag # <<>> /\ Head(lag) = v /\ Tail(lag) = c
  BY <1>7, <1>14, <1>15, HeadOfCons
<1>17. Lag(j) # <<>> /\ Head(Lag(j)) = v /\ Lag(j)' = Tail(Lag(j))
  BY <1>14, <1>15, <1>16
<1>18. [k \in Matched |-> Lag(k)]' = [[k \in Matched |-> Lag(k)] EXCEPT ![j] = Tail(@)]
  BY <1>7, <1>12, <1>17
<1>19. [k \in Matched |-> mirror[k]]'
         = [[k \in Matched |-> mirror[k]] EXCEPT ![j] = Head([k \in Matched |-> Lag(k)][j])]
  <2>1. mirror \in [Key -> Value] /\ Matched \subseteq Key
    BY InformerAssumption DEF FlightInv, TypeInv, TypeOK
  <2>2. Head([k \in Matched |-> Lag(k)][j]) = v
    BY <1>7, <1>17
  <2>3. \A k \in Matched : mirror'[k] = IF k = j THEN v ELSE mirror[k]
    BY <1>8, <2>1
  <2>4. QED  BY <1>7, <2>2, <2>3
<1>20. Fifo!Deliver(j)
  BY <1>7, <1>8, <1>17, <1>18, <1>19 DEF Fifo!Deliver
<1>21. QED  BY <1>7, <1>20 DEF Fifo!Next

-----------------------------------------------------------------------------
(* The refinement.                                                         *)

LEMMA FifoInit == Init => Fifo!Init
<1> SUFFICES ASSUME Init PROVE Fifo!Init
  OBVIOUS
<1>1. Matched \subseteq Key
  BY InformerAssumption
<1>2. InHand = <<>>
  <2>1. (CHOOSE w \in Worker : TRUE) \in Worker
    BY InformerAssumption
  <2>2. QED  BY <2>1 DEF Init, InHand
<1>3. \A k : Lag(k) = <<>>
  <2>1. PICK none : none = <<>>
    OBVIOUS
  <2>2. none \in Seq(Event)
    BY <2>1, EmptySeq
  <2>3. none \o none \o none = none
    <3>1. none \o none = none
      BY <2>1, <2>2, ConcatEmptySeq
    <3>2. QED  BY <3>1
  <2>4. InHand = none /\ queue = none /\ pending = none
    BY <1>2, <2>1 DEF Init
  <2>5. QED  BY <2>1, <2>3, <2>4, ValuesOfNone DEF Lag
<1>4. QED  BY <1>1, <1>3 DEF Init, Fifo!Init

LEMMA FifoNext ==
  ASSUME NEW w0, Worker = {w0}, ~FullReconcile, FlightInv, [Next]_vars
  PROVE  [Fifo!Next]_(Fifo!vars)
<1> USE DEF FlightInv
<1>1. ASSUME NEW k \in Key, Put(k) PROVE [Fifo!Next]_(Fifo!vars)
  <2> DEFINE e == [eventType |-> IF store[k] = Absent THEN "add" ELSE "update",
                   key |-> k, version |-> version[k] + 1]
  <2>1. version[k] + 1 \in Version
    BY <1>1, InformerAssumption DEF Put, TypeInv, TypeOK, Version
  <2>2. e \in Event /\ e.key = k /\ ValueOf(e) = version[k] + 1
    BY <2>1 DEF Event, ValueOf
  <2>3. pending' = Append(pending, e) /\ store' = [store EXCEPT ![k] = version[k] + 1]
    BY <1>1 DEF Put, Notify
  <2>4. UNCHANGED <<queue, hand, mirror, ctxDone>>
    BY <1>1 DEF Put, queueVars, workerVars, lifeVars
  <2> HIDE DEF e
  <2>5. QED  BY <2>2, <2>3, <2>4, FifoChange
<1>2. ASSUME NEW k \in Key, Remove(k) PROVE [Fifo!Next]_(Fifo!vars)
  <2> DEFINE e == [eventType |-> "delete", key |-> k, version |-> store[k]]
  <2>1. e \in Event /\ e.key = k /\ ValueOf(e) = Absent
    BY <1>2 DEF Event, ValueOf, Remove, TypeInv, TypeOK, Value
  <2>2. pending' = Append(pending, e) /\ store' = [store EXCEPT ![k] = Absent]
    BY <1>2 DEF Remove, Notify
  <2>3. UNCHANGED <<queue, hand, mirror, ctxDone>>
    BY <1>2 DEF Remove, queueVars, workerVars, lifeVars
  <2> HIDE DEF e
  <2>4. QED  BY <2>1, <2>2, <2>3, FifoChange
<1>3. ASSUME NEW k \in Key, Resync(k) PROVE [Fifo!Next]_(Fifo!vars)
  <2> DEFINE e == [eventType |-> "update", key |-> k, version |-> store[k]]
  <2>1. e \in Event /\ e.key = k /\ ValueOf(e) = store[k]
    BY <1>3 DEF Event, ValueOf, Resync, TypeInv, TypeOK, Value
  <2>2. pending' = Append(pending, e) /\ store' = [store EXCEPT ![k] = store[k]]
    BY <1>3 DEF Resync, Notify, clusterVars, TypeInv, TypeOK
  <2>3. UNCHANGED <<queue, hand, mirror, ctxDone>>
    BY <1>3 DEF Resync, queueVars, workerVars, lifeVars
  <2> HIDE DEF e
  <2>4. QED  BY <2>1, <2>2, <2>3, FifoChange
<1>4. CASE Handle
  BY <1>4, FifoHandle
<1>5. ASSUME NEW w \in Worker, Get(w) PROVE [Fifo!Next]_(Fifo!vars)
  <2>1. UNCHANGED Fifo!vars
    BY <1>5, FifoGet
  <2>2. QED  BY <2>1
<1>6. ASSUME NEW w \in Worker, Apply(w) PROVE [Fifo!Next]_(Fifo!vars)
  BY <1>6, FifoApply
<1>7. ASSUME UNCHANGED <<store, pending, queue, hand, mirror, ctxDone>>
      PROVE  [Fifo!Next]_(Fifo!vars)
  <2>1. UNCHANGED Fifo!vars
    BY <1>7, FifoRestsWith
  <2>2. QED  BY <2>1
<1>8. ASSUME NEW p, ReadLen(p) \/ SetDepth(p) PROVE [Fifo!Next]_(Fifo!vars)
  BY <1>7, <1>8 DEF ReadLen, SetDepth, clusterVars, handlerVars, queueVars, workerVars, lifeVars
<1>9. ASSUME NEW w, Launch(w) \/ GetShutdown(w) PROVE [Fifo!Next]_(Fifo!vars)
  BY <1>7, <1>9 DEF Launch, GetShutdown, clusterVars, handlerVars, queueVars, lifeVars
<1>10. CASE List
  BY <1>7, <1>10 DEF List, clusterVars, handlerVars, queueVars, workerVars, lifeVars
<1>11. ~Replace
  BY DEF Replace, TypeInv, NoReconcilerInv
<1>12. CASE Sync \/ StartStep
  BY <1>7, <1>12 DEF Sync, StartStep, ShutDown, ZeroDepth, CloseStop, clusterVars, handlerVars,
                     queueVars, workerVars
<1>13. CASE Cancel
  <2>1. ctxDone' = TRUE /\ UNCHANGED <<store, pending, queue, hand, mirror>>
    BY <1>13 DEF Cancel, clusterVars, handlerVars, queueVars, workerVars
  <2>2. \A k : Lag(k)' = Lag(k)
    BY <2>1 DEF Lag, InHand
  <2>3. Fifo!Close
    BY <2>1, <2>2 DEF Fifo!Close
  <2>4. QED  BY <2>3 DEF Fifo!Next
<1>14. CASE UNCHANGED vars
  BY <1>7, <1>14 DEF vars, clusterVars, handlerVars, queueVars, workerVars, lifeVars
<1>15. QED
  BY <1>1, <1>2, <1>3, <1>4, <1>5, <1>6, <1>8, <1>9, <1>10, <1>11, <1>12, <1>13, <1>14
  DEF Next, HandlerStep, WorkerStep

\* With one worker (the default and deployed count) and without the full reconcile,
\* the values of every workflow of our namespaces reach the collector one by one in
\* the order of the store's changes, none skipped and none twice, until the context is
\* cancelled; from then on some may get lost, and the others still keep their order.
THEOREM KeepsOrder ==
  ASSUME NEW w0, Worker = {w0}, ~FullReconcile
  PROVE  Spec => Fifo!Order
<1>1. FlightInv /\ [Next]_vars => [Fifo!Next]_(Fifo!vars)
  BY FifoNext
<1>2. QED  BY <1>1, FlightInit, FlightNext, FifoInit, PTL DEF Spec, Fifo!Order
=============================================================================
