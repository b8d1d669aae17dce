------------------------ MODULE ProtocolStreamProofs ------------------------
(***************************************************************************)
(* Proofs about ProtocolStream, for headers, bodies and numbers of         *)
(* messages of any size and for every way of cutting the bytes.            *)
(*                                                                         *)
(* Conserved is the heart of the invariant: what a running _read has       *)
(* taken, the chunks, the socket and the writer's buffer are, in this      *)
(* order, the bytes of the messages not yet reported.  A reader that has   *)
(* taken as many bytes as InPlace says it waits for has therefore taken    *)
(* the header, or the data, of the next message: two equal sequences cut   *)
(* at the same place have equal parts (SplitConcat).  FlattenSeq is        *)
(* recursive; what it does with one chunk more or less is proved by        *)
(* induction first, with the set of the numbers for which the claim holds. *)
(***************************************************************************)
EXTENDS ProtocolStream, SequenceTheorems, WellFoundedInduction, TLAPS

-----------------------------------------------------------------------------
(* Induction over natural numbers, by a set *)

LEMMA LessIsWellFounded == IsWellFoundedOn({ss \in Nat \X Nat : ss[1] < ss[2]}, Nat)
  BY NatLessThanWellFounded, Zenon DEF OpToRel

\* A set of numbers that has each number whose predecessors it has, has all.
LEMMA AllNumbers ==
    ASSUME NEW S,
           \A n \in Nat : (\A k \in Nat : k < n => k \in S) => n \in S
    PROVE  \A n \in Nat : n \in S
<1> DEFINE R == {ss \in Nat \X Nat : ss[1] < ss[2]}
           T == Nat \ S
<1>1. SUFFICES ASSUME T # {} PROVE FALSE
  OBVIOUS
<1>2. \E x \in T : \A y \in T : ~ (<<y, x>> \in R)
  <2>1. IsWellFoundedOn(R, Nat)
    BY LessIsWellFounded
  <2>2. T \subseteq Nat
    OBVIOUS
  <2> HIDE DEF R, T
  <2> QED  BY <1>1, <2>1, <2>2, WFMin, Zenon
<1>3. PICK x \in T : \A y \in T : ~ (y < x)
  BY <1>2
<1>4. \A k \in Nat : k < x => k \in S
  BY <1>3
<1> QED  BY <1>3, <1>4

-----------------------------------------------------------------------------
(* FlattenSeq *)

\* f sums up the pieces of ss, up to the n-th.
Sums(f, ss, n) ==
    f = [i \in 1..n |-> IF i = 1 THEN ss[i] ELSE f[i - 1] \o ss[i]]

\* There are such sums: the function that FlattenSeq defines recursively.
LEMMA SumsExist ==
    ASSUME NEW X, NEW ss \in Seq(Seq(X))
    PROVE  \E f : Sums(f, ss, Len(ss))
<1> DEFINE S == {n \in Nat : \E f : Sums(f, ss, n)}
<1>1. ASSUME NEW n \in Nat, \A k \in Nat : k < n => k \in S
      PROVE  n \in S
  <2>1. CASE n = 0
    <3>1. Sums([i \in 1..0 |-> <<>>], ss, 0)
      BY SMT DEF Sums
    <3> QED  BY <2>1, <3>1
  <2>2. CASE n # 0
    <3>0. n - 1 \in Nat /\ n - 1 < n
      BY <2>2
    <3>1. PICK f : Sums(f, ss, n - 1)
      <4>1. n - 1 \in S
        BY <1>1, <3>0, Zenon
      <4> QED  BY <4>1
    <3> DEFINE g == [i \in 1..n |-> IF i = 1 THEN ss[i] ELSE f[i - 1] \o ss[i]]
    <3>2. ASSUME NEW i \in 1..n, i # 1  PROVE  g[i - 1] = f[i - 1]
      <4>1. i - 1 \in 1..(n - 1)
        BY <2>2, <3>2
      <4> HIDE DEF g
      <4>2. f[i - 1] = IF i - 1 = 1 THEN ss[i - 1] ELSE f[i - 1 - 1] \o ss[i - 1]
        BY <3>1, <4>1 DEF Sums
      <4>3. g[i - 1] = IF i - 1 = 1 THEN ss[i - 1] ELSE f[i - 1 - 1] \o ss[i - 1]
        BY <4>1 DEF g
      <4> QED  BY <4>2, <4>3
    <3>3. g = [i \in 1..n |-> IF i = 1 THEN ss[i] ELSE g[i - 1] \o ss[i]]
      BY <3>2
    <3>4. Sums(g, ss, n)
      BY <3>3 DEF Sums
    <3> QED  BY <3>4
  <2> QED  BY <2>1, <2>2
<1>2. \A n \in Nat : n \in S
  <2> HIDE DEF S
  <2> QED  BY <1>1, AllNumbers
<1> QED  BY <1>2

\* FlattenSeq is the last of the sums.
LEMMA FlattenIsSum ==
    ASSUME NEW X, NEW ss \in Seq(Seq(X)), ss # <<>>
    PROVE  \E f : Sums(f, ss, Len(ss)) /\ FlattenSeq(ss) = f[Len(ss)]
<1> DEFINE flatten == CHOOSE f : Sums(f, ss, Len(ss))
<1>1. Sums(flatten, ss, Len(ss))
  BY SumsExist
<1>2. ~(Len(ss) = 0)
  OBVIOUS
<1>3. FlattenSeq(ss) = flatten[Len(ss)]
  BY <1>2, Zenon DEF FlattenSeq, Sums
<1> QED  BY <1>1, <1>3

LEMMA SumsStep ==
    ASSUME NEW f, NEW ss, NEW n, Sums(f, ss, n), NEW i \in 1..n
    PROVE  f[i] = IF i = 1 THEN ss[i] ELSE f[i - 1] \o ss[i]
  BY Zenon DEF Sums

\* The sums of two sequences agree as far as the sequences do.
LEMMA SumsAgree ==
    ASSUME NEW f, NEW g, NEW ss, NEW tt, NEW n \in Nat, 
           Sums(f, ss, n), Sums(g, tt, n + 1),
           \A i \in 1..n : ss[i] = tt[i]
    PROVE  \A i \in 1..n : f[i] = g[i]
<1> DEFINE S == {i \in Nat : i \in 1..n => f[i] = g[i]}
<1>1. ASSUME NEW i \in Nat, \A j \in Nat : j < i => j \in S
      PROVE  i \in S
  <2>1. SUFFICES ASSUME i \in 1..n PROVE f[i] = g[i]
    OBVIOUS
  <2>2. f[i] = IF i = 1 THEN ss[i] ELSE f[i - 1] \o ss[i]
    BY <2>1, SumsStep
  <2>3. g[i] = IF i = 1 THEN tt[i] ELSE g[i - 1] \o tt[i]
    <3>1. i \in 1..(n + 1)
      BY <2>1
    <3> QED  BY <3>1, SumsStep
  <2>4. CASE i = 1
    BY <2>1, <2>2, <2>3, <2>4
  <2>5. CASE i # 1
    <3>1. i - 1 \in Nat /\ i - 1 < i /\ i - 1 \in 1..n
      BY <2>1, <2>5
    <3>2. i - 1 \in S
      BY <1>1, <3>1, Zenon
    <3>3. f[i - 1] = g[i - 1]
      BY <3>1, <3>2
    <3> QED  BY <2>1, <2>2, <2>3, <2>5, <3>3
  <2> QED  BY <2>4, <2>5
<1>2. \A i \in Nat : i \in S
  <2> HIDE DEF S
  <2> QED  BY <1>1, AllNumbers
<1> QED  BY <1>2

LEMMA FlattenEmpty == FlattenSeq(<<>>) = <<>>
  BY DEF FlattenSeq

LEMMA FlattenOne ==
    ASSUME NEW X, NEW s \in Seq(X)
    PROVE  FlattenSeq(<<s>>) = s
<1>1. <<s>> \in Seq(Seq(X)) /\ Len(<<s>>) = 1 /\ <<s>>[1] = s /\ <<s>> # <<>>
  OBVIOUS
<1>2. PICK f : Sums(f, <<s>>, Len(<<s>>)) /\ FlattenSeq(<<s>>) = f[Len(<<s>>)]
  BY <1>1, FlattenIsSum
<1>3. f[1] = s
  BY <1>1, <1>2 DEF Sums
<1> QED  BY <1>1, <1>2, <1>3

LEMMA AppendFacts ==
    ASSUME NEW Y, NEW ss \in Seq(Y), NEW s \in Y
    PROVE  /\ Append(ss, s) \in Seq(Y)
           /\ Append(ss, s) # <<>>
           /\ Len(Append(ss, s)) = Len(ss) + 1
           /\ Append(ss, s)[Len(ss) + 1] = s
           /\ \A i \in 1..Len(ss) : ss[i] = Append(ss, s)[i]
  OBVIOUS

\* A chunk added at the end ...
LEMMA FlattenAppend ==
    ASSUME NEW X, NEW ss \in Seq(Seq(X)), NEW s \in Seq(X)
    PROVE  FlattenSeq(Append(ss, s)) = FlattenSeq(ss) \o s
<1> DEFINE Y == Seq(X)
           tt == Append(ss, s)
<1>1. tt \in Seq(Seq(X)) /\ tt # <<>> /\ Len(tt) = Len(ss) + 1
      /\ tt[Len(ss) + 1] = s /\ \A i \in 1..Len(ss) : ss[i] = tt[i]
  <2>1. ss \in Seq(Y) /\ s \in Y
    OBVIOUS
  <2> HIDE DEF Y
  <2>2. tt \in Seq(Y) /\ tt # <<>> /\ Len(tt) = Len(ss) + 1
        /\ tt[Len(ss) + 1] = s /\ \A i \in 1..Len(ss) : ss[i] = tt[i]
    BY <2>1, AppendFacts, SMTT(30)
  <2> QED  BY <2>2, Zenon DEF Y
<1>2. CASE ss = <<>>
  <2>1. Append(<<>>, s) = <<s>> /\ <<>> \o s = s
    OBVIOUS
  <2> QED  BY <1>2, <2>1, FlattenOne, FlattenEmpty
<1>3. CASE ss # <<>>
  <2>1. PICK f : Sums(f, ss, Len(ss)) /\ FlattenSeq(ss) = f[Len(ss)]
    BY <1>3, FlattenIsSum
  <2> HIDE DEF tt
  <2>2. PICK g : Sums(g, tt, Len(tt)) /\ FlattenSeq(tt) = g[Len(tt)]
    BY <1>1, FlattenIsSum
  <2>3. Len(ss) \in Nat /\ Len(tt) \in Nat /\ Len(ss) <= Len(tt) /\ Len(ss) <= Len(ss)
        /\ Len(ss) \in 1..Len(ss)
    BY <1>1, <1>3
  <2>4. \A i \in 1..Len(ss) : f[i] = g[i]
    <3>1. Sums(f, ss, Len(ss)) /\ Sums(g, tt, Len(ss) + 1) /\ \A i \in 1..Len(ss) : ss[i] = tt[i]
      BY <1>1, <2>1, <2>2
    <3> QED  BY <2>3, <3>1, SumsAgree
  <2>5. g[Len(tt)] = g[Len(ss)] \o tt[Len(tt)]
    <3>1. Len(tt) \in 1..Len(tt) /\ Len(tt) # 1 /\ Len(tt) - 1 = Len(ss)
      BY <1>1, <2>3
    <3> QED  BY <2>2, <3>1 DEF Sums
  <2>6. f[Len(ss)] = g[Len(ss)]
    BY <2>3, <2>4
  <2>7. FlattenSeq(tt) = FlattenSeq(ss) \o s
    BY <1>1, <2>1, <2>2, <2>5, <2>6
  <2> QED  BY <2>7 DEF tt
<1> QED  BY <1>2, <1>3

LEMMA FlattenType ==
    ASSUME NEW X, NEW ss \in Seq(Seq(X))
    PROVE  FlattenSeq(ss) \in Seq(X)
<1> DEFINE S == {n \in Nat : \A tt \in Seq(Seq(X)) : Len(tt) = n => FlattenSeq(tt) \in Seq(X)}
<1>1. ASSUME NEW n \in Nat, \A k \in Nat : k < n => k \in S
      PROVE  n \in S
  <2>1. SUFFICES ASSUME NEW tt \in Seq(Seq(X)), Len(tt) = n  PROVE  FlattenSeq(tt) \in Seq(X)
    OBVIOUS
  <2>2. CASE tt = <<>>
    <3>1. <<>> \in Seq(X)
      OBVIOUS
    <3> QED  BY <2>2, <3>1, FlattenEmpty, Zenon
  <2>3. CASE tt # <<>>
    <3>1. PICK r \in Seq(Seq(X)), e \in Seq(X) : tt = Append(r, e)
      BY <2>3, SequenceEmptyOrAppend, Zenon
    <3>2. Len(r) \in Nat /\ Len(r) < n
      BY <2>1, <3>1
    <3>3. Len(r) \in S
      BY <1>1, <3>2, Zenon
    <3>4. FlattenSeq(r) \in Seq(X)
      BY <3>3
    <3>5. FlattenSeq(tt) = FlattenSeq(r) \o e
      BY <3>1, FlattenAppend
    <3> QED  BY <3>4, <3>5
  <2> QED  BY <2>2, <2>3
<1>2. \A n \in Nat : n \in S
  <2> HIDE DEF S
  <2> QED  BY <1>1, AllNumbers
<1>3. Len(ss) \in S
  <2>1. Len(ss) \in Nat
    OBVIOUS
  <2> QED  BY <1>2, <2>1
<1> QED  BY <1>3

LEMMA Associative ==
    ASSUME NEW X
    PROVE  \A s, t, u \in Seq(X) : (s \o t) \o u = s \o (t \o u)
  BY ConcatAssociative, SMT

\* ... and the first chunk taken away.
LEMMA FlattenHead ==
    ASSUME NEW X, NEW ss \in Seq(Seq(X)), ss # <<>>
    PROVE  FlattenSeq(ss) = Head(ss) \o FlattenSeq(Tail(ss))
<1> DEFINE P(tt) == FlattenSeq(tt) = Head(tt) \o FlattenSeq(Tail(tt))
           S == {n \in Nat : \A tt \in Seq(Seq(X)) : Len(tt) = n /\ tt # <<>> => P(tt)}
<1>1. ASSUME NEW n \in Nat, \A k \in Nat : k < n => k \in S
      PROVE  n \in S
  <2>1. SUFFICES ASSUME NEW tt \in Seq(Seq(X)), Len(tt) = n, tt # <<>>  PROVE  P(tt)
    OBVIOUS
  <2>2. PICK r \in Seq(Seq(X)), e \in Seq(X) : tt = Append(r, e)
    BY <2>1, SequenceEmptyOrAppend, Zenon
  <2>3. FlattenSeq(tt) = FlattenSeq(r) \o e
    BY <2>2, FlattenAppend
  <2>4. CASE r = <<>>
    <3>1. FlattenSeq(tt) = e
      <4>1. <<>> \o e = e
        OBVIOUS
      <4> QED  BY <2>3, <2>4, <4>1, FlattenEmpty
    <3>2. Head(tt) = e /\ Tail(tt) = <<>>
      BY <2>2, <2>4
    <3>3. e \o <<>> = e
      OBVIOUS
    <3> QED  BY <3>1, <3>2, <3>3, FlattenEmpty
  <2>5. CASE r # <<>>
    <3>1. Len(r) \in Nat /\ Len(r) < n
      BY <2>1, <2>2
    <3>2. Len(r) \in S
      BY <1>1, <3>1, Zenon
    <3>3. FlattenSeq(r) = Head(r) \o FlattenSeq(Tail(r))
      BY <2>5, <3>2
    <3>4. Head(r) \in Seq(X) /\ Tail(r) \in Seq(Seq(X))
      BY <2>5, HeadTailProperties, Zenon
    <3>5. Head(tt) = Head(r) /\ Tail(tt) = Append(Tail(r), e)
      BY <2>2, <2>5, HeadTailAppend
    <3>6. FlattenSeq(Tail(tt)) = FlattenSeq(Tail(r)) \o e
      BY <3>4, <3>5, FlattenAppend
    <3>7. FlattenSeq(Tail(r)) \in Seq(X)
      BY <3>4, FlattenType
    <3>8. (Head(r) \o FlattenSeq(Tail(r))) \o e = Head(r) \o (FlattenSeq(Tail(r)) \o e)
      <4>1. \A s, t, u \in Seq(X) : (s \o t) \o u = s \o (t \o u)
        BY Associative, SMTT(30)
      <4> QED  BY <3>4, <3>7, <4>1, Zenon
    <3> QED  BY <2>3, <3>3, <3>5, <3>6, <3>8
  <2> QED  BY <2>4, <2>5
<1>2. \A n \in Nat : n \in S
  <2> HIDE DEF S
  <2> QED  BY <1>1, AllNumbers
<1>3. Len(ss) \in S
  <2>1. Len(ss) \in Nat
    OBVIOUS
  <2> QED  BY <1>2, <2>1
<1> QED  BY <1>3

-----------------------------------------------------------------------------
(* Frames *)

\* Messages as they are written.
Messages == {m \in [id : 1..MaxMessages, data : Seq(Nat)] : Len(m.data) <= MaxBody}

Frames(ms) == [i \in 1..Len(ms) |-> Bytes(ms[i])]

\* The bytes of a sequence of messages.
Stream(ms) == FlattenSeq(Frames(ms))

LEMMA MessageFacts ==
    ASSUME NEW n \in 1..MaxMessages, NEW size \in 0..MaxBody
    PROVE  Message(n, size) \in Messages /\ Len(Message(n, size).data) = size
<1> DEFINE d == [i \in 1..size |-> n * (MaxBody + 1) + i]
<1>1. n * (MaxBody + 1) \in Nat
  BY StreamBounds
<1>2. d \in Seq(Nat) /\ Len(d) = size
  BY <1>1
<1>3. Message(n, size) = [id |-> n, data |-> d]
  BY DEF Message
<1> HIDE DEF d
<1> QED  BY <1>2, <1>3, StreamBounds DEF Messages

LEMMA HeaderFacts ==
    ASSUME NEW m \in Messages
    PROVE  /\ Header(m) \in Seq(Nat) /\ Len(Header(m)) = HeaderLength
           /\ Header(m)[1] = m.id /\ Header(m)[HeaderLength] = Len(m.data)
<1>1. m.id \in Nat /\ Len(m.data) \in Nat
  BY DEF Messages
<1> QED  BY <1>1, StreamBounds DEF Header

LEMMA ConcatType ==
    \A s, t \in Seq(Nat) : s \o t \in Seq(Nat) /\ Len(s \o t) = Len(s) + Len(t)
  OBVIOUS

LEMMA BytesFacts ==
    ASSUME NEW m \in Messages
    PROVE  Bytes(m) \in Seq(Nat) /\ Len(Bytes(m)) = HeaderLength + Len(m.data)
<1>1. m.data \in Seq(Nat)
  BY DEF Messages
<1>2. Header(m) \in Seq(Nat) /\ Len(Header(m)) = HeaderLength
  BY HeaderFacts, Zenon
<1> QED  BY <1>1, <1>2, ConcatType, Zenon DEF Bytes

LEMMA FramesType ==
    ASSUME NEW ms \in Seq(Messages)
    PROVE  Frames(ms) \in Seq(Seq(Nat))
<1>1. ASSUME NEW i \in 1..Len(ms) PROVE Bytes(ms[i]) \in Seq(Nat)
  <2>1. ms[i] \in Messages
    OBVIOUS
  <2> QED  BY <2>1, BytesFacts
<1> QED  BY <1>1 DEF Frames

LEMMA FramesAppend ==
    ASSUME NEW ms \in Seq(Messages), NEW m \in Messages
    PROVE  Frames(Append(ms, m)) = Append(Frames(ms), Bytes(m))
<1> DEFINE ns == Append(ms, m)
<1>1. ns \in Seq(Messages) /\ Len(ns) = Len(ms) + 1 /\ ns[Len(ms) + 1] = m
      /\ (\A i \in 1..Len(ms) : ms[i] = ns[i])
  OBVIOUS
<1>2. Frames(ms) \in Seq(Seq(Nat)) /\ Bytes(m) \in Seq(Nat)
  BY FramesType, BytesFacts
<1>3. Len(Frames(ms)) = Len(ms) /\ \A i \in 1..Len(ms) : Frames(ms)[i] = Bytes(ms[i])
  BY DEF Frames
<1> HIDE DEF ns
<1>4. Frames(ns) \in Seq(Seq(Nat)) /\ Len(Frames(ns)) = Len(ns)
      /\ \A i \in 1..Len(ns) : Frames(ns)[i] = Bytes(ns[i])
  <2>1. Frames(ns) \in Seq(Seq(Nat))
    BY <1>1, FramesType
  <2> QED  BY <1>1, <2>1 DEF Frames
<1> DEFINE fs == Append(Frames(ms), Bytes(m))
<1>5. fs \in Seq(Seq(Nat)) /\ Len(fs) = Len(Frames(ms)) + 1 /\ fs[Len(Frames(ms)) + 1] = Bytes(m)
      /\ \A i \in 1..Len(Frames(ms)) : Frames(ms)[i] = fs[i]
  BY <1>2, AppendFacts
<1> HIDE DEF fs
<1>6. ASSUME NEW i \in 1..Len(ns) PROVE Frames(ns)[i] = fs[i]
  <2>1. CASE i \in 1..Len(ms)
    BY <1>1, <1>3, <1>4, <1>5, <2>1
  <2>2. CASE i = Len(ms) + 1
    BY <1>1, <1>3, <1>4, <1>5, <2>2
  <2> QED  BY <1>1, <2>1, <2>2
<1>7. Len(Frames(ns)) = Len(fs)
  BY <1>1, <1>3, <1>4, <1>5
<1>8. Frames(ns) = fs
  BY <1>4, <1>5, <1>6, <1>7, SeqEqual
<1> QED  BY <1>8 DEF ns, fs

LEMMA FramesHead ==
    ASSUME NEW ms \in Seq(Messages), ms # <<>>
    PROVE  /\ Frames(ms) # <<>>
           /\ Head(Frames(ms)) = Bytes(Head(ms))
           /\ Tail(Frames(ms)) = Frames(Tail(ms))
<1>1. Frames(ms) \in Seq(Seq(Nat)) /\ Len(Frames(ms)) = Len(ms)
      /\ \A i \in 1..Len(ms) : Frames(ms)[i] = Bytes(ms[i])
  <2>1. Frames(ms) \in Seq(Seq(Nat))
    BY FramesType
  <2> QED  BY <2>1 DEF Frames
<1>2. Len(ms) \in Nat /\ Len(ms) >= 1 /\ Head(ms) = ms[1]
  OBVIOUS
<1>3. Tail(ms) \in Seq(Messages) /\ Len(Tail(ms)) = Len(ms) - 1
      /\ \A i \in 1..Len(Tail(ms)) : Tail(ms)[i] = ms[i + 1]
  BY HeadTailProperties
<1>4. Frames(Tail(ms)) \in Seq(Seq(Nat)) /\ Len(Frames(Tail(ms))) = Len(Tail(ms))
      /\ \A i \in 1..Len(Tail(ms)) : Frames(Tail(ms))[i] = Bytes(Tail(ms)[i])
  <2>1. Frames(Tail(ms)) \in Seq(Seq(Nat))
    BY <1>3, FramesType
  <2> QED  BY <1>3, <2>1 DEF Frames
<1>5. Frames(ms) # <<>> /\ Head(Frames(ms)) = Frames(ms)[1]
  <2>1. Len(Frames(ms)) # 0
    BY <1>1, <1>2
  <2> QED  BY <2>1
<1>6. Tail(Frames(ms)) \in Seq(Seq(Nat)) /\ Len(Tail(Frames(ms))) = Len(Frames(ms)) - 1
      /\ \A i \in 1..Len(Tail(Frames(ms))) : Tail(Frames(ms))[i] = Frames(ms)[i + 1]
  BY <1>1, <1>5, HeadTailProperties, Zenon
<1>7. ASSUME NEW i \in 1..Len(Tail(ms)) PROVE Tail(Frames(ms))[i] = Frames(Tail(ms))[i]
  <2>1. i + 1 \in 1..Len(ms) /\ i \in 1..Len(Tail(Frames(ms)))
    BY <1>1, <1>2, <1>3, <1>6
  <2> QED  BY <1>1, <1>3, <1>4, <1>6, <2>1, Zenon
<1>8. Len(Tail(Frames(ms))) = Len(Frames(Tail(ms)))
  BY <1>1, <1>3, <1>4, <1>6
<1>9. Tail(Frames(ms)) = Frames(Tail(ms))
  <2>1. \A i \in 1..Len(Tail(Frames(ms))) : Tail(Frames(ms))[i] = Frames(Tail(ms))[i]
    BY <1>4, <1>7, <1>8
  <2> QED  BY <1>4, <1>6, <1>8, <2>1, SeqEqual, Zenon
<1>10. Head(Frames(ms)) = Bytes(Head(ms))
  BY <1>1, <1>2, <1>5
<1> QED  BY <1>5, <1>9, <1>10

LEMMA StreamEmpty == Stream(<<>>) = <<>>
<1>1. Frames(<<>>) = <<>>
  BY DEF Frames
<1> QED  BY <1>1, FlattenEmpty DEF Stream

LEMMA StreamType ==
    ASSUME NEW ms \in Seq(Messages)
    PROVE  Stream(ms) \in Seq(Nat)
  BY FramesType, FlattenType DEF Stream

LEMMA StreamAppend ==
    ASSUME NEW ms \in Seq(Messages), NEW m \in Messages
    PROVE  Stream(Append(ms, m)) = Stream(ms) \o Bytes(m)
  BY FramesType, FramesAppend, BytesFacts, FlattenAppend DEF Stream

LEMMA StreamHead ==
    ASSUME NEW ms \in Seq(Messages), ms # <<>>
    PROVE  Stream(ms) = Bytes(Head(ms)) \o Stream(Tail(ms))
  BY FramesType, FramesHead, FlattenHead DEF Stream

LEMMA ConcatSecond ==
    ASSUME NEW a \in Seq(Nat), NEW b \in Seq(Nat), NEW i \in 1..Len(b)
    PROVE  (a \o b)[Len(a) + i] = b[i]
<1>1. Len(a) \in Nat /\ Len(b) \in Nat
  OBVIOUS
<1>2. Len(a) + i \in 1..(Len(a) + Len(b)) /\ ~(Len(a) + i <= Len(a)) /\ Len(a) + i - Len(a) = i
  BY <1>1
<1> QED  BY <1>2, ConcatProperties, SMT

\* Where two parts meet is known from the length of the first.
LEMMA SplitConcat ==
    ASSUME NEW a \in Seq(Nat), NEW b \in Seq(Nat), NEW c \in Seq(Nat), NEW d \in Seq(Nat),
           a \o b = c \o d, Len(a) = Len(c)
    PROVE  a = c /\ b = d
<1> DEFINE l == Len(a)
<1>1. l \in Nat /\ Len(b) \in Nat /\ Len(d) \in Nat
  OBVIOUS
<1>2. /\ Len(a \o b) = l + Len(b)
      /\ \A i \in 1..(l + Len(b)) : (a \o b)[i] = IF i <= l THEN a[i] ELSE b[i - l]
  BY ConcatProperties
<1>3. /\ Len(c \o d) = l + Len(d)
      /\ \A i \in 1..(l + Len(d)) : (c \o d)[i] = IF i <= l THEN c[i] ELSE d[i - l]
  BY ConcatProperties
<1>4. Len(b) = Len(d)
  BY <1>1, <1>2, <1>3
<1> HIDE DEF l
<1>5. ASSUME NEW i \in 1..l PROVE a[i] = c[i]
  <2>1. i \in 1..(l + Len(b)) /\ i <= l
    BY <1>1
  <2> QED  BY <1>2, <1>3, <1>4, <2>1
<1>6. ASSUME NEW i \in 1..Len(b) PROVE b[i] = d[i]
  <2>1. (a \o b)[Len(a) + i] = b[i]
    BY ConcatSecond, Zenon
  <2>2. i \in 1..Len(d)
    BY <1>4
  <2>3. (c \o d)[Len(c) + i] = d[i]
    BY <2>2, ConcatSecond, Zenon
  <2> QED  BY <2>1, <2>3, Zenon
<1>7. a = c
  BY <1>5, SeqEqual DEF l
<1>8. b = d
  BY <1>4, <1>6, SeqEqual
<1> QED  BY <1>7, <1>8

\* A sequence cut in two.
LEMMA Cut ==
    ASSUME NEW s \in Seq(Nat), NEW n \in 0..Len(s)
    PROVE  /\ SubSeq(s, 1, n) \in Seq(Nat) /\ Len(SubSeq(s, 1, n)) = n
           /\ SubSeq(s, n + 1, Len(s)) \in Seq(Nat) /\ Len(SubSeq(s, n + 1, Len(s))) = Len(s) - n
           /\ SubSeq(s, 1, n) \o SubSeq(s, n + 1, Len(s)) = s
<1>1. Len(s) \in Nat /\ n \in Nat /\ n <= Len(s)
  OBVIOUS
<1>2. SubSeq(s, 1, n) \in Seq(Nat) /\ Len(SubSeq(s, 1, n)) = n
  <2>1. \A i \in 1..n : s[i] \in Nat
    BY <1>1
  <2> QED  BY <1>1, <2>1, SubSeqProperties
<1>3. SubSeq(s, n + 1, Len(s)) \in Seq(Nat) /\ Len(SubSeq(s, n + 1, Len(s))) = Len(s) - n
  <2>1. \A i \in (n + 1)..Len(s) : s[i] \in Nat
    BY <1>1
  <2> QED  BY <1>1, <2>1, SubSeqProperties
<1>4. SubSeq(s, 1, n) \o SubSeq(s, n + 1, Len(s)) = SubSeq(s, 1, Len(s))
  <2>1. 1 \in 1..(Len(s) + 1) /\ n \in (1 - 1)..Len(s) /\ Len(s) \in n..Len(s)
    BY <1>1
  <2> QED  BY <2>1, ConcatAdjacentSubSeq
<1>5. SubSeq(s, 1, Len(s)) = s
  BY SubSeqFull
<1> QED  BY <1>2, <1>3, <1>4, <1>5, Zenon

LEMMA ConcatAssoc == \A s, t, u \in Seq(Nat) : (s \o t) \o u = s \o (t \o u)
  BY Associative, SMTT(30)

LEMMA ConcatFour ==
    ASSUME NEW a \in Seq(Nat), NEW b \in Seq(Nat), NEW c \in Seq(Nat), NEW d \in Seq(Nat)
    PROVE  ((a \o b) \o c) \o d = a \o (b \o (c \o d))
<1> DEFINE ab == a \o b
           cd == c \o d
<1>1. ab \in Seq(Nat) /\ cd \in Seq(Nat)
  BY ConcatType, Zenon
<1>2. a \o (b \o cd) = ab \o cd
  <2> HIDE DEF cd
  <2> QED  BY <1>1, ConcatAssoc, Zenon
<1>3. (ab \o c) \o d = ab \o cd
  <2> HIDE DEF ab
  <2> QED  BY <1>1, ConcatAssoc, Zenon
<1> QED  BY <1>2, <1>3, Zenon

LEMMA ConcatEmpty == \A s \in Seq(Nat) : s \o <<>> = s /\ <<>> \o s = s
  OBVIOUS

LEMMA DropFirst ==
    ASSUME NEW a \in Seq(Nat), NEW b \in Seq(Nat)
    PROVE  SubSeq(a \o b, Len(a) + 1, Len(a \o b)) = b
<1> DEFINE s == a \o b
           first == SubSeq(s, 1, Len(a))
           second == SubSeq(s, Len(a) + 1, Len(s))
<1>1. s \in Seq(Nat) /\ Len(s) = Len(a) + Len(b) /\ Len(a) \in Nat /\ Len(b) \in Nat
  BY ConcatType
<1> HIDE DEF s
<1>2. Len(a) \in 0..Len(s)
  BY <1>1
<1>3. first \in Seq(Nat) /\ Len(first) = Len(a) /\ second \in Seq(Nat) /\ first \o second = s
  BY <1>1, <1>2, Cut, Zenon
<1> HIDE DEF first, second
<1>4. second = b
  <2>1. first \o second = a \o b
    BY <1>3 DEF s
  <2> QED  BY <1>3, <2>1, SplitConcat, Zenon
<1> QED  BY <1>4 DEF second, s

-----------------------------------------------------------------------------
(* The invariant *)

\* The messages still to be reported.
Unread == SubSeq(sent, Len(received) + 1, Len(sent))

\* The bytes that a running _read has taken from the chunks.
Taken == IF running \in {"read", "readEntire"} THEN result ELSE <<>>

\* The bytes that the reader has still to see.
Pending ==
    IF state.readHead THEN Stream(Unread)
                      ELSE Head(Unread).data \o Stream(Tail(Unread))

Types ==
    /\ data \in Seq(Nat) /\ socket \in Seq(Nat) /\ result \in Seq(Nat)
    /\ chunks \in Seq(Seq(Nat) \ {<<>>})
    /\ byteCount \in Nat /\ totalLength \in Nat /\ running \in Loops
    /\ handedOver \in BOOLEAN /\ writeTimeout \in BOOLEAN /\ isPaused \in BOOLEAN
    /\ sent \in Seq(Messages) /\ Len(sent) <= MaxMessages
    /\ received \in Seq(Messages)
    /\ state \in [readHead : BOOLEAN, readLen : 0..(HeaderLength + MaxBody), id : 0..MaxMessages]

Reported ==
    /\ Len(received) <= Len(sent)
    /\ \A i \in 1..Len(received) : received[i] = sent[i]

Conserved ==
    /\ totalLength = Len(FlattenSeq(chunks))
    /\ Taken \o (FlattenSeq(chunks) \o (socket \o data)) = Pending

\* The reader knows which bytes come next.
InPlace ==
    /\ state.readHead => state.readLen = HeaderLength
    /\ ~state.readHead =>
          /\ Unread # <<>>
          /\ state.readLen = Len(Head(Unread).data)
          /\ state.id = Head(Unread).id

\* What the loops have done and have to do.  A read never asks for more than
\* there is.
Progress ==
    /\ running = "read" => byteCount + Len(result) = state.readLen /\ byteCount <= totalLength
    /\ running = "readEntire" => byteCount = totalLength /\ state.readHead
    /\ running = "none" => totalLength < state.readLen

\* The writer's timer will run.
Scheduled == data # <<>> /\ ~isPaused => writeTimeout

\* Before the hand-over only keep-alives follow the request.
OnlyKeepAlives == ~handedOver => \A i \in 2..Len(sent) : sent[i].data = <<>>

Inv == Types /\ Reported /\ Conserved /\ InPlace /\ Progress /\ Scheduled /\ OnlyKeepAlives

-----------------------------------------------------------------------------
(* Facts about the parts of the state *)

LEMMA ChunksType ==
    ASSUME NEW cs \in Seq(Seq(Nat) \ {<<>>})
    PROVE  cs \in Seq(Seq(Nat)) /\ FlattenSeq(cs) \in Seq(Nat)
<1>1. Seq(Nat) \ {<<>>} \subseteq Seq(Nat)
  OBVIOUS
<1>2. cs \in Seq(Seq(Nat))
  BY <1>1, SeqMonotonic, Zenon
<1> QED  BY <1>2, FlattenType

LEMMA RestFacts ==
    ASSUME NEW ss \in Seq(Messages), NEW n \in Nat, n <= Len(ss)
    PROVE  LET rest == SubSeq(ss, n + 1, Len(ss))
           IN  /\ rest \in Seq(Messages)
               /\ Len(rest) = Len(ss) - n
               /\ n < Len(ss) =>
                     /\ rest # <<>>
                     /\ Head(rest) = ss[n + 1] /\ Head(rest) \in Messages
                     /\ Tail(rest) = SubSeq(ss, n + 1 + 1, Len(ss)) /\ Tail(rest) \in Seq(Messages)
               /\ rest # <<>> => n < Len(ss)
<1> DEFINE rest == SubSeq(ss, n + 1, Len(ss))
<1>1. rest \in Seq(Messages) /\ Len(rest) = Len(ss) - n
  BY SubSeqProperties
<1>2. ASSUME n < Len(ss)
      PROVE  /\ rest # <<>>
             /\ Head(rest) = ss[n + 1] /\ Head(rest) \in Messages
             /\ Tail(rest) = SubSeq(ss, n + 1 + 1, Len(ss)) /\ Tail(rest) \in Seq(Messages)
  <2>1. n + 1 \in 1..Len(ss) /\ Len(ss) \in (n + 1)..Len(ss)
    BY <1>2
  <2>2. Head(rest) = ss[n + 1] /\ Tail(rest) = SubSeq(ss, n + 1 + 1, Len(ss))
    BY <2>1, HeadTailOfSubSeq
  <2>3. Len(rest) # 0
    BY <1>1, <1>2
  <2>4. rest # <<>>
    <3> HIDE DEF rest
    <3> QED  BY <1>1, <2>3
  <2>5. Head(rest) \in Messages /\ Tail(rest) \in Seq(Messages)
    BY <1>1, <2>4, HeadTailProperties
  <2> QED  BY <2>2, <2>4, <2>5
<1>3. ASSUME rest # <<>> PROVE n < Len(ss)
  <2>1. Len(rest) # 0
    BY <1>1, <1>3
  <2> QED  BY <1>1, <2>1
<1> QED  BY <1>1, <1>2, <1>3

LEMMA RestAppend ==
    ASSUME NEW ss \in Seq(Messages), NEW n \in Nat, n <= Len(ss), NEW m \in Messages
    PROVE  SubSeq(Append(ss, m), n + 1, Len(Append(ss, m))) = Append(SubSeq(ss, n + 1, Len(ss)), m)
<1> DEFINE tt == Append(ss, m)
           u == SubSeq(tt, n + 1, Len(tt))
           r == SubSeq(ss, n + 1, Len(ss))
           v == Append(r, m)
<1>1. tt \in Seq(Messages) /\ Len(tt) = Len(ss) + 1 /\ tt[Len(ss) + 1] = m
      /\ \A i \in 1..Len(ss) : ss[i] = tt[i]
  OBVIOUS
<1>2. r \in Seq(Messages) /\ Len(r) = Len(ss) - n /\ \A i \in 1..(Len(ss) - n) : r[i] = ss[n + i]
  OBVIOUS
<1> HIDE DEF tt
<1>3. u \in Seq(Messages) /\ Len(u) = Len(tt) - n /\ \A i \in 1..(Len(tt) - n) : u[i] = tt[n + i]
  BY <1>1
<1> HIDE DEF u, r
<1>4. v \in Seq(Messages) /\ Len(v) = Len(r) + 1 /\ v[Len(r) + 1] = m
      /\ \A i \in 1..Len(r) : r[i] = v[i]
  BY <1>2
<1> HIDE DEF v
<1>5. ASSUME NEW i \in 1..Len(u) PROVE u[i] = v[i]
  <2>1. u[i] = tt[n + i]
    BY <1>3
  <2>2. CASE i = Len(r) + 1
    BY <1>1, <1>2, <1>4, <2>1, <2>2
  <2>3. CASE i \in 1..Len(r)
    BY <1>1, <1>2, <1>4, <2>1, <2>3
  <2> QED  BY <1>1, <1>2, <1>3, <2>2, <2>3
<1>6. Len(u) = Len(v)
  BY <1>1, <1>2, <1>3, <1>4
<1>7. u = v
  BY <1>3, <1>4, <1>5, <1>6, SeqEqual
<1> QED  BY <1>7 DEF u, v, r, tt

LEMMA UnreadFacts ==
    ASSUME Types, Reported
    PROVE  /\ Len(received) \in Nat /\ Len(sent) \in Nat
           /\ Unread \in Seq(Messages)
           /\ Len(Unread) = Len(sent) - Len(received)
           /\ Len(received) < Len(sent) <=> Unread # <<>>
           /\ Unread # <<>> =>
                 /\ Head(Unread) = sent[Len(received) + 1] /\ Head(Unread) \in Messages
                 /\ Tail(Unread) = SubSeq(sent, Len(received) + 1 + 1, Len(sent))
                 /\ Tail(Unread) \in Seq(Messages)
<1>1. sent \in Seq(Messages) /\ Len(received) \in Nat /\ Len(sent) \in Nat /\ Len(received) <= Len(sent)
  BY DEF Types, Reported
<1> QED  BY <1>1, RestFacts DEF Unread

LEMMA PendingType ==
    ASSUME Types, Reported, InPlace
    PROVE  Pending \in Seq(Nat)
<1>1. CASE state.readHead
  BY <1>1, UnreadFacts, StreamType DEF Pending
<1>2. CASE ~state.readHead
  <2>1. Unread # <<>>
    BY <1>2 DEF InPlace
  <2>2. Head(Unread) \in Messages /\ Tail(Unread) \in Seq(Messages)
    BY <2>1, UnreadFacts
  <2>3. Head(Unread).data \in Seq(Nat) /\ Stream(Tail(Unread)) \in Seq(Nat)
    BY <2>2, StreamType DEF Messages
  <2>4. Head(Unread).data \o Stream(Tail(Unread)) \in Seq(Nat)
    BY <2>3
  <2> QED  BY <1>2, <2>4 DEF Pending
<1> QED  BY <1>1, <1>2

LEMMA TakenType ==
    ASSUME Types
    PROVE  Taken \in Seq(Nat)
  BY DEF Types, Taken

LEMMA SamePending ==
    ASSUME UNCHANGED <<sent, received, state>>
    PROVE  Unread' = Unread /\ Pending' = Pending
<1>1. Unread' = Unread
  BY DEF Unread
<1> QED  BY <1>1 DEF Pending

LEMMA SameReader ==
    ASSUME UNCHANGED <<chunks, totalLength, state, running, byteCount, result, sent, received>>,
           InPlace, Progress
    PROVE  InPlace' /\ Progress' /\ Taken' = Taken
<1>1. Unread' = Unread
  BY SamePending
<1> QED  BY <1>1 DEF InPlace, Progress, Taken

-----------------------------------------------------------------------------
(* The initial state and the writer *)

LEMMA InitHolds == ASSUME Init PROVE Inv
<1>1. Types
  <2>1. 0 \in 0..MaxMessages /\ HeaderLength \in 0..(HeaderLength + MaxBody)
    BY StreamBounds
  <2>2. state \in [readHead : BOOLEAN, readLen : 0..(HeaderLength + MaxBody), id : 0..MaxMessages]
    BY <2>1 DEF Init, HeaderState
  <2>3. <<>> \in Seq(Nat) /\ <<>> \in Seq(Messages) /\ <<>> \in Seq(Seq(Nat) \ {<<>>})
    BY EmptySeq, Zenon
  <2>4. Len(sent) <= MaxMessages
    BY StreamBounds DEF Init
  <2>5. byteCount \in Nat /\ totalLength \in Nat /\ running \in Loops
    BY DEF Init, Loops
  <2> QED  BY <2>2, <2>3, <2>4, <2>5, Zenon DEF Init, Types
<1>2. Unread = <<>>
  BY DEF Init, Unread
<1>3. Pending = <<>>
  BY <1>2, StreamEmpty DEF Init, Pending, HeaderState
<1>4. Conserved
  <2>1. FlattenSeq(chunks) = <<>>
    BY FlattenEmpty DEF Init
  <2>2. Taken = <<>> /\ socket = <<>> /\ data = <<>> /\ totalLength = 0
    BY DEF Init, Taken
  <2> QED  BY <1>3, <2>1, <2>2 DEF Conserved
<1>5. Reported /\ InPlace /\ Progress /\ Scheduled /\ OnlyKeepAlives
  BY StreamBounds DEF Init, Reported, InPlace, Progress, Scheduled, OnlyKeepAlives, HeaderState
<1> QED  BY <1>1, <1>4, <1>5 DEF Inv

LEMMA PauseStep == ASSUME Inv, Pause PROVE Inv'
<1>1. UNCHANGED <<data, writeTimeout, socket, chunks, totalLength, state, running, byteCount,
                  result, handedOver, sent, received>> /\ isPaused' = TRUE
  BY DEF Pause, reader
<1>2. Types' /\ Reported' /\ Scheduled' /\ OnlyKeepAlives'
  BY <1>1 DEF Inv, Types, Reported, Scheduled, OnlyKeepAlives
<1>3. InPlace' /\ Progress' /\ Taken' = Taken /\ Pending' = Pending
  BY <1>1, SameReader, SamePending DEF Inv
<1>4. Conserved'
  BY <1>1, <1>3 DEF Inv, Conserved
<1> QED  BY <1>2, <1>3, <1>4 DEF Inv

LEMMA ResumeStep == ASSUME Inv, Resume PROVE Inv'
<1>1. UNCHANGED <<data, socket, chunks, totalLength, state, running, byteCount,
                  result, handedOver, sent, received>> /\ isPaused' = FALSE /\ writeTimeout' = TRUE
  BY DEF Resume, reader
<1>2. Types' /\ Reported' /\ Scheduled' /\ OnlyKeepAlives'
  BY <1>1 DEF Inv, Types, Reported, Scheduled, OnlyKeepAlives
<1>3. InPlace' /\ Progress' /\ Taken' = Taken /\ Pending' = Pending
  BY <1>1, SameReader, SamePending DEF Inv
<1>4. Conserved'
  BY <1>1, <1>3 DEF Inv, Conserved
<1> QED  BY <1>2, <1>3, <1>4 DEF Inv

LEMMA WriteNowStep == ASSUME Inv, WriteNow PROVE Inv'
<1>1. UNCHANGED <<isPaused, chunks, totalLength, state, running, byteCount,
                  result, handedOver, sent, received>> /\ writeTimeout' = FALSE
  BY DEF WriteNow, reader
<1>2. data \in Seq(Nat) /\ socket \in Seq(Nat)
  BY DEF Inv, Types
<1>3. (isPaused /\ data' = data /\ socket' = socket) \/ (data' = <<>> /\ socket' = socket \o data)
  BY DEF WriteNow
<1>4. data' \in Seq(Nat) /\ socket' \in Seq(Nat) /\ socket' \o data' = socket \o data
  <2>1. socket \o data \in Seq(Nat) /\ (socket \o data) \o <<>> = socket \o data
    BY <1>2, ConcatType, ConcatEmpty
  <2>2. <<>> \in Seq(Nat)
    OBVIOUS
  <2> QED  BY <1>2, <1>3, <2>1, <2>2, Zenon
<1>5. Types' /\ Reported' /\ Scheduled' /\ OnlyKeepAlives'
  BY <1>1, <1>3, <1>4 DEF Inv, Types, Reported, Scheduled, OnlyKeepAlives
<1>6. InPlace' /\ Progress' /\ Taken' = Taken /\ Pending' = Pending
  BY <1>1, SameReader, SamePending DEF Inv
<1>7. Conserved'
  BY <1>1, <1>4, <1>6 DEF Inv, Conserved
<1> QED  BY <1>5, <1>6, <1>7 DEF Inv

LEMMA FlushStep == ASSUME Inv, Flush PROVE Inv'
<1>1. /\ UNCHANGED <<writeTimeout, isPaused, chunks, totalLength, state, running, byteCount,
                     result, handedOver, sent, received>>
      /\ data' = <<>> /\ socket' = socket \o data
  BY DEF Flush, reader
<1>2. data' \in Seq(Nat) /\ socket' \in Seq(Nat) /\ socket' \o data' = socket \o data
  BY <1>1, ConcatType, ConcatEmpty DEF Inv, Types
<1>3. Types' /\ Reported' /\ Scheduled' /\ OnlyKeepAlives'
  BY <1>1, <1>2 DEF Inv, Types, Reported, Scheduled, OnlyKeepAlives
<1>4. InPlace' /\ Progress' /\ Taken' = Taken /\ Pending' = Pending
  BY <1>1, SameReader, SamePending DEF Inv
<1>5. Conserved'
  BY <1>1, <1>2, <1>4 DEF Inv, Conserved
<1> QED  BY <1>3, <1>4, <1>5 DEF Inv

LEMMA WriteStep ==
    ASSUME Inv, NEW size \in 0..MaxBody, Write(size)
    PROVE  Inv'
<1> DEFINE m == Message(Len(sent) + 1, size)
<1>1. /\ UNCHANGED <<isPaused, socket, chunks, totalLength, state, running, byteCount,
                     result, handedOver, received>>
      /\ data' = data \o Bytes(m) /\ sent' = Append(sent, m)
      /\ writeTimeout' = (writeTimeout \/ data = <<>>)
      /\ Len(sent) < MaxMessages /\ (size = 0 \/ sent = <<>> \/ handedOver)
  BY DEF Write, reader
<1>2. m \in Messages /\ Len(m.data) = size
  <2>1. Len(sent) + 1 \in 1..MaxMessages
    BY <1>1, StreamBounds DEF Inv, Types
  <2> QED  BY <2>1, MessageFacts
<1> HIDE DEF m
<1>3. Bytes(m) \in Seq(Nat)
  BY <1>2, BytesFacts
<1>4. data \in Seq(Nat) /\ socket \in Seq(Nat) /\ sent \in Seq(Messages) /\ received \in Seq(Messages)
      /\ Len(received) <= Len(sent)
  BY DEF Inv, Types, Reported
<1>5. Types'
  <2>1. data' \in Seq(Nat) /\ sent' \in Seq(Messages) /\ Len(sent') <= MaxMessages
    BY <1>1, <1>2, <1>3, <1>4, StreamBounds
  <2>2. writeTimeout' \in BOOLEAN
    BY <1>1
  <2> QED  BY <1>1, <2>1, <2>2 DEF Inv, Types
<1>6. Reported'
  <2>1. Len(sent') = Len(sent) + 1 /\ \A i \in 1..Len(sent) : sent'[i] = sent[i]
    BY <1>1, <1>2, <1>4
  <2>2. Len(received) \in Nat /\ Len(sent) \in Nat
    BY <1>4
  <2> QED  BY <1>1, <2>1, <2>2 DEF Inv, Reported
<1>7. Scheduled'
  BY <1>1 DEF Inv, Scheduled
<1>8. OnlyKeepAlives'
  <2>1. SUFFICES ASSUME ~handedOver, NEW i \in 2..Len(sent') PROVE sent'[i].data = <<>>
    BY <1>1 DEF OnlyKeepAlives
  <2>2. Len(sent') = Len(sent) + 1 /\ sent'[Len(sent) + 1] = m /\ \A j \in 1..Len(sent) : sent'[j] = sent[j]
    BY <1>1, <1>2, <1>4
  <2>3. CASE i \in 2..Len(sent)
    BY <2>1, <2>2, <2>3 DEF Inv, OnlyKeepAlives
  <2>4. CASE i = Len(sent) + 1
    <3>1. sent # <<>>
      BY <1>4, <2>1, <2>4
    <3>2. Len(m.data) = 0 /\ m.data \in Seq(Nat)
      BY <1>1, <1>2, <2>1, <3>1 DEF Messages
    <3> QED  BY <2>2, <2>4, <3>2
  <2>5. i \in 2..Len(sent) \/ i = Len(sent) + 1
    BY <1>4, <2>2
  <2> QED  BY <2>3, <2>4, <2>5
<1>9. Unread' = Append(Unread, m)
  <2>1. Len(received) \in Nat
    BY <1>4
  <2> QED  BY <1>1, <1>2, <1>4, <2>1, RestAppend DEF Unread
<1>10. Unread # <<>> => Head(Unread') = Head(Unread) /\ Tail(Unread') = Append(Tail(Unread), m)
  <2>1. Unread \in Seq(Messages)
    BY UnreadFacts DEF Inv
  <2> QED  BY <1>2, <1>9, <2>1, HeadTailAppend
<1>11. InPlace' /\ Progress' /\ Taken' = Taken
  <2>1. Unread' # <<>>
    <3>1. Unread \in Seq(Messages)
      BY UnreadFacts DEF Inv
    <3> QED  BY <1>2, <1>9, <3>1, AppendProperties
  <2> QED  BY <1>1, <1>10, <2>1 DEF Inv, InPlace, Progress, Taken
<1>12. Pending' = Pending \o Bytes(m)
  <2>0. Unread \in Seq(Messages) /\ state' = state
    BY <1>1, UnreadFacts DEF Inv
  <2>1. CASE state.readHead
    BY <1>2, <1>9, <2>0, <2>1, StreamAppend DEF Pending
  <2>2. CASE ~state.readHead
    <3>1. Unread # <<>>
      BY <2>2 DEF Inv, InPlace
    <3>2. Head(Unread) \in Messages /\ Tail(Unread) \in Seq(Messages)
      BY <3>1, UnreadFacts DEF Inv
    <3>3. Head(Unread).data \in Seq(Nat) /\ Stream(Tail(Unread)) \in Seq(Nat)
      BY <3>2, StreamType DEF Messages
    <3>4. Stream(Tail(Unread')) = Stream(Tail(Unread)) \o Bytes(m)
      BY <1>2, <1>10, <3>1, <3>2, StreamAppend
    <3>5. Pending' = Head(Unread).data \o (Stream(Tail(Unread)) \o Bytes(m))
      BY <1>10, <2>0, <2>2, <3>1, <3>4 DEF Pending
    <3>6. Pending = Head(Unread).data \o Stream(Tail(Unread))
      BY <2>2 DEF Pending
    <3> QED  BY <1>3, <3>3, <3>5, <3>6, ConcatAssoc, Zenon
  <2> QED  BY <2>1, <2>2
<1>13. Conserved'
  <2>1. Taken \in Seq(Nat) /\ FlattenSeq(chunks) \in Seq(Nat)
    BY TakenType, ChunksType DEF Inv, Types
  <2>2. socket \o (data \o Bytes(m)) = (socket \o data) \o Bytes(m) /\ socket \o data \in Seq(Nat)
    BY <1>3, <1>4, ConcatType, ConcatAssoc, Zenon
  <2>3. /\ FlattenSeq(chunks) \o ((socket \o data) \o Bytes(m)) = (FlattenSeq(chunks) \o (socket \o data)) \o Bytes(m)
        /\ FlattenSeq(chunks) \o (socket \o data) \in Seq(Nat)
    BY <1>3, <2>1, <2>2, ConcatType, ConcatAssoc, Zenon
  <2>4. Taken \o ((FlattenSeq(chunks) \o (socket \o data)) \o Bytes(m))
           = (Taken \o (FlattenSeq(chunks) \o (socket \o data))) \o Bytes(m)
    BY <1>3, <2>1, <2>3, ConcatAssoc, Zenon
  <2>5. Taken \o (FlattenSeq(chunks) \o (socket \o data)) = Pending
    BY DEF Inv, Conserved
  <2>6. Taken' \o (FlattenSeq(chunks') \o (socket' \o data')) = Pending'
    BY <1>1, <1>11, <1>12, <2>2, <2>3, <2>4, <2>5, Zenon
  <2> QED  BY <1>1, <2>6 DEF Inv, Conserved
<1> QED  BY <1>5, <1>6, <1>7, <1>8, <1>11, <1>13 DEF Inv

-----------------------------------------------------------------------------
(* The reader's loops *)

LEMMA AcceptChunkStep ==
    ASSUME Inv, NEW n \in 1..Len(socket), AcceptChunk(n)
    PROVE  Inv'
<1> DEFINE head == SubSeq(socket, 1, n)
           tail == SubSeq(socket, n + 1, Len(socket))
<1>1. /\ UNCHANGED <<data, writeTimeout, isPaused, state, byteCount, result, handedOver, sent, received>>
      /\ chunks' = Append(chunks, head) /\ totalLength' = totalLength + n /\ socket' = tail
      /\ running = "none" /\ running' = "accept"
  BY DEF AcceptChunk, writer
<1>2. data \in Seq(Nat) /\ socket \in Seq(Nat) /\ chunks \in Seq(Seq(Nat) \ {<<>>})
      /\ totalLength \in Nat /\ Len(socket) \in Nat
  BY DEF Inv, Types
<1>3. head \in Seq(Nat) /\ Len(head) = n /\ tail \in Seq(Nat) /\ head \o tail = socket
  <2>1. n \in 0..Len(socket)
    BY <1>2
  <2> QED  BY <1>2, <2>1, Cut
<1> HIDE DEF head, tail
<1>4. chunks' \in Seq(Seq(Nat) \ {<<>>})
  <2>1. head \in Seq(Nat) \ {<<>>}
    BY <1>2, <1>3
  <2> QED  BY <1>1, <1>2, <2>1, AppendProperties
<1>5. Types'
  BY <1>1, <1>2, <1>3, <1>4 DEF Inv, Types, Loops
<1>6. Reported' /\ Scheduled' /\ OnlyKeepAlives'
  BY <1>1 DEF Inv, Reported, Scheduled, OnlyKeepAlives
<1>7. InPlace' /\ Progress'
  <2>1. Unread' = Unread
    BY <1>1, SamePending
  <2> QED  BY <1>1, <2>1 DEF Inv, InPlace, Progress
<1>8. Conserved'
  <2> DEFINE flat == FlattenSeq(chunks)
  <2>1. chunks \in Seq(Seq(Nat)) /\ flat \in Seq(Nat)
    BY <1>2, ChunksType
  <2>2. FlattenSeq(chunks') = flat \o head
    BY <1>1, <1>3, <2>1, FlattenAppend
  <2> HIDE DEF flat
  <2>3. totalLength' = Len(FlattenSeq(chunks'))
    <3>1. Len(flat \o head) = Len(flat) + Len(head)
      BY <1>3, <2>1, ConcatType
    <3> QED  BY <1>1, <1>3, <2>2, <3>1 DEF Inv, Conserved, flat
  <2>4. tail \o data \in Seq(Nat) /\ (head \o tail) \o data = head \o (tail \o data)
    <3>1. head \in Seq(Nat) /\ tail \in Seq(Nat) /\ data \in Seq(Nat)
      BY <1>2, <1>3
    <3> QED  BY <3>1, ConcatType, ConcatAssoc, Zenon
  <2>5. (flat \o head) \o (tail \o data) = flat \o (head \o (tail \o data))
    BY <1>3, <2>1, <2>4, ConcatAssoc, Zenon
  <2>6. FlattenSeq(chunks') \o (socket' \o data') = flat \o (socket \o data)
    BY <1>1, <1>3, <2>2, <2>4, <2>5, Zenon
  <2>7. Taken' = <<>> /\ Taken = <<>>
    BY <1>1 DEF Taken
  <2>8. Pending' = Pending
    BY <1>1, SamePending
  <2> QED  BY <2>3, <2>6, <2>7, <2>8 DEF Inv, Conserved, flat
<1> QED  BY <1>5, <1>6, <1>7, <1>8 DEF Inv

LEMMA ReadNextStep == ASSUME Inv, ReadNext PROVE Inv'
<1>1. /\ UNCHANGED <<data, writeTimeout, isPaused, socket, chunks, totalLength, state, handedOver, sent, received>>
      /\ running = "accept" /\ totalLength >= state.readLen
      /\ running' = "read" /\ byteCount' = state.readLen /\ result' = <<>>
  BY DEF ReadNext, writer, StartRead
<1>2. state.readLen \in Nat /\ totalLength \in Nat
  BY StreamBounds DEF Inv, Types
<1>3. Types'
  BY <1>1, <1>2 DEF Inv, Types, Loops
<1>4. Reported' /\ Scheduled' /\ OnlyKeepAlives'
  BY <1>1 DEF Inv, Reported, Scheduled, OnlyKeepAlives
<1>5. Unread' = Unread /\ Pending' = Pending
  BY <1>1, SamePending
<1>6. InPlace' /\ Progress'
  BY <1>1, <1>2, <1>5 DEF Inv, InPlace, Progress
<1>7. Taken' = <<>> /\ Taken = <<>>
  BY <1>1 DEF Taken
<1>8. Conserved'
  BY <1>1, <1>5, <1>7 DEF Inv, Conserved
<1> QED  BY <1>3, <1>4, <1>6, <1>8 DEF Inv

LEMMA ReadLoopEndsStep == ASSUME Inv, ReadLoopEnds PROVE Inv'
<1>1. /\ UNCHANGED <<data, writeTimeout, isPaused, socket, chunks, totalLength, state, byteCount, result,
                     handedOver, sent, received>>
      /\ running = "accept" /\ totalLength < state.readLen /\ running' = "none"
  BY DEF ReadLoopEnds, writer
<1>2. Types'
  BY <1>1 DEF Inv, Types, Loops
<1>3. Reported' /\ Scheduled' /\ OnlyKeepAlives'
  BY <1>1 DEF Inv, Reported, Scheduled, OnlyKeepAlives
<1>4. Unread' = Unread /\ Pending' = Pending
  BY <1>1, SamePending
<1>5. InPlace' /\ Progress'
  BY <1>1, <1>4 DEF Inv, InPlace, Progress
<1>6. Taken' = <<>> /\ Taken = <<>>
  BY <1>1 DEF Taken
<1>7. Conserved'
  BY <1>1, <1>4, <1>6 DEF Inv, Conserved
<1> QED  BY <1>2, <1>3, <1>5, <1>7 DEF Inv

\* A turn of _read moves bytes from the first chunk to its result: part of
\* the chunk, or all of it.
LEMMA ReadChunkMoves ==
    ASSUME Types, chunks # <<>>, ReadPart \/ ReadWhole
    PROVE  \E part \in Seq(Nat), rest \in Seq(Nat) :
              /\ FlattenSeq(chunks) = part \o rest
              /\ FlattenSeq(chunks') = rest
              /\ chunks' \in Seq(Seq(Nat) \ {<<>>})
              /\ result' = result \o part
              /\ Len(part) <= byteCount
              /\ byteCount' = byteCount - Len(part)
              /\ totalLength' = totalLength - Len(part)
<1> DEFINE chunk == Head(chunks)
           others == FlattenSeq(Tail(chunks))
<1>1. chunk \in Seq(Nat) \ {<<>>} /\ Tail(chunks) \in Seq(Seq(Nat) \ {<<>>})
  BY HeadTailProperties, Zenon DEF Types
<1>2. Tail(chunks) \in Seq(Seq(Nat)) /\ others \in Seq(Nat)
  BY <1>1, ChunksType
<1>3. FlattenSeq(chunks) = chunk \o others
  <2>1. chunks \in Seq(Seq(Nat))
    BY ChunksType DEF Types
  <2> QED  BY <2>1, FlattenHead
<1>4. Len(chunk) \in Nat /\ byteCount \in Nat
  BY <1>1 DEF Types
<1>5. CASE ReadWhole
  <2>1. /\ Len(chunk) <= byteCount /\ result' = result \o chunk /\ chunks' = Tail(chunks)
        /\ totalLength' = totalLength - Len(chunk) /\ byteCount' = byteCount - Len(chunk)
    BY <1>5 DEF ReadWhole
  <2> HIDE DEF chunk
  <2> QED  BY <1>1, <1>2, <1>3, <2>1, Zenon
<1>6. CASE ReadPart
  <2> DEFINE part == SubSeq(chunk, 1, byteCount)
             left == SubSeq(chunk, byteCount + 1, Len(chunk))
  <2>1. /\ Len(chunk) > byteCount /\ result' = result \o part /\ chunks' = <<left>> \o Tail(chunks)
        /\ totalLength' = totalLength - byteCount /\ byteCount' = 0
    BY <1>6 DEF ReadPart
  <2> HIDE DEF chunk, others
  <2>2. part \in Seq(Nat) /\ Len(part) = byteCount /\ left \in Seq(Nat) /\ Len(left) = Len(chunk) - byteCount
        /\ part \o left = chunk
    <3>1. chunk \in Seq(Nat) /\ byteCount \in 0..Len(chunk)
      BY <1>1, <1>4, <2>1
    <3> QED  BY <3>1, Cut, Zenon
  <2> HIDE DEF part, left
  <2>3. left \in Seq(Nat) \ {<<>>}
    <3>1. Len(left) # 0
      BY <1>4, <2>1, <2>2
    <3> QED  BY <2>2, <3>1
  <2>4. /\ chunks' \in Seq(Seq(Nat) \ {<<>>}) /\ chunks' # <<>>
        /\ Head(chunks') = left /\ Tail(chunks') = Tail(chunks)
    <3>1. ASSUME NEW Y, NEW y \in Y, NEW t \in Seq(Y)
          PROVE  /\ <<y>> \o t \in Seq(Y) /\ <<y>> \o t # <<>>
                 /\ Head(<<y>> \o t) = y /\ Tail(<<y>> \o t) = t
      OBVIOUS
    <3> QED  BY <1>1, <2>1, <2>3, <3>1
  <2>5. FlattenSeq(chunks') = left \o others
    <3>1. chunks' \in Seq(Seq(Nat))
      BY <2>4, ChunksType
    <3>2. FlattenSeq(chunks') = Head(chunks') \o FlattenSeq(Tail(chunks'))
      BY <2>4, <3>1, FlattenHead
    <3> QED  BY <2>4, <3>2 DEF others
  <2>6. left \o others \in Seq(Nat) /\ (part \o left) \o others = part \o (left \o others)
    BY <1>2, <2>2, ConcatType, ConcatAssoc, Zenon
  <2>7. FlattenSeq(chunks) = part \o (left \o others)
    BY <1>3, <2>2, <2>6
  <2>8. Len(part) <= byteCount /\ byteCount' = byteCount - Len(part) /\ totalLength' = totalLength - Len(part)
    BY <1>4, <2>1, <2>2
  <2> QED  BY <2>1, <2>2, <2>4, <2>5, <2>6, <2>7, <2>8, Zenon
<1> QED  BY <1>5, <1>6

LEMMA ReadChunkStep == ASSUME Inv, ReadChunk PROVE Inv'
<1>1. /\ UNCHANGED <<data, writeTimeout, isPaused, socket, state, running, handedOver, sent, received>>
      /\ running \in {"read", "readEntire"} /\ byteCount > 0 /\ chunks # <<>>
      /\ ReadPart \/ ReadWhole
  BY DEF ReadChunk, writer
<1>2. PICK part \in Seq(Nat), rest \in Seq(Nat) :
              /\ FlattenSeq(chunks) = part \o rest
              /\ FlattenSeq(chunks') = rest
              /\ chunks' \in Seq(Seq(Nat) \ {<<>>})
              /\ result' = result \o part
              /\ Len(part) <= byteCount
              /\ byteCount' = byteCount - Len(part)
              /\ totalLength' = totalLength - Len(part)
  BY <1>1, ReadChunkMoves DEF Inv
<1>3. /\ byteCount \in Nat /\ result \in Seq(Nat) /\ Len(part) \in Nat /\ Len(rest) \in Nat /\ Len(result) \in Nat
      /\ data \in Seq(Nat) /\ socket \in Seq(Nat)
  BY DEF Inv, Types
<1>4. totalLength = Len(part) + Len(rest)
  <2>1. Len(part \o rest) = Len(part) + Len(rest)
    BY ConcatType
  <2> QED  BY <1>2, <2>1 DEF Inv, Conserved
<1>5. result' \in Seq(Nat) /\ Len(result') = Len(result) + Len(part)
  BY <1>2, <1>3, ConcatType
<1>6. Types'
  <2>1. byteCount' \in Nat /\ totalLength' \in Nat
    BY <1>2, <1>3, <1>4
  <2> QED  BY <1>1, <1>2, <1>5, <2>1 DEF Inv, Types
<1>7. Reported' /\ Scheduled' /\ OnlyKeepAlives'
  BY <1>1 DEF Inv, Reported, Scheduled, OnlyKeepAlives
<1>8. Unread' = Unread /\ Pending' = Pending
  BY <1>1, SamePending
<1>9. InPlace'
  BY <1>1, <1>8 DEF Inv, InPlace
<1>10. Progress'
  BY <1>1, <1>2, <1>3, <1>4, <1>5 DEF Inv, Progress
<1>11. Conserved'
  <2>1. totalLength' = Len(FlattenSeq(chunks'))
    BY <1>2, <1>3, <1>4
  <2>2. Taken = result /\ Taken' = result \o part
    BY <1>1, <1>2 DEF Taken
  <2>3. socket \o data \in Seq(Nat) /\ rest \o (socket \o data) \in Seq(Nat)
    BY <1>3, ConcatType, Zenon
  <2>4. (part \o rest) \o (socket \o data) = part \o (rest \o (socket \o data))
    BY <2>3, ConcatAssoc, Zenon
  <2>5. (result \o part) \o (rest \o (socket \o data)) = result \o (part \o (rest \o (socket \o data)))
    BY <1>3, <2>3, ConcatAssoc, Zenon
  <2>6. result \o ((part \o rest) \o (socket \o data)) = Pending
    BY <1>2, <2>2 DEF Inv, Conserved
  <2>7. Taken' \o (FlattenSeq(chunks') \o (socket' \o data')) = Pending'
    BY <1>1, <1>2, <1>8, <2>2, <2>4, <2>5, <2>6, Zenon
  <2> QED  BY <2>1, <2>7 DEF Conserved
<1> QED  BY <1>6, <1>7, <1>9, <1>10, <1>11 DEF Inv

\* What the reader holds and what follows, when _read has finished.
LEMMA ReadFinished ==
    ASSUME Inv, running = "read", byteCount = 0
    PROVE  LET rest == FlattenSeq(chunks) \o (socket \o data)
           IN  /\ result \in Seq(Nat) /\ rest \in Seq(Nat)
               /\ Len(result) = state.readLen
               /\ result \o rest = Pending
<1>1. /\ result \in Seq(Nat) /\ FlattenSeq(chunks) \in Seq(Nat)
      /\ data \in Seq(Nat) /\ socket \in Seq(Nat)
  BY ChunksType DEF Inv, Types
<1>2. FlattenSeq(chunks) \o (socket \o data) \in Seq(Nat)
  BY <1>1, ConcatType, Zenon
<1>3. Len(result) = state.readLen
  <2>1. Len(result) \in Nat
    BY <1>1
  <2> QED  BY <2>1 DEF Inv, Progress
<1>4. Taken = result
  BY DEF Taken
<1> QED  BY <1>1, <1>2, <1>3, <1>4 DEF Inv, Conserved

LEMMA ReadHeaderStep == ASSUME Inv, ReadHeader PROVE Inv'
<1> DEFINE rest == FlattenSeq(chunks) \o (socket \o data)
           h == Head(Unread)
<1>1. /\ UNCHANGED <<data, writeTimeout, isPaused, socket, chunks, totalLength, byteCount, result,
                     handedOver, sent, received>>
      /\ running = "read" /\ byteCount = 0 /\ state.readHead
      /\ running' = "accept"
      /\ state' = [readHead |-> FALSE, readLen |-> result[HeaderLength], id |-> result[1]]
  BY DEF ReadHeader, writer
<1>2. /\ result \in Seq(Nat) /\ rest \in Seq(Nat)
      /\ Len(result) = HeaderLength /\ result \o rest = Stream(Unread)
  <2>1. state.readLen = HeaderLength /\ Pending = Stream(Unread)
    BY <1>1 DEF Inv, InPlace, Pending
  <2> QED  BY <1>1, <2>1, ReadFinished
<1>3. Unread \in Seq(Messages) /\ (Unread # <<>> => h \in Messages /\ Tail(Unread) \in Seq(Messages))
  BY UnreadFacts DEF Inv
<1> HIDE DEF rest
<1>4. Unread # <<>>
  <2>1. SUFFICES ASSUME Unread = <<>> PROVE FALSE
    OBVIOUS
  <2>2. result \o rest = <<>>
    BY <1>2, <2>1, StreamEmpty
  <2>3. Len(result \o rest) = Len(result) + Len(rest) /\ Len(rest) \in Nat
    BY <1>2, ConcatType
  <2>4. Len(<<>>) = 0
    OBVIOUS
  <2> QED  BY <1>2, <2>2, <2>3, <2>4, StreamBounds
<1>5. /\ h \in Messages /\ h.data \in Seq(Nat) /\ Header(h) \in Seq(Nat) /\ Len(Header(h)) = HeaderLength
      /\ Stream(Tail(Unread)) \in Seq(Nat)
      /\ Header(h)[1] = h.id /\ Header(h)[HeaderLength] = Len(h.data)
  <2>1. h \in Messages /\ Tail(Unread) \in Seq(Messages)
    BY <1>3, <1>4
  <2> HIDE DEF h
  <2>2. h.data \in Seq(Nat)
    BY <2>1 DEF Messages
  <2> QED  BY <2>1, <2>2, HeaderFacts, StreamType
<1>6. Stream(Unread) = Header(h) \o (h.data \o Stream(Tail(Unread))) /\ h.data \o Stream(Tail(Unread)) \in Seq(Nat)
  <2>1. Stream(Unread) = (Header(h) \o h.data) \o Stream(Tail(Unread))
    BY <1>3, <1>4, StreamHead DEF Bytes
  <2> QED  BY <1>5, <2>1, ConcatType, ConcatAssoc, Zenon
<1>7. result = Header(h) /\ rest = h.data \o Stream(Tail(Unread))
  <2>1. Len(result) = Len(Header(h)) /\ result \o rest = Header(h) \o (h.data \o Stream(Tail(Unread)))
    BY <1>2, <1>5, <1>6
  <2> QED  BY <1>2, <1>5, <1>6, <2>1, SplitConcat, Zenon
<1>8. state' = [readHead |-> FALSE, readLen |-> Len(h.data), id |-> h.id]
  BY <1>1, <1>5, <1>7
<1>9. Types'
  <2>1. Len(h.data) \in 0..(HeaderLength + MaxBody) /\ h.id \in 0..MaxMessages
    BY <1>5, StreamBounds DEF Messages
  <2>2. state' \in [readHead : BOOLEAN, readLen : 0..(HeaderLength + MaxBody), id : 0..MaxMessages]
    BY <1>8, <2>1
  <2> QED  BY <1>1, <2>2 DEF Inv, Types, Loops
<1>10. Reported' /\ Scheduled' /\ OnlyKeepAlives'
  BY <1>1 DEF Inv, Reported, Scheduled, OnlyKeepAlives
<1>11. Unread' = Unread
  BY <1>1 DEF Unread
<1>12. InPlace'
  BY <1>4, <1>8, <1>11 DEF InPlace
<1>13. Progress'
  BY <1>1 DEF Progress
<1>14. Conserved'
  <2>1. Pending' = h.data \o Stream(Tail(Unread))
    BY <1>8, <1>11 DEF Pending
  <2>2. Taken' = <<>> /\ <<>> \o rest = rest
    BY <1>1, <1>2, ConcatEmpty DEF Taken
  <2>3. FlattenSeq(chunks') \o (socket' \o data') = rest
    BY <1>1 DEF rest
  <2> QED  BY <1>1, <1>7, <2>1, <2>2, <2>3 DEF Inv, Conserved
<1> QED  BY <1>9, <1>10, <1>12, <1>13, <1>14 DEF Inv

LEMMA ReadBodyStep == ASSUME Inv, ReadBody PROVE Inv'
<1> DEFINE rest == FlattenSeq(chunks) \o (socket \o data)
           h == Head(Unread)
<1>1. /\ UNCHANGED <<data, writeTimeout, isPaused, socket, chunks, totalLength, byteCount, result,
                     handedOver, sent>>
      /\ running = "read" /\ byteCount = 0 /\ ~state.readHead
      /\ running' = "accept" /\ state' = HeaderState
      /\ received' = Append(received, [id |-> state.id, data |-> result])
  BY DEF ReadBody, writer
<1>2. Unread # <<>> /\ state.readLen = Len(h.data) /\ state.id = h.id
  BY <1>1 DEF Inv, InPlace
<1>3. /\ result \in Seq(Nat) /\ rest \in Seq(Nat)
      /\ Len(result) = Len(h.data) /\ result \o rest = h.data \o Stream(Tail(Unread))
  <2>1. Pending = h.data \o Stream(Tail(Unread))
    BY <1>1 DEF Pending
  <2> QED  BY <1>1, <1>2, <2>1, ReadFinished
<1>4. /\ h = sent[Len(received) + 1] /\ h \in Messages
      /\ Tail(Unread) = SubSeq(sent, Len(received) + 1 + 1, Len(sent)) /\ Tail(Unread) \in Seq(Messages)
      /\ Len(received) < Len(sent) /\ Len(received) \in Nat /\ Len(sent) \in Nat
  BY <1>2, UnreadFacts DEF Inv
<1> HIDE DEF rest, h
<1>5. result = h.data /\ rest = Stream(Tail(Unread))
  <2>1. h.data \in Seq(Nat) /\ Stream(Tail(Unread)) \in Seq(Nat)
    BY <1>4, StreamType DEF Messages
  <2> QED  BY <1>3, <2>1, SplitConcat, Zenon
<1>6. [id |-> state.id, data |-> result] = h
  BY <1>2, <1>4, <1>5 DEF Messages
<1>7. /\ received \in Seq(Messages) /\ received' \in Seq(Messages) /\ Len(received') = Len(received) + 1
      /\ received'[Len(received) + 1] = h /\ \A i \in 1..Len(received) : received'[i] = received[i]
  <2>1. received \in Seq(Messages) /\ received' = Append(received, h)
    BY <1>1, <1>6 DEF Inv, Types
  <2> QED  BY <1>4, <2>1
<1>8. Types'
  <2>1. HeaderState \in [readHead : BOOLEAN, readLen : 0..(HeaderLength + MaxBody), id : 0..MaxMessages]
    BY StreamBounds DEF HeaderState
  <2> QED  BY <1>1, <1>7, <2>1 DEF Inv, Types, Loops
<1>9. Reported'
  <2>1. ASSUME NEW i \in 1..Len(received') PROVE received'[i] = sent[i]
    <3>1. CASE i \in 1..Len(received)
      BY <1>7, <3>1 DEF Inv, Reported
    <3>2. CASE i = Len(received) + 1
      BY <1>4, <1>7, <3>2
    <3> QED  BY <1>4, <1>7, <3>1, <3>2
  <2>2. Len(received') <= Len(sent)
    BY <1>4, <1>7
  <2> QED  BY <1>1, <2>1, <2>2 DEF Reported
<1>10. Scheduled' /\ OnlyKeepAlives'
  BY <1>1 DEF Inv, Scheduled, OnlyKeepAlives
<1>11. Unread' = Tail(Unread)
  BY <1>1, <1>4, <1>7 DEF Unread
<1>12. InPlace' /\ Progress'
  BY <1>1 DEF InPlace, Progress, HeaderState
<1>13. Conserved'
  <2>1. Pending' = Stream(Tail(Unread))
    BY <1>1, <1>11 DEF Pending, HeaderState
  <2>2. Taken' = <<>> /\ <<>> \o rest = rest
    BY <1>1, <1>3, ConcatEmpty DEF Taken
  <2>3. FlattenSeq(chunks') \o (socket' \o data') = rest
    BY <1>1 DEF rest
  <2> QED  BY <1>1, <1>5, <2>1, <2>2, <2>3 DEF Inv, Conserved
<1> QED  BY <1>8, <1>9, <1>10, <1>12, <1>13 DEF Inv

-----------------------------------------------------------------------------
(* The hand-over *)

\* When the request has been reported and no loop runs, the reader waits for
\* a header: the body of a keep-alive is empty and is never waited for.
LEMMA WaitsForHeader ==
    ASSUME Inv, ~handedOver, Len(received) > 0, running = "none"
    PROVE  state.readHead
<1>1. SUFFICES ASSUME ~state.readHead PROVE FALSE
  OBVIOUS
<1>2. Unread # <<>> /\ state.readLen = Len(Head(Unread).data)
  BY <1>1 DEF Inv, InPlace
<1>3. Head(Unread) = sent[Len(received) + 1] /\ Len(received) + 1 \in 2..Len(sent)
  <2>1. Head(Unread) = sent[Len(received) + 1] /\ Len(received) < Len(sent)
        /\ Len(received) \in Nat /\ Len(sent) \in Nat
    BY <1>2, UnreadFacts DEF Inv
  <2> QED  BY <2>1
<1>4. Head(Unread).data = <<>>
  BY <1>3, Zenon DEF Inv, OnlyKeepAlives
<1>5. state.readLen = 0
  BY <1>2, <1>4
<1> QED  BY <1>5 DEF Inv, Types, Progress

LEMMA HandOverStep == ASSUME Inv, HandOver PROVE Inv'
<1>1. /\ UNCHANGED <<data, writeTimeout, isPaused, socket, chunks, totalLength, state, sent, received>>
      /\ ~handedOver /\ Len(received) > 0 /\ (running = "none" \/ (running = "accept" /\ state.readHead))
      /\ handedOver' = TRUE
      /\ running' = "readEntire" /\ byteCount' = totalLength /\ result' = <<>>
  BY DEF HandOver, writer, StartRead
<1>2. state.readHead
  BY <1>1, WaitsForHeader
<1>3. Types'
  BY <1>1 DEF Inv, Types, Loops
<1>4. Reported' /\ Scheduled' /\ OnlyKeepAlives'
  BY <1>1 DEF Inv, Reported, Scheduled, OnlyKeepAlives
<1>5. Unread' = Unread /\ Pending' = Pending
  BY <1>1, SamePending
<1>6. InPlace' /\ Progress'
  BY <1>1, <1>2, <1>5 DEF Inv, InPlace, Progress
<1>7. Taken' = <<>> /\ Taken = <<>>
  BY <1>1 DEF Taken
<1>8. Conserved'
  BY <1>1, <1>5, <1>7 DEF Inv, Conserved
<1> QED  BY <1>3, <1>4, <1>6, <1>8 DEF Inv

LEMMA TakeOverStep == ASSUME Inv, TakeOver PROVE Inv'
<1>1. /\ UNCHANGED <<data, writeTimeout, isPaused, socket, byteCount, result, handedOver, sent, received>>
      /\ running = "readEntire" /\ byteCount = 0
      /\ chunks' = IF result = <<>> THEN <<>> ELSE <<result>>
      /\ totalLength' = Len(result)
      /\ running' = IF result = <<>> THEN "none" ELSE "accept"
      /\ state' = HeaderState
  BY DEF TakeOver, writer
<1>2. result \in Seq(Nat) /\ Len(result) \in Nat /\ state.readHead /\ totalLength = 0
  BY <1>1 DEF Inv, Types, Progress
<1>3. FlattenSeq(chunks) = <<>>
  <2>1. FlattenSeq(chunks) \in Seq(Nat) /\ Len(FlattenSeq(chunks)) = 0
    BY <1>2, ChunksType DEF Inv, Types, Conserved
  <2> QED  BY <2>1
<1>4. FlattenSeq(chunks') = result
  <2>1. CASE result = <<>>
    BY <1>1, <2>1, FlattenEmpty
  <2>2. CASE result # <<>>
    BY <1>1, <1>2, <2>2, FlattenOne
  <2> QED  BY <2>1, <2>2
<1>5. chunks' \in Seq(Seq(Nat) \ {<<>>})
  <2>1. CASE result = <<>>
    BY <1>1, <2>1
  <2>2. CASE result # <<>>
    <3>1. result \in Seq(Nat) \ {<<>>}
      BY <1>2, <2>2
    <3>2. \A Y : \A y \in Y : <<y>> \in Seq(Y)
      OBVIOUS
    <3> QED  BY <1>1, <2>2, <3>1, <3>2, Zenon
  <2> QED  BY <2>1, <2>2
<1>6. Types'
  <2>1. HeaderState \in [readHead : BOOLEAN, readLen : 0..(HeaderLength + MaxBody), id : 0..MaxMessages]
    BY StreamBounds DEF HeaderState
  <2>2. running' \in Loops
    BY <1>1 DEF Loops
  <2> QED  BY <1>1, <1>2, <1>5, <2>1, <2>2 DEF Inv, Types
<1>7. Reported' /\ Scheduled' /\ OnlyKeepAlives'
  BY <1>1 DEF Inv, Reported, Scheduled, OnlyKeepAlives
<1>8. InPlace'
  BY <1>1 DEF InPlace, HeaderState
<1>9. Progress'
  <2>1. CASE result = <<>>
    <3>1. totalLength' = 0 /\ running' = "none"
      BY <1>1, <2>1
    <3> QED  BY <1>1, <3>1, StreamBounds DEF Progress, HeaderState
  <2>2. CASE result # <<>>
    BY <1>1, <2>2 DEF Progress
  <2> QED  BY <2>1, <2>2
<1>10. Conserved'
  <2>1. Unread' = Unread
    BY <1>1 DEF Unread
  <2>2. Pending' = Stream(Unread) /\ Pending = Stream(Unread)
    BY <1>1, <1>2, <2>1 DEF Pending, HeaderState
  <2>3. Taken' = <<>> /\ Taken = result
    BY <1>1 DEF Taken
  <2>4. socket \o data \in Seq(Nat) /\ result \o (socket \o data) \in Seq(Nat)
    <3>1. socket \in Seq(Nat) /\ data \in Seq(Nat)
      BY DEF Inv, Types
    <3> QED  BY <1>2, <3>1, ConcatType, Zenon
  <2>5. <<>> \o (socket \o data) = socket \o data
        /\ <<>> \o (result \o (socket \o data)) = result \o (socket \o data)
    BY <2>4, ConcatEmpty, Zenon
  <2>6. result \o (<<>> \o (socket \o data)) = Pending
    BY <1>3, <2>3 DEF Inv, Conserved
  <2>7. Taken' \o (FlattenSeq(chunks') \o (socket' \o data')) = Pending'
    BY <1>1, <1>4, <2>2, <2>3, <2>5, <2>6, Zenon
  <2> QED  BY <1>1, <1>4, <2>7 DEF Conserved
<1> QED  BY <1>6, <1>7, <1>8, <1>9, <1>10 DEF Inv

-----------------------------------------------------------------------------
(* Theorems *)

\* The invariant holds for headers, bodies and numbers of messages of any
\* size, whatever pieces the socket delivers.
THEOREM Invariance == Spec => []Inv
<1>1. Inv /\ [Next]_vars => Inv'
  <2> SUFFICES ASSUME Inv, [Next]_vars PROVE Inv'
    OBVIOUS
  <2>1. ASSUME NEW size \in 0..MaxBody, Write(size) PROVE Inv'
    BY <2>1, WriteStep
  <2>2. CASE WriteNow
    BY <2>2, WriteNowStep
  <2>14. CASE Flush
    BY <2>14, FlushStep
  <2>3. CASE Pause
    BY <2>3, PauseStep
  <2>4. CASE Resume
    BY <2>4, ResumeStep
  <2>5. ASSUME NEW n \in 1..Len(socket), AcceptChunk(n) PROVE Inv'
    BY <2>5, AcceptChunkStep
  <2>6. CASE ReadNext
    BY <2>6, ReadNextStep
  <2>7. CASE ReadChunk
    BY <2>7, ReadChunkStep
  <2>8. CASE ReadHeader
    BY <2>8, ReadHeaderStep
  <2>9. CASE ReadBody
    BY <2>9, ReadBodyStep
  <2>10. CASE ReadLoopEnds
    BY <2>10, ReadLoopEndsStep
  <2>11. CASE HandOver
    BY <2>11, HandOverStep
  <2>12. CASE TakeOver
    BY <2>12, TakeOverStep
  <2>13. CASE UNCHANGED vars
    <3>1. UNCHANGED <<data, writeTimeout, isPaused, socket, chunks, totalLength, state, running,
                      byteCount, result, handedOver, sent, received>>
      BY <2>13 DEF vars
    <3>2. Types' /\ Reported' /\ Scheduled' /\ OnlyKeepAlives'
      BY <3>1 DEF Inv, Types, Reported, Scheduled, OnlyKeepAlives
    <3>3. InPlace' /\ Progress' /\ Taken' = Taken /\ Pending' = Pending
      BY <3>1, SameReader, SamePending DEF Inv
    <3>4. Conserved'
      BY <3>1, <3>3 DEF Inv, Conserved
    <3> QED  BY <3>2, <3>3, <3>4 DEF Inv
  <2> QED
    BY <2>1, <2>2, <2>3, <2>4, <2>5, <2>6, <2>7, <2>8, <2>9, <2>10, <2>11, <2>12, <2>13, <2>14 DEF Next
<1>2. Init => Inv
  BY InitHolds
<1> QED  BY <1>1, <1>2, PTL DEF Spec

\* The variables have their types, and ChunkStream's _totalLength is the
\* number of bytes in its _chunks.
THEOREM TypeCorrect == Spec => []TypeOK
<1>1. Inv => TypeOK
  <2> SUFFICES ASSUME Inv PROVE TypeOK
    OBVIOUS
  <2>1. Len(received) <= MaxMessages
    <3>1. Len(received) \in Nat /\ Len(sent) \in Nat /\ Len(received) <= Len(sent) /\ Len(sent) <= MaxMessages
      BY DEF Inv, Types, Reported
    <3> QED  BY <3>1, StreamBounds
  <2> QED  BY <2>1, Zenon DEF Inv, Types, Conserved, TypeOK
<1> QED  BY <1>1, Invariance, PTL

\* Whatever pieces the socket cuts the bytes into, onMessage of ProtocolReader
\* reports the messages that ProtocolWriter was given, unchanged and in order.
THEOREM MessagesArriveIntact == Spec => []FramesIntact
<1>1. Inv => FramesIntact
  <2> SUFFICES ASSUME Inv PROVE FramesIntact
    OBVIOUS
  <2>1. received \in Seq(Messages) /\ sent \in Seq(Messages) /\ Len(received) \in Nat /\ Len(sent) \in Nat
        /\ Len(received) <= Len(sent) /\ \A i \in 1..Len(received) : received[i] = sent[i]
    BY DEF Inv, Types, Reported
  <2>2. SubSeq(received, 1, Len(received)) = received
    BY <2>1, SubSeqFull
  <2> DEFINE front == SubSeq(sent, 1, Len(received))
  <2>3. front \in Seq(Messages) /\ Len(front) = Len(received) /\ \A i \in 1..Len(received) : front[i] = sent[i]
    BY <2>1
  <2> HIDE DEF front
  <2>4. received = front
    BY <2>1, <2>3, SeqEqual
  <2> QED  BY <2>1, <2>2, <2>4 DEF FramesIntact, IsPrefix, front
<1> QED  BY <1>1, Invariance, PTL

\* When the writer's timer has run, the reader's loop has ended and nothing is
\* in flight, every message has been reported.
THEOREM NoMessageIsStranded == Spec => []NothingStranded
<1>1. Inv => NothingStranded
  <2> SUFFICES ASSUME Inv, ~writeTimeout, running = "none", socket = <<>>, ~isPaused
               PROVE  received = sent
    BY DEF NothingStranded
  <2>1. data = <<>>
    BY DEF Inv, Scheduled
  <2>2. FlattenSeq(chunks) \in Seq(Nat) /\ totalLength = Len(FlattenSeq(chunks)) /\ totalLength < state.readLen
    BY ChunksType DEF Inv, Types, Conserved, Progress
  <2>3. FlattenSeq(chunks) = Pending
    <3>1. Taken = <<>>
      BY DEF Taken
    <3>2. <<>> \o <<>> = <<>> /\ <<>> \in Seq(Nat)
      OBVIOUS
    <3>3. <<>> \o (FlattenSeq(chunks) \o <<>>) = FlattenSeq(chunks)
      BY <2>2, ConcatEmpty, Zenon
    <3> QED  BY <2>1, <3>1, <3>2, <3>3 DEF Inv, Conserved
  <2>4. Unread = <<>>
    <3>1. SUFFICES ASSUME Unread # <<>> PROVE FALSE
      OBVIOUS
    <3> DEFINE h == Head(Unread)
               later == Stream(Tail(Unread))
    <3>2. Unread \in Seq(Messages) /\ h \in Messages /\ Tail(Unread) \in Seq(Messages)
      BY <3>1, UnreadFacts DEF Inv
    <3>3. later \in Seq(Nat) /\ Stream(Unread) = Bytes(h) \o later
      BY <3>1, <3>2, StreamType, StreamHead
    <3> HIDE DEF h, later
    <3>4. h.data \in Seq(Nat) /\ Bytes(h) \in Seq(Nat) /\ Len(Bytes(h)) = HeaderLength + Len(h.data)
          /\ Len(h.data) \in Nat /\ Len(later) \in Nat
      BY <3>2, <3>3, BytesFacts DEF Messages
    <3>5. Len(Bytes(h) \o later) = Len(Bytes(h)) + Len(later) /\ Len(h.data \o later) = Len(h.data) + Len(later)
      BY <3>3, <3>4, ConcatType
    <3>6. CASE state.readHead
      <4>1. totalLength = Len(Bytes(h)) + Len(later) /\ state.readLen = HeaderLength
        BY <2>2, <2>3, <3>3, <3>5, <3>6 DEF Pending, Inv, InPlace
      <4> QED  BY <2>2, <3>4, <4>1, StreamBounds
    <3>7. CASE ~state.readHead
      <4>1. totalLength = Len(h.data) + Len(later) /\ state.readLen = Len(h.data)
        BY <2>2, <2>3, <3>5, <3>7 DEF Pending, Inv, InPlace, h, later
      <4> QED  BY <2>2, <3>4, <4>1
    <3> QED  BY <3>6, <3>7
  <2>5. Len(received) = Len(sent)
    BY <2>4, UnreadFacts DEF Inv
  <2>6. received \in Seq(Messages) /\ sent \in Seq(Messages) /\ \A i \in 1..Len(received) : received[i] = sent[i]
    BY DEF Inv, Types, Reported
  <2> QED  BY <2>5, <2>6, SeqEqual
<1> QED  BY <1>1, Invariance, PTL

\* The reader's chunks, the socket and the writer's buffer hold exactly the
\* bytes of the messages not yet reported, but for a header already read.
THEOREM NoByteIsLost == Spec => []BytesConserved
<1>1. Inv => BytesConserved
  <2> SUFFICES ASSUME Inv PROVE BytesConserved
    OBVIOUS
  <2> DEFINE decoded == IF state.readHead THEN 0 ELSE HeaderLength
             flat == FlattenSeq(chunks)
  <2>1. Taken \in Seq(Nat) /\ flat \in Seq(Nat) /\ socket \in Seq(Nat) /\ data \in Seq(Nat)
    BY TakenType, ChunksType DEF Inv, Types
  <2>2. Taken \o (flat \o (socket \o data)) = Pending
    BY DEF Inv, Conserved
  <2>3. ((Taken \o flat) \o socket) \o data = Pending
    <3> HIDE DEF flat
    <3>1. \A b, c, d \in Seq(Nat) : ((Taken \o b) \o c) \o d = Taken \o (b \o (c \o d))
      BY <2>1, ConcatFour, Zenon
    <3>2. \A c, d \in Seq(Nat) : ((Taken \o flat) \o c) \o d = Taken \o (flat \o (c \o d))
      BY <2>1, <3>1, Zenon
    <3>3. ((Taken \o flat) \o socket) \o data = Taken \o (flat \o (socket \o data))
      BY <2>1, <3>2, Zenon
    <3> QED  BY <2>2, <3>3, Zenon
  <2>4. Pending = SubSeq(Stream(Unread), decoded + 1, Len(Stream(Unread)))
    <3>0. Unread \in Seq(Messages) /\ Stream(Unread) \in Seq(Nat)
      BY UnreadFacts, StreamType DEF Inv
    <3>1. CASE state.readHead
      <4>1. SubSeq(Stream(Unread), 1, Len(Stream(Unread))) = Stream(Unread)
        BY <3>0, SubSeqFull
      <4> QED  BY <3>1, <4>1 DEF Pending
    <3>2. CASE ~state.readHead
      <4> DEFINE h == Head(Unread)
                 later == Stream(Tail(Unread))
                 body == h.data \o later
                 stream == Stream(Unread)
      <4>1. Unread # <<>>
        BY <3>2 DEF Inv, InPlace
      <4>2. h \in Messages /\ Tail(Unread) \in Seq(Messages)
        BY <4>1, UnreadFacts DEF Inv
      <4>3. later \in Seq(Nat) /\ Header(h) \in Seq(Nat) /\ Len(Header(h)) = HeaderLength /\ h.data \in Seq(Nat)
        BY <4>2, StreamType, HeaderFacts DEF Messages
      <4>4. stream = (Header(h) \o h.data) \o later
        BY <3>0, <4>1, StreamHead DEF Bytes
      <4>5. body \in Seq(Nat) /\ stream = Header(h) \o body
        BY <4>3, <4>4, ConcatType, ConcatAssoc, Zenon
      <4>6. Pending = body
        BY <3>2 DEF Pending
      <4> HIDE DEF stream, body, h, later
      <4>7. SubSeq(stream, HeaderLength + 1, Len(stream)) = body
        BY <4>3, <4>5, DropFirst
      <4> QED  BY <3>2, <4>6, <4>7 DEF stream
    <3> QED  BY <3>1, <3>2
  <2> QED  BY <2>3, <2>4 DEF BytesConserved, Stream, Frames, Unread, Taken
<1> QED  BY <1>1, Invariance, PTL

\* A read asks for no more bytes than the chunks hold.
ReadsWhatIsThere == running \in {"read", "readEntire"} => byteCount <= totalLength

\* ChunkStream._read never throws "Cannot read so many bytes!", nor does its
\* loop run out of chunks.
THEOREM ReadNeverThrows == Spec => []ReadsWhatIsThere
<1>1. Inv => ReadsWhatIsThere
  BY DEF Inv, Types, Progress, ReadsWhatIsThere
<1> QED  BY <1>1, Invariance, PTL

=============================================================================
