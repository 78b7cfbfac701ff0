---------------------------- MODULE PartsProofs -----------------------------
(***************************************************************************)
(* The parts that work for themselves.                                     *)
(*                                                                         *)
(* Transfer: CPY and DMP copy their range once and in order and give back  *)
(* every file, for every request, every size of a transfer and whatever    *)
(* the counter that is not initialised begins with (TrInv).                *)
(*                                                                         *)
(* Commander: what a verdict of Msender is worth, for any number of runs,  *)
(* any command lines and any loss and duplication of datagrams (CmInv).    *)
(*                                                                         *)
(* StagedBuffer: its ring implements the line of queues of Pipeline, for   *)
(* every number of stages and of objects.  Distances are measured from the *)
(* index of the last stage, where the objects leave: the invariant is that *)
(* the indices follow each other round the ring, each at most as far ahead *)
(* as the one before it (SbInv).                                           *)
(***************************************************************************)
EXTENDS Transfer, Commander, StagedBuffer, Integers, SequenceTheorems, WellFoundedInduction, TLAPS

-----------------------------------------------------------------------------
(* Transfer: numbers.                                                      *)

\* Every set of naturals that is not empty has a least element.
LEMMA LeastNat ==
  ASSUME NEW T, T \subseteq Nat, T # {}
  PROVE  \E x \in T : \A y \in T : x <= y
<1>1. PICK x \in T : \A y \in T : ~(<<y, x>> \in OpToRel(<, Nat))
  BY NatLessThanWellFounded, WFMin
<1>2. \A y \in T : ~(y < x)
  BY <1>1 DEF OpToRel
<1> QED
  BY <1>2

\* The sequences of the recursion in FlattenSeq.
Joins(q, n, g) == g = [i \in 1 .. n |-> IF i = 1 THEN q[i] ELSE g[i - 1] \o q[i]]

\* The recursion has a solution, by the least length without one.
LEMMA JoinsExist ==
  ASSUME NEW q, NEW m \in Nat
  PROVE  \E g : Joins(q, m, g)
<1> DEFINE Bad == {n \in 0 .. m : ~ \E g : Joins(q, n, g)}
<1>1. ASSUME Bad # {} PROVE FALSE
  <2>1. Bad \subseteq Nat
    OBVIOUS
  <2> HIDE DEF Bad
  <2>2. PICK n \in Bad : \A k \in Bad : n <= k
    BY <1>1, <2>1, LeastNat
  <2>3. n \in 0 .. m /\ ~ \E g : Joins(q, n, g)
    BY DEF Bad
  <2>4. CASE n = 0
    <3>1. Joins(q, n, [i \in 1 .. 0 |-> q[i]])
      BY <2>4 DEF Joins
    <3> QED
      BY <2>3, <3>1
  <2>5. CASE n # 0
    <3>1. n - 1 \in 0 .. m /\ n - 1 < n
      BY <2>3, <2>5
    <3>2. n - 1 \notin Bad
      BY <2>1, <2>2, <3>1
    <3>3. PICK g : Joins(q, n - 1, g)
      BY <3>1, <3>2 DEF Bad
    <3> DEFINE h == [i \in 1 .. n |-> IF i = 1 THEN q[i] ELSE g[i - 1] \o q[i]]
    <3>4. \A i \in 1 .. n - 1 : h[i] = g[i]
      <4>1. \A i \in 1 .. n - 1 : g[i] = IF i = 1 THEN q[i] ELSE g[i - 1] \o q[i]
        BY <3>3 DEF Joins
      <4>2. \A i \in 1 .. n - 1 : i \in 1 .. n
        BY <2>3, <3>1
      <4> QED
        BY <4>1, <4>2
    <3>5. \A i \in 1 .. n : i # 1 => i - 1 \in 1 .. n - 1
      BY <2>3, <3>1
    <3>6. h = [i \in 1 .. n |-> IF i = 1 THEN q[i] ELSE h[i - 1] \o q[i]]
      <4>1. \A i \in 1 .. n : i # 1 => h[i - 1] = g[i - 1]
        BY <3>4, <3>5
      <4>2. \A i \in 1 .. n : h[i] = IF i = 1 THEN q[i] ELSE h[i - 1] \o q[i]
        BY <4>1
      <4> QED
        BY <4>2
    <3> HIDE DEF h
    <3>7. Joins(q, n, h)
      BY <3>6 DEF Joins
    <3> QED
      BY <2>3, <3>7
  <2> QED
    BY <2>4, <2>5
<1> QED
  BY <1>1

\* FlattenSeq ends its recursion at the last sequence.
LEMMA FlattenJoins ==
  ASSUME NEW S, NEW q \in Seq(Seq(S))
  PROVE  \E g : /\ Joins(q, Len(q), g)
                /\ FlattenSeq(q) = IF Len(q) = 0 THEN <<>> ELSE g[Len(q)]
<1>1. Len(q) \in Nat /\ (Len(q) = 0 => q = <<>>)
  OBVIOUS
<1>2. PICK g : g = CHOOSE x : Joins(q, Len(q), x)
  OBVIOUS
<1>3. Joins(q, Len(q), g)
  BY <1>1, <1>2, JoinsExist
<1>4. FlattenSeq(q) = IF Len(q) = 0 THEN q ELSE g[Len(q)]
  BY <1>2 DEF FlattenSeq, Joins
<1> QED
  BY <1>1, <1>3, <1>4

JoinsShape(S, q, g) ==
  /\ \A i \in 1 .. Len(q) : g[i] = IF i = 1 THEN q[i] ELSE g[i - 1] \o q[i]
  /\ \A i \in 1 .. Len(q) : g[i] \in Seq(S)
  /\ (\A i \in 1 .. Len(q) : q[i] = <<>>) => \A i \in 1 .. Len(q) : g[i] = <<>>

\* What is joined is a sequence, and nothing joined is nothing.
LEMMA JoinsType ==
  ASSUME NEW S, NEW q \in Seq(Seq(S)), NEW g, Joins(q, Len(q), g)
  PROVE  JoinsShape(S, q, g)
<1>0. Len(q) \in Nat /\ \A i \in 1 .. Len(q) : q[i] \in Seq(S)
  OBVIOUS
<1>1. \A i \in 1 .. Len(q) : g[i] = IF i = 1 THEN q[i] ELSE g[i - 1] \o q[i]
  BY DEF Joins
<1> DEFINE Bad == {i \in 1 .. Len(q) : g[i] \notin Seq(S)}
<1>2. ASSUME Bad # {} PROVE FALSE
  <2>1. Bad \subseteq Nat
    BY <1>0
  <2> HIDE DEF Bad
  <2>2. PICK i \in Bad : \A k \in Bad : i <= k
    BY <1>2, <2>1, LeastNat
  <2>3. i \in 1 .. Len(q) /\ g[i] \notin Seq(S)
    BY DEF Bad
  <2>4. i # 1
    BY <1>0, <1>1, <2>3
  <2>5. i - 1 \in 1 .. Len(q) /\ i - 1 < i
    BY <1>0, <2>3, <2>4
  <2>6. i - 1 \notin Bad
    BY <2>1, <2>2, <2>5
  <2>7. g[i - 1] \in Seq(S)
    BY <2>5, <2>6 DEF Bad
  <2>8. g[i] = g[i - 1] \o q[i]
    BY <1>1, <2>3, <2>4
  <2> QED
    BY <1>0, <2>3, <2>7, <2>8
<1> DEFINE Full == {i \in 1 .. Len(q) : g[i] # <<>>}
<1>3. ASSUME \A i \in 1 .. Len(q) : q[i] = <<>>, Full # {} PROVE FALSE
  <2>1. Full \subseteq Nat
    BY <1>0
  <2> HIDE DEF Full
  <2>2. PICK i \in Full : \A k \in Full : i <= k
    BY <1>3, <2>1, LeastNat
  <2>3. i \in 1 .. Len(q) /\ g[i] # <<>>
    BY DEF Full
  <2>4. i # 1
    BY <1>1, <1>3, <2>3
  <2>5. i - 1 \in 1 .. Len(q) /\ i - 1 < i
    BY <1>0, <2>3, <2>4
  <2>6. i - 1 \notin Full
    BY <2>1, <2>2, <2>5
  <2>7. g[i - 1] = <<>>
    BY <2>5, <2>6 DEF Full
  <2>8. g[i] = g[i - 1] \o <<>>
    BY <1>1, <1>3, <2>3, <2>4
  <2>9. <<>> \o <<>> = <<>>
    OBVIOUS
  <2> QED
    BY <2>3, <2>7, <2>8, <2>9
<1> QED
  BY <1>1, <1>2, <1>3 DEF JoinsShape

\* FlattenSeq gives a sequence, an empty one for empty ones.
LEMMA FlattenType ==
  ASSUME NEW S, NEW q \in Seq(Seq(S))
  PROVE  /\ FlattenSeq(q) \in Seq(S)
         /\ (\A i \in 1 .. Len(q) : q[i] = <<>>) => FlattenSeq(q) = <<>>
<1>1. PICK g : Joins(q, Len(q), g) /\ FlattenSeq(q) = IF Len(q) = 0 THEN <<>> ELSE g[Len(q)]
  BY FlattenJoins
<1>2. /\ \A i \in 1 .. Len(q) : g[i] \in Seq(S)
      /\ (\A i \in 1 .. Len(q) : q[i] = <<>>) => \A i \in 1 .. Len(q) : g[i] = <<>>
  <2>1. JoinsShape(S, q, g)
    BY <1>1, JoinsType
  <2> QED
    BY <2>1 DEF JoinsShape
<1>3. Len(q) \in Nat /\ (Len(q) # 0 => Len(q) \in 1 .. Len(q)) /\ <<>> \in Seq(S)
  OBVIOUS
<1> QED
  BY <1>1, <1>2, <1>3

\* Concatenation is associative.
LEMMA ConcatIsAssociative ==
  ASSUME NEW S, NEW d \in Seq(S)
  PROVE  \A a, b \in Seq(S) : (a \o b) \o d = a \o (b \o d)
BY ConcatAssociative

\* p is q with d appended to its c-th sequence, the last that is in use.
GrowsAt(q, p, c, d) ==
  /\ c \in 1 .. Len(q) /\ Len(p) = Len(q)
  /\ \A j \in 1 .. Len(q) : j > c => q[j] = <<>>
  /\ p[c] = q[c] \o d
  /\ \A i \in 1 .. Len(q) : i # c => p[i] = q[i]

\* What is appended to the last sequence that is not empty is appended to all.
LEMMA FlattenGrows ==
  ASSUME NEW S, NEW q \in Seq(Seq(S)), NEW p \in Seq(Seq(S)), NEW c, NEW d \in Seq(S),
         GrowsAt(q, p, c, d)
  PROVE  FlattenSeq(p) = FlattenSeq(q) \o d
<1> DEFINE n == Len(q)
<1>0. /\ n \in Nat /\ n # 0 /\ n \in 1 .. n /\ c \in Nat /\ 1 <= c /\ c <= n
      /\ \A i \in 1 .. n : q[i] \in Seq(S)
  BY DEF GrowsAt
<1>1. /\ p \in Seq(Seq(S)) /\ Len(p) = n /\ p[c] = q[c] \o d
      /\ \A i \in 1 .. n : i # c => p[i] = q[i]
  BY DEF GrowsAt
<1>a. \A j \in 1 .. n : j > c => q[j] = <<>>
  BY DEF GrowsAt
<1>2. PICK g : Joins(q, n, g) /\ FlattenSeq(q) = IF n = 0 THEN <<>> ELSE g[n]
  BY FlattenJoins
<1>3. PICK h : Joins(p, n, h) /\ FlattenSeq(p) = IF n = 0 THEN <<>> ELSE h[n]
  BY <1>1, FlattenJoins
<1>4. /\ \A i \in 1 .. n : g[i] = IF i = 1 THEN q[i] ELSE g[i - 1] \o q[i]
      /\ \A i \in 1 .. n : g[i] \in Seq(S)
  <2>1. q \in Seq(Seq(S)) /\ Joins(q, Len(q), g)
    BY <1>2
  <2>2. JoinsShape(S, q, g)
    BY ONLY <2>1, JoinsType
  <2> QED
    BY <2>2 DEF JoinsShape
<1>5. \A i \in 1 .. n : h[i] = IF i = 1 THEN p[i] ELSE h[i - 1] \o p[i]
  <2>1. p \in Seq(Seq(S)) /\ Joins(p, Len(p), h)
    BY <1>1, <1>3
  <2>2. JoinsShape(S, p, h)
    BY ONLY <2>1, JoinsType
  <2> QED
    BY <1>1, <2>2 DEF JoinsShape
<1> DEFINE Want(i) == IF i < c THEN g[i] ELSE g[i] \o d
           Bad == {i \in 1 .. n : h[i] # Want(i)}
<1> HIDE DEF n
<1>6. ASSUME Bad # {} PROVE FALSE
  <2>1. Bad \subseteq Nat
    BY <1>0
  <2> HIDE DEF Bad
  <2>2. PICK i \in Bad : \A k \in Bad : i <= k
    BY <1>6, <2>1, LeastNat
  <2>3. i \in 1 .. n /\ h[i] # Want(i)
    BY DEF Bad
  <2> i \in Nat /\ (i < c => Want(i) = g[i]) /\ (i >= c => Want(i) = g[i] \o d)
    BY <1>0, <2>1
  <2> HIDE DEF Want
  <2>4. CASE i = 1
    <3>1. g[1] = q[1] /\ h[1] = p[1] /\ c >= 1
      BY <1>0, <1>4, <1>5, <2>3, <2>4 DEF n
    <3>2. CASE c = 1
      BY <1>1, <2>3, <2>4, <3>1, <3>2
    <3>3. CASE c # 1
      BY <1>0, <1>1, <2>3, <2>4, <3>1, <3>3
    <3> QED
      BY <3>2, <3>3
  <2>5. CASE i # 1
    <3>1. i - 1 \in 1 .. n /\ i - 1 < i
      <4>1. n \in Nat /\ i \in 1 .. n
        BY <1>0, <2>3
      <4> QED
        BY ONLY <2>5, <4>1
    <3>2. i - 1 \notin Bad
      BY <2>1, <2>2, <3>1
    <3>3. h[i - 1] = IF i - 1 < c THEN g[i - 1] ELSE g[i - 1] \o d
      BY <3>1, <3>2 DEF Bad, Want
    <3>4. /\ g[i] = g[i - 1] \o q[i] /\ h[i] = h[i - 1] \o p[i]
          /\ g[i - 1] \in Seq(S) /\ q[i] \in Seq(S)
      BY <1>0, <1>4, <1>5, <2>3, <2>5, <3>1
    <3>5. CASE i < c
      <4>1. p[i] = q[i] /\ h[i - 1] = g[i - 1]
        BY <1>0, <1>1, <2>3, <3>3, <3>5
      <4> QED
        BY <2>3, <3>4, <3>5, <4>1
    <3>6. CASE i = c
      <4>1. p[i] = q[i] \o d /\ h[i - 1] = g[i - 1]
        BY <1>0, <1>1, <3>3, <3>6
      <4>2. g[i - 1] \o (q[i] \o d) = (g[i - 1] \o q[i]) \o d
        <5>1. \A a, b \in Seq(S) : (a \o b) \o d = a \o (b \o d)
          BY ConcatIsAssociative
        <5> QED
          BY <3>4, <5>1
      <4>3. h[i] = g[i] \o d
        BY <3>4, <4>1, <4>2
      <4> QED
        BY <1>0, <2>3, <3>6, <4>3
    <3>7. CASE i > c
      <4>1. q[i] = <<>> /\ p[i] = <<>>
        <5>1. i # c /\ q[i] = <<>>
          BY <1>0, <1>a, <2>3, <3>7
        <5> QED
          BY <1>1, <2>3, <5>1
      <4>2. h[i - 1] = g[i - 1] \o d
        <5>1. ~(i - 1 < c)
          <6>1. i \in Nat /\ c \in Nat
            BY <1>0
          <6> QED
            BY ONLY <3>7, <6>1
        <5> QED
          BY ONLY <3>3, <5>1
      <4>3. \A s \in Seq(S) : s \o <<>> = s
        OBVIOUS
      <4>4. g[i] = g[i - 1]
        BY <3>4, <4>1, <4>3
      <4>5. (g[i - 1] \o d) \in Seq(S)
        BY <3>4
      <4>6. h[i] = g[i - 1] \o d
        BY <3>4, <4>1, <4>2, <4>3, <4>5
      <4> QED
        BY <1>0, <2>3, <3>7, <4>4, <4>6
    <3> QED
      BY <1>0, <2>3, <3>5, <3>6, <3>7
  <2> QED
    BY <2>4, <2>5
<1>7. h[n] = g[n] \o d
  <2>1. n \notin Bad
    BY <1>6
  <2>2. h[n] = Want(n)
    BY <1>0, <2>1
  <2>3. ~(n < c)
    <3>1. n \in Nat /\ c \in Nat /\ c <= n
      BY <1>0
    <3> QED
      BY ONLY <3>1
  <2> QED
    BY ONLY <2>2, <2>3 DEF Want
<1> QED
  BY <1>0, <1>2, <1>3, <1>7

-----------------------------------------------------------------------------
(* Transfer: the chunks of a request.                                      *)

File == 1 .. num_files

\* The size of the i-th file, and of the first k together.
Size(i) ==
  IF Copying THEN job.size
  ELSE IF i # num_files THEN job.chunk ELSE job.size - (num_files - 1) * job.chunk

Total(k) == IF k = num_files THEN job.size ELSE k * job.chunk

\* All chunks but the last fit in a range, and the last has what is left.
LEMMA ChunksFit ==
  ASSUME NEW z \in Nat, NEW k \in Nat \ {0}, NEW n,
         n = (z \div k) + (IF z % k = 0 THEN 0 ELSE 1)
  PROVE  /\ n \in Nat /\ (n = 0 => z = 0)
         /\ n # 0 => (n - 1) * k \in Nat /\ (n - 1) * k <= z
<1>1. z \div k \in Nat /\ (z % k) \in 0 .. k - 1
  OBVIOUS
<1>2. z = (z \div k) * k + (z % k)
  OBVIOUS
<1>3. PICK d \in Nat, r \in 0 .. k - 1 : z = d * k + r /\ n = d + (IF r = 0 THEN 0 ELSE 1)
  BY <1>1, <1>2
<1>4. \A e \in Nat : e * k \in Nat /\ (e + 1) * k = e * k + k
  OBVIOUS
<1>5. n \in Nat /\ (n = 0 => z = 0)
  <2>1. 0 * k = 0
    OBVIOUS
  <2>2. n = 0 => d = 0 /\ r = 0
    <3>1. r = 0 => n = d
      BY <1>3
    <3>2. r # 0 => n = d + 1
      BY <1>3
    <3> QED
      BY <3>1, <3>2
  <2> QED
    BY <1>3, <2>1, <2>2
<1>6. ASSUME n # 0 PROVE (n - 1) * k \in Nat /\ (n - 1) * k <= z
  <2>1. CASE r # 0
    <3>1. n - 1 = d
      BY <1>3, <2>1
    <3> QED
      BY <1>3, <1>4, <3>1
  <2>2. CASE r = 0
    <3>1. n = d /\ n - 1 \in Nat /\ (n - 1) + 1 = n
      BY <1>3, <1>5, <1>6, <2>2
    <3>2. n * k = (n - 1) * k + k /\ (n - 1) * k \in Nat
      BY <1>4, <3>1
    <3> QED
      BY <1>3, <2>2, <3>1, <3>2
  <2> QED
    BY <2>1, <2>2
<1> QED
  BY <1>5, <1>6

\* The sizes of the files add up to that of the request.
LEMMA JobFacts ==
  ASSUME job \in Jobs
  PROVE  /\ job.size \in Nat /\ job.chunk \in Nat \ {0} /\ job.offset \in Nat /\ job.len \in Nat
         /\ job.offset + job.size <= job.len /\ Copying \in BOOLEAN
         /\ num_files \in Nat /\ (Copying => num_files = 1)
         /\ Total(0) = 0
         /\ \A i \in File : Size(i) \in Nat /\ Total(i - 1) + Size(i) = Total(i)
<1>1. /\ job.size \in Nat /\ job.chunk \in Nat \ {0} /\ job.offset \in Nat /\ job.len \in Nat
      /\ job.offset + job.size <= job.len /\ Copying \in BOOLEAN
  BY TransferAssumption DEF Copying
<1>2. CASE Copying
  <2>1. num_files = 1
    BY <1>2 DEF num_files, NumChunks, Copying
  <2> QED
    BY <1>1, <1>2, <2>1 DEF Size, Total, File
<1>3. CASE ~Copying
  <2>1. num_files = (job.size \div job.chunk) + (IF job.size % job.chunk = 0 THEN 0 ELSE 1)
    BY <1>3 DEF num_files, NumChunks, Copying
  <2>2. /\ num_files \in Nat /\ (num_files = 0 => job.size = 0)
        /\ num_files # 0 => /\ (num_files - 1) * job.chunk \in Nat
                            /\ (num_files - 1) * job.chunk <= job.size
    BY <1>1, <2>1, ChunksFit
  <2>3. Total(0) = 0
    BY <1>1, <2>2 DEF Total
  <2>4. ASSUME NEW i \in File PROVE Size(i) \in Nat /\ Total(i - 1) + Size(i) = Total(i)
    <3>1. i \in Nat /\ i - 1 \in Nat /\ i # 0 /\ num_files # 0 /\ i - 1 # num_files /\ (i - 1) + 1 = i
      BY <2>2, <2>4 DEF File
    <3>2. CASE i = num_files
      <4>1. Size(i) = job.size - (num_files - 1) * job.chunk
            /\ Total(i - 1) = (num_files - 1) * job.chunk /\ Total(i) = job.size
        BY <1>3, <3>1, <3>2 DEF Size, Total
      <4> QED
        BY <1>1, <2>2, <3>1, <4>1
    <3>3. CASE i # num_files
      <4>1. Size(i) = job.chunk /\ Total(i - 1) = (i - 1) * job.chunk /\ Total(i) = i * job.chunk
        BY <1>3, <3>1, <3>3 DEF Size, Total
      <4>2. \A e \in Nat, k \in Nat : (e + 1) * k = e * k + k
        OBVIOUS
      <4>3. i * job.chunk = (i - 1) * job.chunk + job.chunk
        BY <1>1, <3>1, <4>2
      <4> QED
        BY <1>1, <4>1, <4>3
    <3> QED
      BY <3>2, <3>3
  <2> QED
    BY <1>1, <1>3, <2>2, <2>3, <2>4
<1> QED
  BY <1>2, <1>3

-----------------------------------------------------------------------------
(* Transfer: the invariant.                                                *)

\* The last r files, and how many have been begun.
Rest(r) == [k \in 1 .. r |-> num_files - r + k]
Taken   == num_files - Len(extfiles)

\* The files are taken in their order.
ShapeInv ==
  /\ job \in Jobs
  /\ extfile \in {Null, Wild} \cup File
  /\ \E r \in 0 .. num_files : extfiles = Rest(r)
  /\ {current_file, fresh, limit, written, curTagOffset} \subseteq Nat
  /\ out \in [File -> Seq(Nat)]
  /\ puts \in [0 .. num_files -> Nat]
  /\ {interrupted, failed} \subseteq BOOLEAN
  /\ where \in {"start", "next", "move", "close", "done", "crash"}

\* A file is open only while it is written, and nothing is in a later one.
PlaceInv ==
  /\ where = "move" => /\ extfile \in File /\ extfile = Taken
                       /\ Len(out[extfile]) = written /\ written <= limit
  /\ where # "move" => extfile \in {Null, Wild}
  /\ extfile = Wild => where # "done" /\ Taken = 0 /\ \A i \in File : out[i] = <<>>
  /\ where = "crash" => extfile = Wild
  /\ \A i \in File : i > Taken => out[i] = <<>>

\* What was copied is the range up to the position in the tag file.
BytesInv ==
  /\ job.offset <= curTagOffset /\ curTagOffset <= job.len
  /\ Copied = [i \in 1 .. curTagOffset - job.offset |-> job.offset + i]

\* Exactly what is open or still to be written has not been put back.
PutsInv ==
  /\ where \notin {"done", "crash"} =>
       /\ puts[Tag] = 0
       /\ \A f \in File : puts[f] = IF f = extfile \/ f > Taken THEN 0 ELSE 1
  /\ where = "done" => \A f \in 0 .. num_files : puts[f] = 1
  /\ where = "crash" => \A f \in File : puts[f] = 0

\* Without an error or a stop every file has its size before the next one is
\* begun.
ProgressInv ==
  fresh = 0 /\ ~failed /\ ~interrupted =>
    /\ where # "close"
    /\ current_file = IF where = "move" THEN Taken - 1 ELSE Taken
    /\ where = "move" => limit = Size(Taken)
    /\ \A i \in File : i <= current_file => Len(out[i]) = Size(i)
    /\ curTagOffset - job.offset = Total(current_file) + (IF where = "move" THEN written ELSE 0)
    /\ where = "done" => Taken = num_files

TrInv == ShapeInv /\ PlaceInv /\ BytesInv /\ PutsInv /\ ProgressInv

\* A queue of files that is not empty begins with the next one.
LEMMA RestFacts ==
  ASSUME job \in Jobs, NEW r \in 0 .. num_files
  PROVE  /\ Len(Rest(r)) = r /\ Rest(r) \in Seq(File)
         /\ ToSet(Rest(r)) = (num_files - r + 1) .. num_files
         /\ r = 0 <=> Rest(r) = <<>>
         /\ r # 0 => Head(Rest(r)) = num_files - r + 1 /\ Tail(Rest(r)) = Rest(r - 1)
<1>0. num_files \in Nat /\ r \in Nat /\ r <= num_files
  BY JobFacts
<1>1. \A k \in 1 .. r : num_files - r + k \in File
  BY <1>0 DEF File
<1>2. Rest(r) \in [1 .. r -> File]
  BY <1>1 DEF Rest
<1>3. Rest(r) \in Seq(File) /\ Len(Rest(r)) = r /\ DOMAIN Rest(r) = 1 .. r
  BY <1>0, <1>2
<1>4. ToSet(Rest(r)) = (num_files - r + 1) .. num_files
  <2>1. ToSet(Rest(r)) = {Rest(r)[i] : i \in 1 .. r}
    BY <1>3 DEF ToSet
  <2>2. \A i \in 1 .. r : Rest(r)[i] \in (num_files - r + 1) .. num_files
    BY <1>0 DEF Rest
  <2>3. \A f \in (num_files - r + 1) .. num_files :
          f - (num_files - r) \in 1 .. r /\ Rest(r)[f - (num_files - r)] = f
    BY <1>0 DEF Rest
  <2> QED
    BY <2>1, <2>2, <2>3
<1>5. r = 0 <=> Rest(r) = <<>>
  BY <1>0, <1>3
<1>6. ASSUME r # 0
      PROVE  Head(Rest(r)) = num_files - r + 1 /\ Tail(Rest(r)) = Rest(r - 1)
  <2>1. PICK q \in Seq(File) : q = Rest(r)
    BY <1>3
  <2>2. q # <<>> /\ Len(q) = r
    BY <1>3, <1>5, <1>6, <2>1
  <2>3. Head(q) = q[1]
    BY <2>2
  <2>4. /\ Tail(q) \in Seq(File) /\ Len(Tail(q)) = r - 1
        /\ \A k \in 1 .. r - 1 : Tail(q)[k] = q[k + 1]
    BY <2>2, HeadTailProperties
  <2>5. \A k \in 1 .. r - 1 : k + 1 \in 1 .. r /\ q[k + 1] = num_files - (r - 1) + k
    BY <1>0, <2>1 DEF Rest
  <2>6. Tail(q) = Rest(r - 1)
    <3>1. PICK t \in Seq(File) : t = Tail(q)
      BY <2>4
    <3>2. t = [k \in 1 .. Len(t) |-> t[k]]
      OBVIOUS
    <3>3. Len(t) = r - 1 /\ \A k \in 1 .. r - 1 : t[k] = num_files - (r - 1) + k
      BY <2>4, <2>5, <3>1
    <3>4. t = [k \in 1 .. r - 1 |-> num_files - (r - 1) + k]
      BY <3>2, <3>3
    <3> QED
      BY <3>1, <3>4 DEF Rest
  <2>7. q[1] = num_files - r + 1
    BY <1>0, <1>6, <2>1 DEF Rest
  <2> QED
    BY <2>1, <2>3, <2>6, <2>7
<1> QED
  BY <1>3, <1>4, <1>5, <1>6

\* A thread begins with all files before it.
LEMMA TrInitInv == TrInit => TrInv
<1> SUFFICES ASSUME TrInit PROVE TrInv
  OBVIOUS
<1>0. /\ num_files \in Nat /\ job \in Jobs /\ job.offset \in Nat /\ job.len \in Nat
      /\ job.offset <= job.len /\ Total(0) = 0 /\ job.size \in Nat
  BY JobFacts DEF TrInit
<1>1. extfiles = Rest(num_files) /\ Len(extfiles) = num_files /\ Taken = 0
  <2>1. extfiles = Rest(num_files)
    BY <1>0 DEF TrInit, Rest
  <2> QED
    BY <1>0, <2>1, RestFacts DEF Taken
<1>2. ShapeInv
  <2>1. current_file \in Nat
    BY TransferAssumption DEF TrInit
  <2>2. <<>> \in Seq(Nat)
    OBVIOUS
  <2>3. \E r \in 0 .. num_files : extfiles = Rest(r)
    BY <1>0, <1>1
  <2>4. out \in [File -> Seq(Nat)] /\ puts \in [0 .. num_files -> Nat]
    BY <1>0, <2>2 DEF TrInit, File
  <2>5. {current_file, fresh, limit, written, curTagOffset} \subseteq Nat
    <3>1. fresh = current_file /\ limit = 0 /\ written = 0 /\ curTagOffset = job.offset
      BY DEF TrInit
    <3>2. 0 \in Nat
      OBVIOUS
    <3> QED
      BY <1>0, <2>1, <3>1, <3>2
  <2>6. extfile \in {Null, Wild} \cup File /\ {interrupted, failed} \subseteq BOOLEAN
    BY DEF TrInit
  <2> QED
    BY <2>3, <2>4, <2>5, <2>6 DEF TrInit, ShapeInv
<1>3. PlaceInv
  BY <1>1 DEF TrInit, PlaceInv, File, Null, Wild
<1>4. BytesInv
  <2>1. Copied = <<>>
    <3>1. out \in Seq(Seq(Nat)) /\ Len(out) = num_files /\ \A i \in 1 .. Len(out) : out[i] = <<>>
      BY <1>0 DEF TrInit
    <3> QED
      BY <3>1, FlattenType DEF Copied
  <2>2. curTagOffset = job.offset /\ job.offset - job.offset = 0
    BY <1>0 DEF TrInit
  <2>3. [i \in 1 .. 0 |-> job.offset + i] = <<>>
    OBVIOUS
  <2> QED
    BY <1>0, <2>1, <2>2, <2>3 DEF BytesInv
<1>5. PutsInv
  BY <1>0, <1>1 DEF TrInit, PutsInv, File, Tag
<1>6. ProgressInv
  BY <1>0, <1>1 DEF TrInit, ProgressInv, File
<1> QED
  BY <1>2, <1>3, <1>4, <1>5, <1>6 DEF TrInv

\* What the state of the files says about their queue.
LEMMA QueueFacts ==
  ASSUME ShapeInv
  PROVE  /\ num_files \in Nat /\ Len(extfiles) \in 0 .. num_files /\ Taken \in 0 .. num_files
         /\ extfiles = Rest(Len(extfiles)) /\ ToSet(extfiles) = (Taken + 1) .. num_files
         /\ extfiles = <<>> <=> Taken = num_files
         /\ extfiles # <<>> => /\ Head(extfiles) = Taken + 1 /\ Taken + 1 \in File
                               /\ Tail(extfiles) = Rest(Len(extfiles) - 1)
                               /\ Len(Tail(extfiles)) = Len(extfiles) - 1
<1>1. num_files \in Nat
  BY JobFacts DEF ShapeInv
<1>2. PICK r \in 0 .. num_files : extfiles = Rest(r)
  BY DEF ShapeInv
<1>3. /\ Len(extfiles) = r /\ ToSet(extfiles) = (num_files - r + 1) .. num_files
      /\ r = 0 <=> extfiles = <<>>
      /\ r # 0 => Head(extfiles) = num_files - r + 1 /\ Tail(extfiles) = Rest(r - 1)
  BY <1>2, RestFacts DEF ShapeInv
<1>4. r # 0 => Len(Rest(r - 1)) = r - 1
  <2>1. r # 0 => r - 1 \in 0 .. num_files
    BY <1>1
  <2> QED
    BY <2>1, RestFacts DEF ShapeInv
<1> QED
  BY <1>1, <1>2, <1>3, <1>4 DEF Taken, File

\* The thread begins, or gives up for want of memory.
LEMMA BeginInv == TrInv /\ trBegin => TrInv'
<1> SUFFICES ASSUME TrInv, trBegin PROVE TrInv'
  OBVIOUS
<1>1. UNCHANGED <<job, extfiles, extfile, current_file, fresh, limit, written,
                  curTagOffset, out, puts, interrupted>>
      /\ where = "start"
      /\ \/ where' = "next" /\ failed' = failed
         \/ where' = "close" /\ failed' = TRUE
  BY DEF trBegin
<1>2. /\ num_files' = num_files /\ File' = File /\ Taken' = Taken /\ Copied' = Copied
      /\ \A k : Total(k)' = Total(k) /\ Size(k)' = Size(k) /\ Rest(k)' = Rest(k)
  BY <1>1 DEF num_files, File, Taken, Copied, Total, Size, Rest, Copying
<1>3. ShapeInv'
  <2>1. failed' \in BOOLEAN
    BY <1>1 DEF TrInv, ShapeInv
  <2> QED
    BY <1>1, <1>2, <2>1 DEF TrInv, ShapeInv
<1> QED
  BY <1>1, <1>2, <1>3 DEF TrInv, PlaceInv, BytesInv, PutsInv, ProgressInv

\* A stop only says so.
LEMMA CancelInv == TrInv /\ threadOpCancel => TrInv'
<1> SUFFICES ASSUME TrInv, threadOpCancel PROVE TrInv'
  OBVIOUS
<1>1. UNCHANGED <<job, extfiles, extfile, current_file, fresh, limit, written,
                  curTagOffset, out, puts, failed, where>> /\ interrupted' = TRUE
  BY DEF threadOpCancel
<1>2. num_files' = num_files /\ File' = File /\ Taken' = Taken /\ Copied' = Copied
      /\ \A k : Rest(k)' = Rest(k)
  BY <1>1 DEF num_files, File, Taken, Copied, Rest
<1> QED
  BY <1>1, <1>2 DEF TrInv, ShapeInv, PlaceInv, BytesInv, PutsInv, ProgressInv

\* The next file is opened.
LEMMA NextChunkInv == TrInv /\ nextChunk => TrInv'
<1> SUFFICES ASSUME TrInv, nextChunk PROVE TrInv'
  OBVIOUS
<1>0. /\ num_files \in Nat /\ Len(extfiles) \in 0 .. num_files /\ Taken \in 0 .. num_files
      /\ Head(extfiles) = Taken + 1 /\ Taken + 1 \in File
      /\ Tail(extfiles) = Rest(Len(extfiles) - 1) /\ Len(Tail(extfiles)) = Len(extfiles) - 1
  BY QueueFacts DEF TrInv, nextChunk
<1>1. /\ UNCHANGED <<job, current_file, fresh, curTagOffset, out, puts, interrupted, failed>>
      /\ where = "next" /\ where' = "move" /\ written' = 0
      /\ extfile' = Taken + 1 /\ extfiles' = Tail(extfiles) /\ limit' = sizeForThisChunk
      /\ extfile \in {Null, Wild} /\ Len(extfiles) # 0
  BY <1>0 DEF nextChunk, resetWritten, TrInv, PlaceInv
<1>2. /\ num_files' = num_files /\ File' = File /\ Copied' = Copied
      /\ \A k : Total(k)' = Total(k) /\ Size(k)' = Size(k) /\ Rest(k)' = Rest(k)
  BY <1>1 DEF num_files, File, Copied, Total, Size, Rest, Copying
<1>3. Taken' = Taken + 1
  BY <1>0, <1>1, <1>2 DEF Taken
<1>4. /\ limit' \in Nat
      /\ current_file = Taken => limit' = Size(Taken + 1)
  <2>1. \A i \in File : Size(i) \in Nat
    BY JobFacts DEF TrInv, ShapeInv
  <2>2. job.chunk \in Nat /\ job.size \in Nat /\ num_files \in File /\ current_file \in Nat
    <3>1. job.chunk \in Nat /\ job.size \in Nat
      BY JobFacts DEF TrInv, ShapeInv
    <3>2. num_files \in File
      BY <1>0 DEF File
    <3>3. current_file \in Nat
      BY DEF TrInv, ShapeInv
    <3> QED
      BY <3>1, <3>2, <3>3
  <2>3. sizeForThisChunk \in {job.size, job.chunk, Size(num_files)}
    BY DEF sizeForThisChunk, Size
  <2>4. current_file = Taken => sizeForThisChunk = Size(Taken + 1)
    <3>1. Taken # num_files - 1 <=> Taken + 1 # num_files
      BY <1>0
    <3> QED
      BY <3>1 DEF sizeForThisChunk, Size
  <2> QED
    BY <1>1, <2>1, <2>2, <2>3, <2>4
<1>5. ShapeInv'
  <2>1. \E r \in 0 .. num_files : extfiles' = Rest(r)
    <3>1. Len(extfiles) - 1 \in 0 .. num_files
      BY <1>0, <1>1
    <3> QED
      BY <1>0, <1>1, <3>1
  <2>2. extfile' \in {Null, Wild} \cup File /\ written' \in Nat
    BY <1>0, <1>1
  <2> QED
    BY <1>1, <1>2, <1>4, <2>1, <2>2 DEF TrInv, ShapeInv
<1>6. PlaceInv'
  <2>1. out[Taken + 1] = <<>>
    BY <1>0 DEF TrInv, PlaceInv
  <2>2. extfile' # Wild
    BY <1>0, <1>1 DEF Wild, File
  <2>3. \A i \in File : i > Taken + 1 => out[i] = <<>>
    BY <1>0 DEF TrInv, PlaceInv, File
  <2>4. Len(<<>>) = 0 /\ 0 <= limit'
    BY <1>4
  <2> QED
    BY <1>0, <1>1, <1>2, <1>3, <2>1, <2>2, <2>3, <2>4 DEF PlaceInv
<1>7. BytesInv'
  BY <1>1, <1>2 DEF TrInv, BytesInv
<1>8. PutsInv'
  <2>1. \A f \in File : f = Taken + 1 \/ f > Taken + 1 <=> f > Taken
    BY <1>0 DEF File
  <2>2. \A f \in File : f # Null /\ f # Wild
    BY <1>0 DEF File, Null, Wild
  <2> QED
    BY <1>1, <1>2, <1>3, <2>1, <2>2 DEF TrInv, PutsInv
<1>9. ProgressInv'
  <2> SUFFICES ASSUME fresh' = 0, ~failed', ~interrupted'
               PROVE  /\ current_file' = Taken' - 1 /\ limit' = Size(Taken)'
                      /\ \A i \in File' : i <= current_file' => Len(out'[i]) = Size(i)'
                      /\ curTagOffset' - job'.offset = Total(current_file)' + written'
    BY <1>1 DEF ProgressInv
  <2>1. /\ current_file = Taken /\ \A i \in File : i <= current_file => Len(out[i]) = Size(i)
        /\ curTagOffset - job.offset = Total(current_file) + 0
    BY <1>1 DEF TrInv, ProgressInv
  <2>2. Taken = Taken' - 1
    BY <1>0, <1>3
  <2>3. Size(Taken)' = Size(Taken + 1)
    BY <1>1, <1>2, <1>3 DEF Size, num_files, Copying
  <2>4. Total(current_file)' = Total(current_file)
    BY <1>1, <1>2 DEF Total
  <2> QED
    BY <1>1, <1>2, <1>3, <1>4, <2>1, <2>2, <2>3, <2>4
<1> QED
  BY <1>5, <1>6, <1>7, <1>8, <1>9 DEF TrInv

\* Bytes that follow each other.
Bytes(o, m) == [i \in 1 .. m |-> o + i]

\* They are a sequence ...
LEMMA BytesAreSeq ==
  ASSUME NEW o \in Nat, NEW m \in Nat
  PROVE  Bytes(o, m) \in Seq(Nat) /\ Len(Bytes(o, m)) = m
<1>1. \A i \in 1 .. m : o + i \in Nat
  OBVIOUS
<1>2. Bytes(o, m) \in [1 .. m -> Nat]
  BY <1>1 DEF Bytes
<1> QED
  BY <1>2

\* ... and so are more of them behind it.
LEMMA BytesGrow ==
  ASSUME NEW o \in Nat, NEW m \in Nat, NEW k \in Nat
  PROVE  Bytes(o, m) \o Bytes(o + m, k) = Bytes(o, m + k)
<1>1. PICK a \in Seq(Nat) : a = Bytes(o, m) /\ Len(a) = m
  BY BytesAreSeq
<1>2. PICK b \in Seq(Nat) : b = Bytes(o + m, k) /\ Len(b) = k
  <2>1. o + m \in Nat
    OBVIOUS
  <2> QED
    BY <2>1, BytesAreSeq
<1>3. /\ a \o b \in Seq(Nat) /\ Len(a \o b) = m + k
      /\ \A i \in 1 .. m + k : (a \o b)[i] = IF i <= m THEN a[i] ELSE b[i - m]
  <2>1. /\ a \o b \in Seq(Nat) /\ Len(a \o b) = Len(a) + Len(b)
        /\ \A i \in 1 .. Len(a) + Len(b) : (a \o b)[i] = IF i <= Len(a) THEN a[i] ELSE b[i - Len(a)]
    BY ConcatProperties
  <2>2. Len(a) = m /\ Len(b) = k
    BY <1>1, <1>2
  <2> QED
    BY <2>1, <2>2
<1>4. ASSUME NEW i \in 1 .. m + k PROVE (a \o b)[i] = o + i
  <2>0. i \in Nat /\ i >= 1 /\ i <= m + k
    OBVIOUS
  <2>1. CASE i <= m
    <3>1. i \in 1 .. m
      BY <2>0, <2>1
    <3>2. a[i] = o + i
      BY <1>1, <3>1 DEF Bytes
    <3> QED
      BY <1>3, <2>1, <3>2
  <2>2. CASE i > m
    <3>1. i - m \in 1 .. k
      BY <2>0, <2>2
    <3>2. (a \o b)[i] = b[i - m]
      BY <1>3, <2>0, <2>2
    <3>3. b[i - m] = (o + m) + (i - m)
      BY <1>2, <3>1 DEF Bytes
    <3> QED
      BY <2>0, <3>2, <3>3
  <2>3. i <= m \/ i > m
    BY <2>0
  <2> QED
    BY <2>1, <2>2, <2>3
<1>5. a \o b = [i \in 1 .. m + k |-> o + i]
  <2>1. PICK c \in Seq(Nat) : c = a \o b
    BY <1>3
  <2>2. c = [i \in 1 .. Len(c) |-> c[i]]
    OBVIOUS
  <2> QED
    BY <1>3, <1>4, <2>1, <2>2
<1> QED
  BY <1>1, <1>2, <1>5 DEF Bytes

\* Something is read and some of it written.
LEMMA MoveInv == TrInv /\ move => TrInv'
<1> SUFFICES ASSUME TrInv, move PROVE TrInv'
  OBVIOUS
<1>0. /\ where = "move" /\ ~interrupted /\ written < limit
      /\ UNCHANGED <<job, extfiles, extfile, current_file, fresh, limit, puts, interrupted, failed, where>>
      /\ extfile \in File /\ extfile = Taken /\ Len(out[extfile]) = written
      /\ out \in [File -> Seq(Nat)] /\ written \in Nat /\ limit \in Nat /\ curTagOffset \in Nat
      /\ job.offset \in Nat /\ job.len \in Nat /\ num_files \in Nat /\ job.offset <= curTagOffset
  BY JobFacts DEF move, Moving, TrInv, ShapeInv, PlaceInv, BytesInv
<1>1. PICK rd \in 1 .. TRANSFER_SIZE, put \in Nat :
        /\ put \in 1 .. rd
        /\ rd <= limit - written /\ curTagOffset + rd <= job.len
        /\ out' = [out EXCEPT ![extfile] = @ \o [i \in 1 .. put |-> curTagOffset + i]]
        /\ written' = written + put /\ curTagOffset' = curTagOffset + put
  <2>1. \A rd \in 1 .. TRANSFER_SIZE : \A put \in 1 .. rd : put \in Nat
    BY TransferAssumption
  <2> QED
    BY <2>1 DEF move, advance
<1> DEFINE d == Bytes(curTagOffset, put)
<1>2. /\ put \in Nat /\ rd \in Nat /\ put <= rd
      /\ written' \in Nat /\ written' <= limit /\ curTagOffset' \in Nat /\ curTagOffset' <= job.len
  BY <1>0, <1>1, TransferAssumption
<1>3. d \in Seq(Nat) /\ Len(d) = put /\ d = [i \in 1 .. put |-> curTagOffset + i]
  BY <1>0, <1>2, BytesAreSeq DEF Bytes
<1> HIDE DEF d
<1>4. /\ num_files' = num_files /\ File' = File /\ Taken' = Taken
      /\ \A k : Total(k)' = Total(k) /\ Size(k)' = Size(k) /\ Rest(k)' = Rest(k)
  BY <1>0 DEF num_files, File, Taken, Total, Size, Rest, Copying
<1>5. /\ out' \in [File -> Seq(Nat)] /\ Len(out'[extfile]) = written'
      /\ \A i \in File : i # extfile => out'[i] = out[i]
  <2>1. out[extfile] \o d \in Seq(Nat) /\ Len(out[extfile] \o d) = written + put
    <3>1. PICK o \in Seq(Nat) : o = out[extfile] /\ Len(o) = written
      BY <1>0
    <3>2. d \in Seq(Nat) /\ o \in Seq(Nat)
      BY <1>3
    <3>3. o \o d \in Seq(Nat) /\ Len(o \o d) = Len(o) + Len(d)
      BY ONLY <3>2
    <3> QED
      BY <1>3, <3>1, <3>3
  <2>2. out' = [out EXCEPT ![extfile] = out[extfile] \o d]
    BY <1>1, <1>3
  <2> QED
    BY <1>0, <1>1, <2>1, <2>2
<1>6. Copied' = Copied \o d
  <2>1. out \in Seq(Seq(Nat)) /\ Len(out) = num_files
    BY <1>0 DEF File
  <2>2. \A j \in 1 .. Len(out) : j > extfile => out[j] = <<>>
    BY <1>0, <2>1 DEF TrInv, PlaceInv, File
  <2>3. extfile \in 1 .. Len(out)
    BY <1>0, <2>1 DEF File
  <2>4. /\ out' \in Seq(Seq(Nat)) /\ Len(out') = num_files
        /\ out'[extfile] = out[extfile] \o d
        /\ \A i \in 1 .. Len(out) : i # extfile => out'[i] = out[i]
    <3>1. out' \in [1 .. num_files -> Seq(Nat)] /\ num_files \in Nat
      BY <1>0, <1>5 DEF File
    <3>2. out' \in Seq(Seq(Nat)) /\ Len(out') = num_files
      BY ONLY <3>1
    <3>3. out'[extfile] = out[extfile] \o d
      BY <1>0, <1>1, <1>3
    <3>4. \A i \in 1 .. Len(out) : i # extfile => out'[i] = out[i]
      BY <1>5, <2>1 DEF File
    <3> QED
      BY <3>2, <3>3, <3>4
  <2>5. PICK q \in Seq(Seq(Nat)) : q = out
    BY <2>1
  <2>6. PICK p \in Seq(Seq(Nat)) : p = out'
    BY <2>4
  <2>7. /\ d \in Seq(Nat) /\ extfile \in 1 .. Len(q) /\ Len(p) = Len(q)
        /\ \A j \in 1 .. Len(q) : j > extfile => q[j] = <<>>
        /\ p[extfile] = q[extfile] \o d
        /\ \A i \in 1 .. Len(q) : i # extfile => p[i] = q[i]
    BY <1>3, <2>1, <2>2, <2>3, <2>4, <2>5, <2>6
  <2>8. FlattenSeq(p) = FlattenSeq(q) \o d
    <3>1. GrowsAt(q, p, extfile, d) /\ d \in Seq(Nat)
      BY <2>7 DEF GrowsAt
    <3> QED
      BY ONLY <2>5, <2>6, <3>1, FlattenGrows
  <2> QED
    BY <2>5, <2>6, <2>8 DEF Copied
<1>7. BytesInv'
  <2>1. PICK m \in Nat : m = curTagOffset - job.offset
    BY <1>0
  <2>2. curTagOffset = job.offset + m
    BY <1>0, <2>1
  <2>3. Copied' = [i \in 1 .. m + put |-> job.offset + i]
    <3>1. Copied = Bytes(job.offset, m)
      BY <2>1 DEF TrInv, BytesInv, Bytes
    <3>2. d = Bytes(job.offset + m, put)
      BY <2>2 DEF d
    <3>3. Bytes(job.offset, m) \o Bytes(job.offset + m, put) = Bytes(job.offset, m + put)
      <4>1. job.offset \in Nat /\ put \in Nat
        BY <1>0, <1>2
      <4>2. \A o, x, y \in Nat : Bytes(o, x) \o Bytes(o + x, y) = Bytes(o, x + y)
        BY BytesGrow
      <4> QED
        BY <4>1, <4>2
    <3> QED
      BY <1>6, <3>1, <3>2, <3>3 DEF Bytes
  <2>4. m + put = curTagOffset' - job.offset
    BY <1>0, <1>1, <1>2, <2>1
  <2>5. job.offset <= curTagOffset'
    BY <1>0, <1>1, <1>2
  <2> QED
    BY <1>0, <1>2, <2>3, <2>4, <2>5 DEF BytesInv
<1>8. ShapeInv'
  BY <1>0, <1>2, <1>4, <1>5 DEF TrInv, ShapeInv
<1>9. PlaceInv'
  <2>1. extfile # Wild /\ \A i \in File : i > Taken => i # extfile
    BY <1>0 DEF Wild, File
  <2> QED
    BY <1>0, <1>2, <1>4, <1>5, <2>1 DEF TrInv, PlaceInv
<1>10. PutsInv'
  BY <1>0, <1>4 DEF TrInv, PutsInv
<1>11. ProgressInv'
  <2> SUFFICES ASSUME fresh = 0, ~failed
               PROVE  /\ current_file = Taken - 1 /\ limit = Size(Taken)
                      /\ \A i \in File : i <= current_file => Len(out'[i]) = Size(i)
                      /\ curTagOffset' - job.offset = Total(current_file) + written'
    BY <1>0, <1>4 DEF ProgressInv
  <2>1. /\ current_file = Taken - 1 /\ limit = Size(Taken)
        /\ \A i \in File : i <= current_file => Len(out[i]) = Size(i)
        /\ curTagOffset - job.offset = Total(current_file) + written
    BY <1>0 DEF TrInv, ProgressInv
  <2>2. \A i \in File : i <= current_file => i # extfile
    BY <1>0, <2>1 DEF File
  <2>3. Total(current_file) \in Int
    <3>1. current_file \in Nat /\ job.chunk \in Nat /\ job.size \in Nat
      BY JobFacts DEF TrInv, ShapeInv
    <3>2. \A k, z \in Nat : k * z \in Nat
      OBVIOUS
    <3>3. current_file * job.chunk \in Nat
      BY <3>1, <3>2
    <3> QED
      BY <3>1, <3>3 DEF Total
  <2>4. curTagOffset' - job.offset = Total(current_file) + written'
    <3>1. PICK t \in Int : t = Total(current_file)
      BY <2>3
    <3>2. curTagOffset - job.offset = t + written
      BY <2>1, <3>1
    <3>3. curTagOffset' = curTagOffset + put /\ written' = written + put
      BY <1>1
    <3>4. /\ curTagOffset \in Nat /\ job.offset \in Nat /\ written \in Nat /\ put \in Nat
          /\ t \in Int
      BY <1>0, <1>2
    <3>5. (curTagOffset + put) - job.offset = t + (written + put)
      BY ONLY <3>2, <3>4
    <3> QED
      BY <3>1, <3>3, <3>5
  <2>5. \A i \in File : i <= current_file => Len(out'[i]) = Size(i)
    BY <1>5, <2>1, <2>2
  <2> QED
    BY <2>1, <2>4, <2>5
<1> QED
  BY <1>7, <1>8, <1>9, <1>10, <1>11 DEF TrInv

\* An error: everything that is open or left is put back.
LEMMA FailsInv == TrInv /\ moveFails => TrInv'
<1> SUFFICES ASSUME TrInv, moveFails PROVE TrInv'
  OBVIOUS
<1>0. /\ num_files \in Nat /\ Taken \in 0 .. num_files /\ ToSet(extfiles) = (Taken + 1) .. num_files
      /\ extfile \in File /\ extfile = Taken
  BY QueueFacts DEF TrInv, moveFails, Moving, PlaceInv
<1>1. /\ UNCHANGED <<job, current_file, fresh, limit, written, curTagOffset, out, interrupted>>
      /\ where = "move" /\ where' = "close" /\ failed' = TRUE
      /\ extfile' = Null /\ extfiles' = <<>>
      /\ puts' = [f \in DOMAIN puts |-> IF f \in {extfile} \cup ToSet(extfiles) THEN puts[f] + 1 ELSE puts[f]]
  BY DEF moveFails, Moving, Put
<1>2. num_files' = num_files /\ File' = File /\ Copied' = Copied /\ (\A k : Rest(k)' = Rest(k))
      /\ Taken' = num_files
  BY <1>0, <1>1 DEF num_files, File, Copied, Rest, Taken
<1>3. puts \in [0 .. num_files -> Nat]
  BY DEF TrInv, ShapeInv
<1>4. ShapeInv'
  <2>1. <<>> = Rest(0) /\ 0 \in 0 .. num_files
    BY <1>0 DEF Rest
  <2>2. puts' \in [0 .. num_files -> Nat]
    BY <1>1, <1>3
  <2>3. \E r \in 0 .. num_files : extfiles' = Rest(r)
    BY <1>1, <2>1
  <2> QED
    BY <1>1, <1>2, <2>2, <2>3 DEF TrInv, ShapeInv
<1>5. PlaceInv'
  BY <1>0, <1>1, <1>2 DEF PlaceInv, Null, Wild, File
<1>6. BytesInv'
  BY <1>1, <1>2 DEF TrInv, BytesInv
<1>7. PutsInv'
  <2>1. puts[Tag] = 0 /\ \A f \in File : puts[f] = IF f = extfile \/ f > Taken THEN 0 ELSE 1
    BY <1>1 DEF TrInv, PutsInv
  <2>2. puts'[Tag] = 0
    BY <1>0, <1>1, <1>3, <2>1 DEF Tag, File
  <2>3. ASSUME NEW f \in File PROVE puts'[f] = 1
    <3>1. f \in DOMAIN puts /\ (f \in {extfile} \cup ToSet(extfiles) <=> f = extfile \/ f > Taken)
      BY <1>0, <1>3 DEF File
    <3> QED
      BY <1>1, <2>1, <3>1
  <2>4. \A f \in File : f # Null /\ ~(f > num_files)
    BY <1>0 DEF File, Null
  <2> QED
    BY <1>1, <1>2, <2>2, <2>3, <2>4 DEF PutsInv
<1>8. ProgressInv'
  BY <1>1 DEF ProgressInv
<1> QED
  BY <1>4, <1>5, <1>6, <1>7, <1>8 DEF TrInv

\* A chunk that is full, or was stopped, is put back.
LEMMA EndChunkInv == TrInv /\ endChunk => TrInv'
<1> SUFFICES ASSUME TrInv, endChunk PROVE TrInv'
  OBVIOUS
<1>0. /\ num_files \in Nat /\ Taken \in 0 .. num_files
      /\ where = "move" /\ extfile \in File /\ extfile = Taken
      /\ Len(out[extfile]) = written /\ written <= limit
      /\ interrupted \/ written >= limit
      /\ written \in Nat /\ limit \in Nat /\ current_file \in Nat
  BY QueueFacts DEF TrInv, endChunk, chunkDone, PlaceInv, ShapeInv
<1>1. /\ UNCHANGED <<job, extfiles, fresh, limit, written, curTagOffset, out, interrupted, failed>>
      /\ where' = "next" /\ extfile' = Null /\ current_file' = current_file + 1
      /\ puts' = [f \in DOMAIN puts |-> IF f \in {extfile} THEN puts[f] + 1 ELSE puts[f]]
  BY DEF endChunk, Put, forgetExtfile
<1>2. /\ num_files' = num_files /\ File' = File /\ Taken' = Taken /\ Copied' = Copied
      /\ \A k : Size(k)' = Size(k) /\ Rest(k)' = Rest(k)
  BY <1>1 DEF num_files, File, Taken, Copied, Size, Rest, Copying
<1>3. puts \in [0 .. num_files -> Nat]
  BY DEF TrInv, ShapeInv
<1>4. ShapeInv'
  <2>1. puts' \in [0 .. num_files -> Nat]
    BY <1>1, <1>3
  <2>2. current_file' \in Nat
    BY <1>0, <1>1
  <2> QED
    BY <1>1, <1>2, <2>1, <2>2 DEF TrInv, ShapeInv
<1>5. PlaceInv'
  BY <1>1, <1>2 DEF TrInv, PlaceInv, Null, Wild
<1>6. BytesInv'
  BY <1>1, <1>2 DEF TrInv, BytesInv
<1>7. PutsInv'
  <2>1. puts[Tag] = 0 /\ \A f \in File : puts[f] = IF f = extfile \/ f > Taken THEN 0 ELSE 1
    BY <1>0 DEF TrInv, PutsInv
  <2>2. puts'[Tag] = 0
    BY <1>0, <1>1, <1>3, <2>1 DEF Tag, File
  <2>3. ASSUME NEW f \in File PROVE puts'[f] = IF f > Taken THEN 0 ELSE 1
    <3>1. f \in DOMAIN puts
      BY <1>0, <1>3 DEF File
    <3>2. ~(extfile > Taken)
      BY <1>0
    <3> QED
      BY <1>1, <2>1, <3>1, <3>2
  <2>4. \A f \in File : f # Null
    BY <1>0 DEF File, Null
  <2> QED
    BY <1>1, <1>2, <2>2, <2>3, <2>4 DEF PutsInv
<1>8. ProgressInv'
  <2> SUFFICES ASSUME fresh = 0, ~failed, ~interrupted
               PROVE  /\ current_file + 1 = Taken
                      /\ \A i \in File : i <= current_file + 1 => Len(out[i]) = Size(i)
                      /\ curTagOffset - job.offset = Total(Taken) + 0
    <3>1. current_file + 1 = Taken => Total(current_file)' = Total(Taken)
      BY <1>1, <1>2 DEF Total
    <3> QED
      BY <1>1, <1>2, <3>1 DEF ProgressInv
  <2>1. /\ current_file = Taken - 1 /\ limit = Size(Taken)
        /\ \A i \in File : i <= current_file => Len(out[i]) = Size(i)
        /\ curTagOffset - job.offset = Total(current_file) + written
    BY <1>0 DEF TrInv, ProgressInv
  <2>2. written = Size(Taken)
    BY <1>0, <2>1
  <2>3. current_file + 1 = Taken
    BY <1>0, <2>1
  <2>4. ASSUME NEW i \in File, i <= current_file + 1 PROVE Len(out[i]) = Size(i)
    <3>1. i <= current_file \/ i = Taken
      BY <1>0, <2>3, <2>4 DEF File
    <3> QED
      BY <1>0, <2>1, <2>2, <3>1
  <2>5. Total(Taken - 1) + Size(Taken) = Total(Taken) /\ Total(Taken) + 0 = Total(Taken)
    <3>1. Taken \in File /\ job \in Jobs
      BY <1>0 DEF TrInv, ShapeInv
    <3>2. Total(Taken - 1) + Size(Taken) = Total(Taken)
      BY <3>1, JobFacts
    <3>3. Total(Taken) \in Int
      <4>1. job.chunk \in Nat /\ job.size \in Nat
        BY <3>1, JobFacts
      <4>2. \A k, z \in Nat : k * z \in Int
        OBVIOUS
      <4>3. Taken * job.chunk \in Int
        BY <1>0, <4>1, <4>2
      <4> QED
        BY <4>1, <4>3 DEF Total
    <3> QED
      BY <3>2, <3>3
  <2> QED
    BY <2>1, <2>2, <2>3, <2>4, <2>5
<1> QED
  BY <1>4, <1>5, <1>6, <1>7, <1>8 DEF TrInv

\* The pointer that was never set is followed before anything is put back.
LEMMA CrashInv == TrInv /\ cleanup /\ extfile = Wild => TrInv'
<1> SUFFICES ASSUME TrInv, cleanup, extfile = Wild PROVE TrInv'
  OBVIOUS
<1>1. /\ UNCHANGED <<job, extfiles, extfile, current_file, fresh, limit, written, curTagOffset,
                     out, puts, interrupted, failed>>
      /\ where \in {"close", "next"} /\ where' = "crash"
  BY DEF cleanup
<1>2. /\ num_files' = num_files /\ File' = File /\ Taken' = Taken /\ Copied' = Copied
      /\ \A k : Total(k)' = Total(k) /\ Size(k)' = Size(k) /\ Rest(k)' = Rest(k)
  BY <1>1 DEF num_files, File, Taken, Copied, Total, Size, Rest, Copying
<1>3. ShapeInv' /\ BytesInv' /\ PlaceInv'
  BY <1>1, <1>2 DEF TrInv, ShapeInv, BytesInv, PlaceInv
<1>4. PutsInv'
  <2>1. \A f \in File : puts[f] = IF f = extfile \/ f > Taken THEN 0 ELSE 1
    BY <1>1 DEF TrInv, PutsInv
  <2>2. Taken = 0
    BY DEF TrInv, PlaceInv
  <2>3. \A f \in File : puts[f] = 0
    BY <2>1, <2>2 DEF File
  <2> QED
    BY <1>1, <1>2, <2>3 DEF PutsInv
<1>5. ProgressInv'
  BY <1>1, <1>2 DEF TrInv, ProgressInv
<1> QED
  BY <1>3, <1>4, <1>5 DEF TrInv

\* The thread ends: the tag and what is left are put back.
LEMMA CleanupInv == TrInv /\ cleanup /\ extfile # Wild => TrInv'
<1> SUFFICES ASSUME TrInv, cleanup, extfile # Wild PROVE TrInv'
  OBVIOUS
<1>0. /\ num_files \in Nat /\ Taken \in 0 .. num_files /\ ToSet(extfiles) = (Taken + 1) .. num_files
      /\ extfile = Null /\ puts \in [0 .. num_files -> Nat]
      /\ extfiles = <<>> <=> Taken = num_files
  BY QueueFacts DEF TrInv, ShapeInv, cleanup, PlaceInv
<1>1. /\ UNCHANGED <<job, extfile, current_file, fresh, limit, written, curTagOffset, out,
                     interrupted, failed>>
      /\ where \in {"close", "next"}
      /\ where = "next" => extfiles = <<>> \/ interrupted
      /\ extfiles' = <<>> /\ where' = "done"
      /\ puts' = [f \in DOMAIN puts |-> IF f \in {Tag, extfile} \cup ToSet(extfiles)
                                         THEN puts[f] + 1 ELSE puts[f]]
  BY DEF cleanup, Put
<1>2. num_files' = num_files /\ File' = File /\ Copied' = Copied /\ (\A k : Rest(k)' = Rest(k))
      /\ Taken' = num_files
  BY <1>0, <1>1 DEF num_files, File, Copied, Rest, Taken
<1>3. \A k : Size(k)' = Size(k) /\ Total(k)' = Total(k)
  BY <1>1, <1>2 DEF Size, Total, Copying
<1>4. ShapeInv'
  <2>1. <<>> = Rest(0) /\ 0 \in 0 .. num_files
    BY <1>0 DEF Rest
  <2>2. puts' \in [0 .. num_files -> Nat]
    <3>1. ASSUME NEW f \in 0 .. num_files PROVE puts'[f] \in Nat
      BY <1>0, <1>1
    <3> QED
      BY <1>0, <1>1, <3>1
  <2>3. \E r \in 0 .. num_files : extfiles' = Rest(r)
    BY <1>1, <2>1
  <2> QED
    BY <1>1, <1>2, <2>2, <2>3 DEF TrInv, ShapeInv
<1>5. PlaceInv'
  <2>1. \A i \in File : i > num_files => out[i] = <<>>
    BY <1>0 DEF File
  <2>2. extfile # Wild
    BY <1>0 DEF Null, Wild
  <2> QED
    BY <1>0, <1>1, <1>2, <2>1, <2>2 DEF PlaceInv
<1>6. BytesInv'
  BY <1>1, <1>2 DEF TrInv, BytesInv
<1>7. PutsInv'
  <2>1. puts[Tag] = 0 /\ \A f \in File : puts[f] = IF f = extfile \/ f > Taken THEN 0 ELSE 1
    BY <1>1 DEF TrInv, PutsInv
  <2>2. puts'[Tag] = 1
    <3>1. Tag \in DOMAIN puts
      BY <1>0 DEF Tag
    <3> QED
      BY <1>1, <2>1, <3>1
  <2>3. ASSUME NEW f \in File PROVE puts'[f] = 1
    <3>1. f \in DOMAIN puts /\ f # Tag /\ f # extfile /\ (f \in ToSet(extfiles) <=> f > Taken)
      BY <1>0 DEF File, Tag, Null
    <3> QED
      BY <1>1, <2>1, <3>1
  <2>4. \A f \in 0 .. num_files : f = Tag \/ f \in File
    BY <1>0 DEF File, Tag
  <2> QED
    BY <1>1, <1>2, <2>2, <2>3, <2>4 DEF PutsInv
<1>8. ProgressInv'
  <2> SUFFICES ASSUME fresh = 0, ~failed, ~interrupted
               PROVE  /\ current_file = num_files
                      /\ \A i \in File : i <= current_file => Len(out[i]) = Size(i)
                      /\ curTagOffset - job.offset = Total(current_file) + 0
    BY <1>1, <1>2, <1>3 DEF ProgressInv
  <2>1. where = "next"
    BY <1>1 DEF TrInv, ProgressInv
  <2>2. extfiles = <<>> /\ Taken = num_files
    BY <1>0, <1>1, <2>1
  <2> QED
    BY <2>1, <2>2 DEF TrInv, ProgressInv
<1> QED
  BY <1>4, <1>5, <1>6, <1>7, <1>8 DEF TrInv

\* Each step, the one that moves nothing too, keeps the invariant.
LEMMA TrNextInv == TrInv /\ [TrNext]_trVars => TrInv'
<1> SUFFICES ASSUME TrInv, [TrNext]_trVars PROVE TrInv'
  OBVIOUS
<1>1. CASE trThread
  BY <1>1, BeginInv, NextChunkInv, MoveInv, FailsInv, EndChunkInv, CrashInv, CleanupInv DEF trThread
<1>2. CASE threadOpCancel
  BY <1>2, CancelInv
<1>3. CASE UNCHANGED trVars
  <2>1. UNCHANGED <<job, extfiles, extfile, current_file, fresh, limit, written, curTagOffset,
                    out, puts, interrupted, failed, where>>
    BY <1>3 DEF trVars
  <2>2. /\ num_files' = num_files /\ File' = File /\ Taken' = Taken /\ Copied' = Copied
        /\ \A k : Total(k)' = Total(k) /\ Size(k)' = Size(k) /\ Rest(k)' = Rest(k)
    BY <2>1 DEF num_files, File, Taken, Copied, Total, Size, Rest, Copying
  <2>3. ShapeInv' /\ PlaceInv' /\ BytesInv' /\ PutsInv'
    BY <2>1, <2>2 DEF TrInv, ShapeInv, PlaceInv, BytesInv, PutsInv
  <2>4. ProgressInv'
    <3>1. Size(Taken)' = Size(Taken) /\ Total(current_file)' = Total(current_file)
      BY <2>1, <2>2 DEF Size, Total, Copying
    <3> QED
      BY <2>1, <2>2, <3>1 DEF TrInv, ProgressInv
  <2> QED
    BY <2>3, <2>4 DEF TrInv
<1>4. CASE moveNothing
  BY <1>3, <1>4 DEF moveNothing
<1> QED
  BY <1>1, <1>2, <1>3, <1>4 DEF TrNext

\* The files, the queue, the counters and what was put back agree in every
\* state of a CPY or DMP.
THEOREM TransferInvariant == TrSpec => []TrInv
<1>1. TrInit => TrInv
  BY TrInitInv
<1>2. TrInv /\ [TrNext]_trVars => TrInv'
  BY TrNextInv
<1> QED
  BY <1>1, <1>2, PTL DEF TrSpec

\* What the invariant says of the thread's result.
LEMMA TransferIsSound == TrInv => TransferSound
<1> SUFFICES ASSUME TrInv PROVE TransferSound
  OBVIOUS
<1>0. /\ job \in Jobs /\ num_files \in Nat /\ out \in [File -> Seq(Nat)]
      /\ job.offset \in Nat /\ job.len \in Nat /\ job.size \in Nat /\ curTagOffset \in Nat
      /\ job.offset <= curTagOffset /\ curTagOffset <= job.len
      /\ Copied = Bytes(job.offset, curTagOffset - job.offset)
      /\ current_file \in Nat
  BY JobFacts DEF TrInv, ShapeInv, BytesInv, Bytes
<1>1. PICK m \in Nat : m = curTagOffset - job.offset
  BY <1>0
<1>2. Len(Copied) = m /\ m <= job.len - job.offset /\ \A i \in 1 .. m : Copied[i] = job.offset + i
  <2>1. Copied = Bytes(job.offset, m)
    BY <1>0, <1>1
  <2>2. Len(Bytes(job.offset, m)) = m
    BY <1>0, BytesAreSeq
  <2>3. \A i \in 1 .. m : Bytes(job.offset, m)[i] = job.offset + i
    BY DEF Bytes
  <2> QED
    BY <1>0, <1>1, <2>1, <2>2, <2>3
<1>3. TransferTypeOK
  <2>1. DOMAIN puts = 0 .. num_files /\ extfile \in {Null, Wild} \cup 1 .. num_files
    BY DEF TrInv, ShapeInv, File
  <2> QED
    BY <1>2, <2>1 DEF TrInv, PlaceInv, TransferTypeOK
<1>4. CopiesInOrder
  BY <1>2 DEF CopiesInOrder
<1>5. CopiesAll
  <2> SUFFICES ASSUME where = "done", ~interrupted, ~failed, fresh = 0
               PROVE  /\ Len(Copied) = job.size
                      /\ \A i \in 1 .. num_files - 1 : Len(out[i]) = job.chunk
    BY DEF CopiesAll
  <2>1. /\ current_file = num_files
        /\ \A i \in File : i <= current_file => Len(out[i]) = Size(i)
        /\ curTagOffset - job.offset = Total(current_file) + 0
    BY DEF TrInv, ProgressInv
  <2>2. Len(Copied) = job.size
    BY <1>0, <1>1, <1>2, <2>1 DEF Total
  <2>3. ASSUME NEW i \in 1 .. num_files - 1 PROVE Len(out[i]) = job.chunk
    <3>1. i \in File /\ i <= num_files /\ i # num_files /\ num_files # 1
      BY <1>0 DEF File
    <3>2. ~Copying
      BY <1>0, <3>1, JobFacts
    <3> QED
      BY <2>1, <3>1, <3>2 DEF Size
  <2> QED
    BY <2>2, <2>3
<1>6. ReturnsAllFiles
  <2>1. DOMAIN puts = 0 .. num_files
    BY DEF TrInv, ShapeInv
  <2>2. where = "done" => \A f \in DOMAIN puts : puts[f] = 1
    BY <2>1 DEF TrInv, PutsInv
  <2>3. where = "crash" => \A f \in 1 .. num_files : out[f] = <<>> /\ puts[f] = 0
    BY DEF TrInv, PutsInv, PlaceInv, File
  <2> QED
    BY <2>2, <2>3 DEF ReturnsAllFiles
<1> QED
  BY <1>3, <1>4, <1>5, <1>6 DEF TransferSound

\* A CPY or DMP writes the bytes from its offset on, each once and in order,
\* writes the whole range when nothing failed or stopped it and the counter
\* began at zero, and has given every file back exactly once when it is done.
\* Only a dump that never began a chunk crashes, before it gives any back.
THEOREM TransferSoundAlways == TrSpec => []TransferSound
BY TransferInvariant, TransferIsSound, PTL

-----------------------------------------------------------------------------
(* Commander: the inductive invariant.                                     *)

AnswerSet == [run : Run, accept : BOOLEAN, n : Nat]

\* The command that answer a is for is one that was acted on, or refused.
Founded(a, acted) == a.run \in acted \/ opts[a.run].text = "inconsistent"

\* The types of the clients, and who has the port.
ClientInv ==
  /\ prog \in [Run -> {"off", "open", "wait", "end"}]
  /\ waited \in [Run -> 0 .. Patience]
  /\ DOMAIN result = Run /\ DOMAIN got = Run
  /\ \A r \in Run : prog[r] \in {"open", "wait"} <=> port = r
  /\ \A r \in Run : prog[r] = "end" <=> result[r] # "none"
  /\ losses \in 0 .. MaxLost /\ copies \in 0 .. MaxDup

\* Every answer on its way to a run has a reason.
AnswerInv ==
  /\ toDR \subseteq Run /\ processed \subseteq Run
  /\ queue \in Seq(Run) /\ responses \in Seq(AnswerSet)
  /\ toClient \subseteq AnswerSet
  /\ \A a \in toClient : a.run \in answered /\ Founded(a, processed)
  /\ \A i \in 1 .. Len(responses) : Founded(responses[i], processed)

CmInv == ClientInv /\ AnswerInv /\ PassIsMine /\ DownIsAnnounced

-----------------------------------------------------------------------------
(* Commander: the runs of Msender.                                         *)

\* What is left alone when a client steps.
LEMMA RecorderSame ==
  ASSUME CmInv, UNCHANGED <<opts, drVars>>, toClient' \subseteq toClient,
         toDR' \subseteq Run
  PROVE  AnswerInv' /\ DownIsAnnounced'
<1>1. /\ opts' = opts /\ queue' = queue /\ responses' = responses
      /\ processed' = processed /\ answered' = answered
      /\ shutdownRequested' = shutdownRequested /\ down' = down
  BY DEF drVars
<1>2. AnswerInv'
  BY <1>1 DEF CmInv, AnswerInv, AnswerSet, Founded
<1>3. DownIsAnnounced'
  BY <1>1 DEF CmInv, DownIsAnnounced
<1> QED
  BY <1>2, <1>3

\* A run that ends with anything but a PASS.
LEMMA ExitKeeps ==
  ASSUME ClientInv, PassIsMine, NEW r \in Run, prog[r] # "end", NEW how,
         how \in {"usage", "noport", "sent", "timeout"}, exits(r, how),
         UNCHANGED <<opts, waited, got, processed, copies>>, losses' \in 0 .. MaxLost
  PROVE  ClientInv' /\ PassIsMine'
<1>1. /\ prog' = [prog EXCEPT ![r] = "end"] /\ result' = [result EXCEPT ![r] = how]
      /\ port' = IF port = r THEN NoRun ELSE port
  BY DEF exits
<1>2. ClientInv'
  <2>1. /\ prog' \in [Run -> {"off", "open", "wait", "end"}] /\ DOMAIN result' = Run
        /\ waited' \in [Run -> 0 .. Patience] /\ DOMAIN got' = Run
        /\ copies' \in 0 .. MaxDup
    BY <1>1 DEF ClientInv
  <2>2. \A q \in Run : prog'[q] \in {"open", "wait"} <=> port' = q
    BY <1>1, CommanderAssumption DEF ClientInv
  <2>3. \A q \in Run : prog'[q] = "end" <=> result'[q] # "none"
    BY <1>1 DEF ClientInv
  <2> QED
    BY <2>1, <2>2, <2>3 DEF ClientInv
<1>3. PassIsMine'
  <2>1. \A q \in Run : result'[q] = "pass" => result[q] = "pass"
    BY <1>1 DEF ClientInv
  <2> QED
    BY <2>1 DEF PassIsMine, OwnReference
<1> QED
  BY <1>2, <1>3

\* A run that goes on.
LEMMA GoesOn ==
  ASSUME ClientInv, PassIsMine, NEW r \in Run, NEW p \in {"open", "wait"},
         prog[r] # "end", prog' = [prog EXCEPT ![r] = p], port' = r,
         port \in {NoRun, r},
         UNCHANGED <<opts, waited, got, result, processed, copies>>,
         losses' \in 0 .. MaxLost
  PROVE  ClientInv' /\ PassIsMine'
<1>1. ClientInv'
  <2>1. prog' \in [Run -> {"off", "open", "wait", "end"}]
    BY DEF ClientInv
  <2>2. \A q \in Run : prog'[q] \in {"open", "wait"} <=> port' = q
    BY CommanderAssumption DEF ClientInv
  <2>3. \A q \in Run : prog'[q] = "end" <=> result'[q] # "none"
    BY DEF ClientInv
  <2> QED
    BY <2>1, <2>2, <2>3 DEF ClientInv
<1>2. PassIsMine'
  BY DEF PassIsMine, OwnReference
<1> QED
  BY <1>1, <1>2

\* A run starts: it is refused, finds the port taken, or takes it.
LEMMA StartKeepsInv ==
  ASSUME CmInv, NEW r \in Run, usage(r) \/ openInbound(r)
  PROVE  CmInv'
<1>1. /\ UNCHANGED <<opts, waited, got, drVars, netVars>> /\ prog[r] = "off"
  BY DEF usage, openInbound
<1>2. /\ processed' = processed /\ copies' = copies /\ losses' \in 0 .. MaxLost
      /\ toClient' = toClient /\ toDR' \subseteq Run
  BY <1>1 DEF drVars, netVars, CmInv, ClientInv, AnswerInv
<1>3. AnswerInv' /\ DownIsAnnounced'
  BY <1>1, <1>2, RecorderSame
<1>4. ClientInv' /\ PassIsMine'
  <2>1. CASE \E how \in {"usage", "noport"} : exits(r, how)
    BY <1>1, <1>2, <2>1, ExitKeeps DEF CmInv
  <2>2. CASE binds /\ port' = r /\ prog' = [prog EXCEPT ![r] = "open"] /\ UNCHANGED result
    BY <1>1, <1>2, <2>2, GoesOn DEF CmInv, binds
  <2> QED
    BY <2>1, <2>2 DEF usage, openInbound
<1> QED
  BY <1>3, <1>4 DEF CmInv

\* The command is sent, or lost where it was to be sent.
LEMMA SendKeepsInv ==
  ASSUME CmInv, NEW r \in Run, send(r)
  PROVE  CmInv'
<1>1. /\ UNCHANGED <<opts, waited, got, drVars, toClient, copies>> /\ prog[r] = "open"
      /\ toDR' = toDR \/ toDR' = toDR \cup {r}
      /\ losses' = losses \/ (losses < MaxLost /\ losses' = losses + 1)
  BY DEF send
<1>2. losses' \in 0 .. MaxLost
  BY <1>1, CommanderAssumption DEF CmInv, ClientInv
<1>3. processed' = processed /\ toDR' \subseteq Run /\ port = r
  BY <1>1 DEF drVars, CmInv, ClientInv, AnswerInv
<1>4. AnswerInv' /\ DownIsAnnounced'
  BY <1>1, <1>3, RecorderSame
<1>5. ClientInv' /\ PassIsMine'
  <2>1. CASE exits(r, "sent")
    BY <1>1, <1>2, <1>3, <2>1, ExitKeeps DEF CmInv
  <2>2. CASE prog' = [prog EXCEPT ![r] = "wait"] /\ UNCHANGED <<result, port>>
    BY <1>1, <1>2, <1>3, <2>2, GoesOn DEF CmInv
  <2> QED
    BY <2>1, <2>2 DEF send
<1> QED
  BY <1>4, <1>5 DEF CmInv

\* Time passes, and runs out.
LEMMA WaitKeepsInv ==
  ASSUME CmInv, NEW r \in Run, tick(r) \/ timeout(r)
  PROVE  CmInv'
<1>1. UNCHANGED <<opts, got, drVars, netVars>> /\ prog[r] = "wait"
  BY DEF tick, timeout
<1>2. /\ processed' = processed /\ copies' = copies /\ losses' = losses
      /\ losses' \in 0 .. MaxLost
      /\ toClient' = toClient /\ toDR' \subseteq Run
  BY <1>1 DEF drVars, netVars, CmInv, ClientInv, AnswerInv
<1>3. AnswerInv' /\ DownIsAnnounced'
  BY <1>1, <1>2, RecorderSame
<1>4. CASE tick(r)
  <2>1. /\ waited[r] < Patience /\ waited' = [waited EXCEPT ![r] = @ + 1]
        /\ UNCHANGED <<prog, result, port>>
    BY <1>4 DEF tick
  <2>2. waited' \in [Run -> 0 .. Patience]
    BY <2>1, CommanderAssumption DEF CmInv, ClientInv
  <2>3. ClientInv'
    BY <1>1, <1>2, <2>1, <2>2 DEF CmInv, ClientInv
  <2>4. PassIsMine'
    BY <1>1, <1>2, <2>1 DEF CmInv, PassIsMine, OwnReference
  <2> QED
    BY <1>3, <2>3, <2>4 DEF CmInv
<1>5. CASE timeout(r)
  <2>1. exits(r, "timeout") /\ UNCHANGED waited
    BY <1>5 DEF timeout
  <2>2. ClientInv' /\ PassIsMine'
    BY <1>1, <1>2, <2>1, ExitKeeps DEF CmInv
  <2> QED
    BY <1>3, <2>2 DEF CmInv
<1> QED
  BY <1>4, <1>5

\* Only the answer to its own command passes for a run whose reference
\* number is its own.
LEMMA PassMeansMine ==
  ASSUME NEW r \in Run, NEW a, a.run \in Run, verdict(r, a) = "pass",
         "reference" \in opts[r].expect, OwnReference(r)
  PROVE  a.run = r
<1>1. mismatched(r, a) = {}
  BY DEF verdict
<1>2. opts[a.run].reference = opts[r].reference
  BY <1>1 DEF mismatched
<1> QED
  BY <1>2 DEF OwnReference

\* A run reads the first answer that comes.
LEMMA ReceiveKeepsInv ==
  ASSUME CmInv, NEW r \in Run, receive(r)
  PROVE  CmInv'
<1>1. PICK a \in toClient :
        /\ prog[r] = "wait"
        /\ got' = [got EXCEPT ![r] = a]
        /\ toClient' = toClient \ {a}
        /\ exits(r, verdict(r, a))
        /\ UNCHANGED <<opts, waited, drVars, toDR, missing, losses, copies>>
  BY DEF receive
<1>2. AnswerInv' /\ DownIsAnnounced'
  <2>1. toDR' \subseteq Run
    BY <1>1 DEF CmInv, AnswerInv
  <2> QED
    BY <1>1, <2>1, RecorderSame
<1>3. PICK how : how = verdict(r, a)
  OBVIOUS
<1>4. how # "none"
  BY <1>3 DEF verdict
<1>5. /\ prog' = [prog EXCEPT ![r] = "end"] /\ result' = [result EXCEPT ![r] = how]
      /\ port' = IF port = r THEN NoRun ELSE port
  BY <1>1, <1>3 DEF exits
<1>6. ClientInv'
  <2>1. /\ prog' \in [Run -> {"off", "open", "wait", "end"}] /\ DOMAIN result' = Run
        /\ waited' \in [Run -> 0 .. Patience] /\ DOMAIN got' = Run
        /\ copies' \in 0 .. MaxDup /\ losses' \in 0 .. MaxLost
    BY <1>1, <1>5 DEF CmInv, ClientInv
  <2>2. \A q \in Run : prog'[q] \in {"open", "wait"} <=> port' = q
    BY <1>5, CommanderAssumption DEF CmInv, ClientInv
  <2>3. \A q \in Run : prog'[q] = "end" <=> result'[q] # "none"
    BY <1>4, <1>5 DEF CmInv, ClientInv
  <2> QED
    BY <2>1, <2>2, <2>3 DEF ClientInv
<1>7. PassIsMine'
  <2>1. opts' = opts /\ processed' = processed
    BY <1>1 DEF drVars
  <2> SUFFICES ASSUME NEW q \in Run, result'[q] = "pass", "reference" \in opts[q].expect,
                      OwnReference(q)
               PROVE  got'[q].run = q /\ (q \in processed \/ opts[q].text = "inconsistent")
    BY <2>1 DEF PassIsMine, OwnReference
  <2>2. CASE q = r
    <3>1. a.run \in Run /\ Founded(a, processed)
      BY DEF CmInv, AnswerInv, AnswerSet
    <3>2. got'[q] = a /\ verdict(r, a) = "pass"
      BY <1>1, <1>3, <1>5, <2>2 DEF CmInv, ClientInv
    <3>3. a.run = r
      BY <2>2, <3>1, <3>2, PassMeansMine
    <3> QED
      BY <2>2, <3>1, <3>2, <3>3 DEF Founded
  <2>3. CASE q # r
    <3>1. result[q] = "pass" /\ got'[q] = got[q]
      BY <1>1, <1>5, <2>3 DEF CmInv, ClientInv
    <3> QED
      BY <3>1 DEF CmInv, PassIsMine
  <2> QED
    BY <2>2, <2>3
<1> QED
  BY <1>2, <1>6, <1>7 DEF CmInv

-----------------------------------------------------------------------------
(* Commander: the network and the recorder.                                *)

\* Clients do not notice.
LEMMA ClientsSame ==
  ASSUME CmInv, UNCHANGED clientVars, losses' \in 0 .. MaxLost, copies' \in 0 .. MaxDup,
         processed \subseteq processed'
  PROVE  ClientInv' /\ PassIsMine'
<1>1. UNCHANGED <<prog, opts, waited, result, got, port>>
  BY DEF clientVars
<1>2. ClientInv'
  BY <1>1 DEF CmInv, ClientInv
<1>3. PassIsMine'
  BY <1>1 DEF CmInv, PassIsMine, OwnReference
<1> QED
  BY <1>2, <1>3

\* Datagrams are lost and duplicated.
LEMMA NetworkKeepsInv ==
  ASSUME CmInv,
         \/ \E r \in Run : loseCommand(r) \/ duplicate(r)
         \/ \E a \in toClient : loseAnswer(a)
  PROVE  CmInv'
<1>1. /\ UNCHANGED <<clientVars, drVars>> /\ toClient' \subseteq toClient
      /\ \A q \in toDR' : q \in toDR \/ q \in Run
      /\ copies' = copies \/ (copies < MaxDup /\ copies' = copies + 1)
  BY DEF loseCommand, duplicate, loseAnswer
<1>2. losses' = losses \/ (losses < MaxLost /\ losses' = losses + 1)
  BY DEF loseCommand, duplicate, loseAnswer
<1>3. losses' \in 0 .. MaxLost /\ copies' \in 0 .. MaxDup
  BY <1>1, <1>2, CommanderAssumption DEF CmInv, ClientInv
<1>4. toDR' \subseteq Run /\ processed' = processed /\ opts' = opts
  BY <1>1 DEF CmInv, AnswerInv, drVars, clientVars
<1>5. AnswerInv' /\ DownIsAnnounced'
  BY <1>1, <1>4, RecorderSame
<1>6. ClientInv' /\ PassIsMine'
  BY <1>1, <1>3, <1>4, ClientsSame
<1> QED
  BY <1>5, <1>6 DEF CmInv

\* An answer is one of the answers.
LEMMA AnswerType ==
  ASSUME CmInv, NEW r \in Run, NEW ok \in BOOLEAN, NEW k \in Nat
  PROVE  Answer(r, ok, k) \in AnswerSet /\ Answer(r, ok, k).run = r
<1>1. copies \in Nat
  BY CommanderAssumption DEF CmInv, ClientInv
<1> QED
  BY <1>1 DEF Answer, AnswerSet

\* More answers with a reason.
LEMMA AppendFounded ==
  ASSUME AnswerInv, NEW acted, processed \subseteq acted,
         NEW q, q \in Seq(AnswerSet), \A i \in 1 .. Len(q) : Founded(q[i], acted)
  PROVE  /\ responses \o q \in Seq(AnswerSet)
         /\ \A i \in 1 .. Len(responses \o q) : Founded((responses \o q)[i], acted)
<1>1. responses \in Seq(AnswerSet)
  BY DEF AnswerInv
<1>2. responses \o q \in Seq(AnswerSet) /\ Len(responses \o q) = Len(responses) + Len(q)
  BY <1>1
<1>3. ASSUME NEW i \in 1 .. Len(responses \o q)
      PROVE  Founded((responses \o q)[i], acted)
  <2>1. CASE i <= Len(responses)
    <3>1. (responses \o q)[i] = responses[i] /\ i \in 1 .. Len(responses)
      BY <1>1, <1>2, <2>1
    <3>2. Founded(responses[i], processed)
      BY <3>1 DEF AnswerInv
    <3> QED
      BY <3>1, <3>2 DEF Founded
  <2>2. CASE i > Len(responses)
    <3>1. /\ (responses \o q)[i] = q[i - Len(responses)]
          /\ i - Len(responses) \in 1 .. Len(q)
      BY <1>1, <1>2, <2>2
    <3> QED
      BY <3>1
  <2> QED
    BY <1>1, <1>2, <2>1, <2>2
<1> QED
  BY <1>2, <1>3

\* What the recorder does to its answers, when every new one has a reason.
LEMMA AnswersGrow ==
  ASSUME CmInv, UNCHANGED <<clientVars, toClient, answered, shutdownRequested, down, losses, copies>>,
         toDR' \subseteq Run, queue' \in Seq(Run),
         processed \subseteq processed', processed' \subseteq Run,
         NEW q, q \in Seq(AnswerSet), responses' = responses \o q,
         \A i \in 1 .. Len(q) : Founded(q[i], processed')
  PROVE  CmInv'
<1>1. opts' = opts
  BY DEF clientVars
<1>2. ClientInv' /\ PassIsMine'
  <2>1. losses' \in 0 .. MaxLost /\ copies' \in 0 .. MaxDup
    BY DEF CmInv, ClientInv
  <2> QED
    BY <2>1, ClientsSame
<1>3. /\ responses' \in Seq(AnswerSet)
      /\ \A i \in 1 .. Len(responses') : Founded(responses'[i], processed')
  BY AppendFounded DEF CmInv
<1>4. \A a \in toClient' : a.run \in answered' /\ Founded(a, processed')
  BY DEF CmInv, AnswerInv, Founded
<1>5. AnswerInv'
  BY <1>1, <1>3, <1>4 DEF CmInv, AnswerInv, AnswerSet, Founded
<1>6. DownIsAnnounced'
  BY <1>1 DEF CmInv, DownIsAnnounced
<1> QED
  BY <1>2, <1>5, <1>6 DEF CmInv

\* One answer, or none.
LEMMA OneAnswer ==
  ASSUME CmInv, NEW a \in AnswerSet, NEW acted, Founded(a, acted)
  PROVE  /\ <<a>> \in Seq(AnswerSet) /\ \A i \in 1 .. Len(<<a>>) : Founded(<<a>>[i], acted)
         /\ Append(responses, a) = responses \o <<a>>
<1>1. responses \in Seq(AnswerSet)
  BY DEF CmInv, AnswerInv
<1>2. <<a>> \in Seq(AnswerSet) /\ Len(<<a>>) = 1 /\ <<a>>[1] = a
  OBVIOUS
<1>3. \A i \in 1 .. Len(<<a>>) : Founded(<<a>>[i], acted)
  BY <1>2
<1>4. Append(responses, a) = responses \o <<a>>
  BY <1>1
<1> QED
  BY <1>2, <1>3, <1>4

\* The listener drops a command, answers it or queues it.
LEMMA ListenKeepsInv ==
  ASSUME CmInv, NEW r \in Run, listen(r)
  PROVE  CmInv'
<1>1. /\ toDR' = toDR \ {r}
      /\ UNCHANGED <<clientVars, processed, answered, shutdownRequested, down, toClient,
                     losses, copies>>
      /\ \/ queue' = queue /\ responses' = responses
         \/ /\ queue' = queue /\ opts[r].text = "inconsistent"
            /\ responses' = Append(responses, Answer(r, FALSE, 1))
         \/ queue' = Append(queue, r) /\ responses' = responses
  BY DEF listen, answerInconsistent
<1>2. queue \in Seq(Run) /\ responses \in Seq(AnswerSet)
  BY DEF CmInv, AnswerInv
<1>3. toDR' \subseteq Run /\ processed' = processed /\ processed' \subseteq Run
  BY <1>1 DEF CmInv, AnswerInv
<1>4. queue' \in Seq(Run)
  <2>1. Append(queue, r) \in Seq(Run)
    BY <1>2
  <2>2. queue' = queue \/ queue' = Append(queue, r)
    BY <1>1
  <2> QED
    BY <1>2, <2>1, <2>2
<1>5. CASE responses' = responses
  <2>1. PICK q : q = <<>>
    OBVIOUS
  <2>2. q \in Seq(AnswerSet)
    BY <2>1
  <2>3. responses' = responses \o q
    BY <1>2, <1>5, <2>1, ConcatEmptySeq
  <2>4. \A i \in 1 .. Len(q) : Founded(q[i], processed')
    BY <2>1
  <2>5. UNCHANGED <<clientVars, toClient, answered, shutdownRequested, down, losses, copies>>
    BY <1>1
  <2>6. processed \subseteq processed' /\ processed' \subseteq Run /\ toDR' \subseteq Run
    BY <1>3
  <2> QED
    BY <1>4, <2>2, <2>3, <2>4, <2>5, <2>6, AnswersGrow
<1>6. CASE /\ opts[r].text = "inconsistent"
           /\ responses' = Append(responses, Answer(r, FALSE, 1))
  <2>1. PICK a : a = Answer(r, FALSE, 1)
    OBVIOUS
  <2>2. a \in AnswerSet /\ a.run = r
    BY <2>1, AnswerType
  <2>3. Founded(a, processed')
    BY <1>6, <2>2 DEF Founded
  <2>4. /\ <<a>> \in Seq(AnswerSet) /\ \A i \in 1 .. Len(<<a>>) : Founded(<<a>>[i], processed')
        /\ responses' = responses \o <<a>>
    BY <1>6, <2>1, <2>2, <2>3, OneAnswer
  <2> QED
    BY <1>1, <1>3, <1>4, <2>4, AnswersGrow
<1> QED
  BY <1>1, <1>5, <1>6

\* The processor acts on a command and answers it, once or twice.
LEMMA ProcessKeepsInv ==
  ASSUME CmInv, process
  PROVE  CmInv'
<1>1. PICK r : r = Head(queue)
  OBVIOUS
<1>2. /\ queue # <<>> /\ queue' = Tail(queue) /\ processed' = processed \cup {r}
      /\ replies(r) /\ UNCHANGED <<clientVars, netVars, answered, shutdownRequested, down>>
  BY <1>1 DEF process
<1>3. queue \in Seq(Run) /\ responses \in Seq(AnswerSet)
  BY DEF CmInv, AnswerInv
<1>4. r \in Run /\ queue' \in Seq(Run)
  BY <1>1, <1>2, <1>3
<1>5. /\ toDR' \subseteq Run /\ processed \subseteq processed' /\ processed' \subseteq Run
      /\ UNCHANGED <<toClient, losses, copies>>
  BY <1>2, <1>4 DEF CmInv, AnswerInv, netVars
<1>6. CASE \E ok \in BOOLEAN : responses' = Append(responses, Answer(r, ok, 1))
  <2>1. PICK ok \in BOOLEAN : responses' = Append(responses, Answer(r, ok, 1))
    BY <1>6
  <2>2. PICK a : a = Answer(r, ok, 1)
    OBVIOUS
  <2>3. a \in AnswerSet /\ a.run = r
    BY <1>4, <2>2, AnswerType
  <2>4. Founded(a, processed')
    BY <1>2, <2>3 DEF Founded
  <2>5. /\ <<a>> \in Seq(AnswerSet) /\ \A i \in 1 .. Len(<<a>>) : Founded(<<a>>[i], processed')
        /\ responses' = responses \o <<a>>
    BY <2>1, <2>2, <2>3, <2>4, OneAnswer
  <2> QED
    BY <1>2, <1>4, <1>5, <2>5, AnswersGrow
<1>7. CASE \E q \in {<<Answer(r, FALSE, 1)>>, <<Answer(r, TRUE, 1), Answer(r, TRUE, 2)>>} :
             responses' = responses \o q
  <2>1. PICK a, b, c : a = Answer(r, FALSE, 1) /\ b = Answer(r, TRUE, 1) /\ c = Answer(r, TRUE, 2)
    OBVIOUS
  <2>2. /\ a \in AnswerSet /\ b \in AnswerSet /\ c \in AnswerSet
        /\ a.run = r /\ b.run = r /\ c.run = r
    BY <1>4, <2>1, AnswerType
  <2>3. Founded(a, processed') /\ Founded(b, processed') /\ Founded(c, processed')
    BY <1>2, <2>2 DEF Founded
  <2>4. CASE responses' = responses \o <<a>>
    <3>1. <<a>> \in Seq(AnswerSet) /\ \A i \in 1 .. Len(<<a>>) : Founded(<<a>>[i], processed')
      BY <2>2, <2>3, OneAnswer
    <3> QED
      BY <1>2, <1>4, <1>5, <2>4, <3>1, AnswersGrow
  <2>5. CASE responses' = responses \o <<b, c>>
    <3>1. <<b, c>> \in Seq(AnswerSet) /\ Len(<<b, c>>) = 2 /\ <<b, c>>[1] = b /\ <<b, c>>[2] = c
      BY <2>2
    <3>2. \A i \in 1 .. Len(<<b, c>>) : Founded(<<b, c>>[i], processed')
      BY <2>3, <3>1
    <3> QED
      BY <1>2, <1>4, <1>5, <2>5, <3>1, <3>2, AnswersGrow
  <2> QED
    BY <1>7, <2>1, <2>4, <2>5
<1> QED
  BY <1>2, <1>6, <1>7 DEF replies

\* The sender sends an answer or gives it up; then it may shut down.
LEMMA RespondKeepsInv ==
  ASSUME CmInv, respond
  PROVE  CmInv'
<1>1. PICK a : a = Head(responses)
  OBVIOUS
<1>2. PICK sent \in BOOLEAN :
        /\ ~down /\ responses # <<>> /\ responses' = Tail(responses)
        /\ IF sent THEN /\ toClient' = toClient \cup {a}
                        /\ answered' = answered \cup {a.run}
                        /\ UNCHANGED <<missing, losses>>
                   ELSE /\ losses < MaxLost /\ losses' = losses + 1
                        /\ missing' = missing \cup {a.run}
                        /\ UNCHANGED <<toClient, answered>>
        /\ shutdownRequested' = (shutdownRequested \/ carriesOut(sent, a))
        /\ UNCHANGED <<clientVars, queue, recording, processed, down, toDR, copies>>
  BY <1>1 DEF respond
<1>3. opts' = opts
  BY <1>2 DEF clientVars
<1>4. responses \in Seq(AnswerSet)
  BY DEF CmInv, AnswerInv
<1>5. a \in AnswerSet /\ a = responses[1] /\ 1 \in 1 .. Len(responses)
  BY <1>1, <1>2, <1>4
<1>6. Founded(a, processed)
  BY <1>5 DEF CmInv, AnswerInv
<1>7. /\ responses' \in Seq(AnswerSet) /\ Len(responses') = Len(responses) - 1
      /\ \A i \in 1 .. Len(responses') : responses'[i] = responses[i + 1]
  BY <1>2, <1>4
<1>8. \A i \in 1 .. Len(responses') : Founded(responses'[i], processed)
  <2>1. \A i \in 1 .. Len(responses') : i + 1 \in 1 .. Len(responses)
    BY <1>4, <1>7
  <2> QED
    BY <1>7, <2>1 DEF CmInv, AnswerInv
<1>9. \A x \in toClient' : x \in AnswerSet /\ x.run \in answered' /\ Founded(x, processed)
  BY <1>2, <1>5, <1>6 DEF CmInv, AnswerInv
<1>10. AnswerInv'
  BY <1>2, <1>3, <1>7, <1>8, <1>9 DEF CmInv, AnswerInv, AnswerSet, Founded
<1>11. losses' \in 0 .. MaxLost /\ copies' \in 0 .. MaxDup
  BY <1>2, CommanderAssumption DEF CmInv, ClientInv
<1>12. ClientInv' /\ PassIsMine'
  BY <1>2, <1>11, ClientsSame
<1>13. DownIsAnnounced'
  BY <1>2, <1>3 DEF CmInv, DownIsAnnounced, carriesOut
<1> QED
  BY <1>10, <1>12, <1>13 DEF CmInv

\* The main thread takes the recorder down.
LEMMA ShutdownKeepsInv ==
  ASSUME CmInv, shutdown
  PROVE  CmInv'
<1>1. /\ shutdownRequested /\ opts' = opts /\ processed' = processed /\ answered' = answered
      /\ queue' = queue /\ responses' = responses /\ toClient' = toClient /\ toDR' = toDR
      /\ losses' = losses /\ copies' = copies /\ UNCHANGED clientVars
  BY DEF shutdown, clientVars, netVars
<1>2. AnswerInv'
  BY <1>1 DEF CmInv, AnswerInv, AnswerSet, Founded
<1>3. ClientInv' /\ PassIsMine'
  BY <1>1, ClientsSame DEF CmInv, ClientInv
<1>4. DownIsAnnounced'
  BY <1>1 DEF CmInv, DownIsAnnounced
<1> QED
  BY <1>2, <1>3, <1>4 DEF CmInv

\* The invariant holds at the start.
LEMMA CommanderInit ==
  ASSUME CmInit
  PROVE  CmInv
<1> USE DEF CmInit
<1>1. ClientInv
  BY CommanderAssumption DEF ClientInv
<1>2. AnswerInv
  <2>1. <<>> \in Seq(Run) /\ <<>> \in Seq(AnswerSet) /\ Len(<<>>) = 0
    OBVIOUS
  <2> QED
    BY <2>1 DEF AnswerInv
<1>3. PassIsMine /\ DownIsAnnounced
  BY DEF PassIsMine, DownIsAnnounced
<1> QED
  BY <1>1, <1>2, <1>3 DEF CmInv

\* Every step keeps the invariant.
LEMMA CommanderNext ==
  ASSUME CmInv, [CmNext]_cmVars
  PROVE  CmInv'
<1>1. CASE CmNext
  BY <1>1, StartKeepsInv, SendKeepsInv, WaitKeepsInv, ReceiveKeepsInv, NetworkKeepsInv,
     ListenKeepsInv, ProcessKeepsInv, RespondKeepsInv, ShutdownKeepsInv DEF CmNext
<1>2. CASE UNCHANGED cmVars
  <2>1. UNCHANGED <<clientVars, drVars, losses, copies, toDR, toClient>>
    BY <1>2 DEF cmVars, netVars
  <2>2. /\ losses' \in 0 .. MaxLost /\ copies' \in 0 .. MaxDup /\ processed' = processed
        /\ toDR' \subseteq Run /\ opts' = opts
    BY <2>1 DEF CmInv, ClientInv, AnswerInv, drVars, clientVars
  <2> QED
    BY <2>1, <2>2, ClientsSame, RecorderSame DEF CmInv
<1> QED
  BY <1>1, <1>2

\* The port has one owner, a PASS of a run that tests a reference number of
\* its own is about an answer to its command, and the recorder does not go
\* down unannounced: for any number of runs and any loss and duplication.
THEOREM VerdictSoundAlways == CmSpec => []VerdictSound
<1>1. CmInit => CmInv
  BY CommanderInit
<1>2. CmInv /\ [CmNext]_cmVars => CmInv'
  BY CommanderNext
<1>3. CmInv => VerdictSound
  BY CommanderAssumption
     DEF CmInv, ClientInv, AnswerInv, VerdictSound, CommanderTypeOK
<1> QED
  BY <1>1, <1>2, <1>3, PTL DEF CmSpec

-----------------------------------------------------------------------------
(* Staged buffer: arithmetic of the ring.                                  *)

Index  == 0 .. objCount - 1
Follow(i) == (i + 1) % objCount

\* A sum of at least one turn and less than two, without the turn.
LEMMA OneTurn ==
  ASSUME NEW i \in Nat, NEW k \in Nat, NEW n \in Nat \ {0}, n <= i + k, i + k < n + n
  PROVE  (i + k) % n = i + k - n
<1>1. (i + k) \div n \in Nat /\ ((i + k) % n) \in 0 .. n - 1
  OBVIOUS
<1>2. i + k = ((i + k) \div n) * n + ((i + k) % n)
  OBVIOUS
<1>3. PICK d \in Nat, r \in 0 .. n - 1 : i + k = d * n + r /\ r = ((i + k) % n)
  BY <1>1, <1>2
<1>4. \A m, e \in Nat : (2 + e) * m = 2 * m + e * m /\ e * m \in Nat
  OBVIOUS
<1>5. CASE d = 0 \/ d = 1
  BY <1>3, <1>5
<1>6. CASE d >= 2
  <2>1. d - 2 \in Nat /\ d = 2 + (d - 2)
    BY <1>6
  <2>2. d * n = 2 * n + (d - 2) * n /\ (d - 2) * n \in Nat
    BY <1>4, <2>1
  <2> QED
    BY <1>3, <2>2
<1> QED
  BY <1>5, <1>6

\* An index moved on by less than a whole turn.
LEMMA RingIndex ==
  ASSUME NEW i \in Index, NEW k \in 0 .. objCount - 1
  PROVE  /\ (i + k) % objCount = IF i + k < objCount THEN i + k ELSE i + k - objCount
         /\ (i + k) % objCount \in Index
<1>0. objCount \in Nat \ {0}
  BY StagedAssumption DEF objCount
<1>1. CASE i + k < objCount
  BY <1>0, <1>1 DEF Index
<1>2. CASE i + k >= objCount
  <2>1. i + k - objCount \in 0 .. objCount - 1
    BY <1>0, <1>2 DEF Index
  <2>2. (i + k) % objCount = i + k - objCount
    <3>1. i \in Nat /\ k \in Nat /\ objCount <= i + k /\ i + k < objCount + objCount
      BY <1>0, <1>2 DEF Index
    <3> HIDE DEF objCount
    <3> QED
      BY <1>0, <3>1, OneTurn
  <2> QED
    BY <1>0, <1>2, <2>1, <2>2 DEF Index
<1> QED
  BY <1>0, <1>1, <1>2 DEF Index

\* How far a is ahead of b.
LEMMA UsedFacts ==
  ASSUME NEW a \in Index, NEW b \in Index
  PROVE  /\ RQ_USED(a, b) \in 0 .. objCount - 1
         /\ RQ_USED(a, b) = 0 <=> a = b
         /\ (b + RQ_USED(a, b)) % objCount = a
<1>0. objCount \in Nat \ {0}
  BY StagedAssumption DEF objCount
<1>1. RQ_USED(a, b) \in 0 .. objCount - 1 /\ (RQ_USED(a, b) = 0 <=> a = b)
  BY <1>0 DEF RQ_USED, Index
<1>2. (b + RQ_USED(a, b)) % objCount
        = IF b + RQ_USED(a, b) < objCount THEN b + RQ_USED(a, b) ELSE b + RQ_USED(a, b) - objCount
  BY <1>1, RingIndex
<1> QED
  BY <1>0, <1>1, <1>2 DEF RQ_USED, Index

\* One step of either index.
LEMMA UsedMoves ==
  ASSUME NEW a \in Index, NEW b \in Index
  PROVE  /\ Follow(a) \in Index
         /\ RQ_USED(a, b) < objCount - 1 => RQ_USED(Follow(a), b) = RQ_USED(a, b) + 1
         /\ RQ_USED(a, b) > 0 => RQ_USED(a, Follow(b)) = RQ_USED(a, b) - 1
<1>0. objCount \in Nat \ {0, 1}
  BY StagedAssumption DEF objCount
<1>1. ASSUME NEW i \in Index PROVE Follow(i) = (IF i + 1 < objCount THEN i + 1 ELSE 0) /\ Follow(i) \in Index
  <2>1. Follow(i) = (IF i + 1 < objCount THEN i + 1 ELSE i + 1 - objCount) /\ Follow(i) \in Index
    BY <1>0, RingIndex DEF Follow
  <2> QED
    BY <1>0, <2>1 DEF Index
<1>2. Follow(a) = (IF a + 1 < objCount THEN a + 1 ELSE 0) /\ Follow(a) \in Index
  BY <1>1
<1>3. Follow(b) = (IF b + 1 < objCount THEN b + 1 ELSE 0)
  BY <1>1
<1>4. RQ_USED(a, b) < objCount - 1 => RQ_USED(Follow(a), b) = RQ_USED(a, b) + 1
  BY <1>0, <1>2 DEF RQ_USED, Index
<1>5. RQ_USED(a, b) > 0 => RQ_USED(a, Follow(b)) = RQ_USED(a, b) - 1
  BY <1>0, <1>3 DEF RQ_USED, Index
<1> QED
  BY <1>2, <1>4, <1>5

\* Distances add up.
LEMMA UsedAdds ==
  ASSUME NEW a \in Index, NEW b \in Index, NEW c \in Index,
         RQ_USED(a, c) >= RQ_USED(b, c)
  PROVE  RQ_USED(a, b) = RQ_USED(a, c) - RQ_USED(b, c)
BY StagedAssumption DEF RQ_USED, Index, objCount

-----------------------------------------------------------------------------
(* Staged buffer: the invariant.                                           *)

\* How far an index is ahead of the last one.
Ahead(i) == RQ_USED(stage_indices[i], stage_indices[numStages])

\* The indices follow each other round the ring; a thread holds the object at
\* its own index, and only if there is one.
SbInv ==
  /\ stage_indices \in [0 .. numStages -> Index]
  /\ object \in [Index -> Val]
  /\ filling \in 0 .. objCount
  /\ working \in [Stage -> 0 .. objCount]
  /\ \A i, j \in 0 .. numStages : i <= j => Ahead(j) <= Ahead(i)
  /\ \A s \in Stage : working[s] # NoSlot => working[s] = stage_indices[s + 1] /\ usedInStage(s) > 0
  /\ filling # NoSlot => filling = stage_indices[0] /\ Ahead(0) < objCount - 1

\* What a stage has is the difference of two distances.
LEMMA StageUse ==
  ASSUME SbInv
  PROVE  /\ objCount \in Nat \ {0, 1} /\ numStages \in Nat \ {0}
         /\ \A i \in 0 .. numStages : stage_indices[i] \in Index /\ Ahead(i) \in 0 .. objCount - 1
         /\ Ahead(numStages) = 0
         /\ \A s \in Stage : /\ s \in 0 .. numStages /\ s + 1 \in 0 .. numStages
                             /\ usedInStage(s) = Ahead(s) - Ahead(s + 1)
                             /\ usedInStage(s) \in 0 .. objCount - 1
<1>0. objCount \in Nat \ {0, 1} /\ numStages \in Nat \ {0}
  BY StagedAssumption DEF objCount
<1>1. ASSUME NEW i \in 0 .. numStages
      PROVE  stage_indices[i] \in Index /\ Ahead(i) \in 0 .. objCount - 1
  <2>1. stage_indices[i] \in Index /\ stage_indices[numStages] \in Index
    BY <1>0 DEF SbInv
  <2> QED
    BY <2>1, UsedFacts DEF Ahead
<1>2. Ahead(numStages) = 0
  <2>1. stage_indices[numStages] \in Index
    BY <1>0 DEF SbInv
  <2> QED
    BY <2>1, UsedFacts DEF Ahead
<1>3. ASSUME NEW s \in Stage
      PROVE  /\ s \in 0 .. numStages /\ s + 1 \in 0 .. numStages
             /\ usedInStage(s) = Ahead(s) - Ahead(s + 1)
             /\ usedInStage(s) \in 0 .. objCount - 1
  <2>1. s \in 0 .. numStages /\ s + 1 \in 0 .. numStages /\ s <= s + 1
    BY <1>0 DEF Stage
  <2>2. Ahead(s + 1) <= Ahead(s)
    BY <2>1 DEF SbInv
  <2>3. /\ stage_indices[s] \in Index /\ stage_indices[s + 1] \in Index
        /\ stage_indices[numStages] \in Index
    BY <1>0, <1>1, <2>1
  <2>4. usedInStage(s) = Ahead(s) - Ahead(s + 1)
    BY <2>2, <2>3, UsedAdds DEF usedInStage, Ahead
  <2>5. usedInStage(s) \in 0 .. objCount - 1
    BY <2>3, UsedFacts DEF usedInStage
  <2> QED
    BY <2>1, <2>4, <2>5
<1> QED
  BY <1>0, <1>1, <1>2, <1>3

\* The ring starts empty.
LEMMA SbInitInv == SbInit => SbInv
<1> SUFFICES ASSUME SbInit PROVE SbInv
  OBVIOUS
<1>0. objCount \in Nat \ {0, 1} /\ numStages \in Nat \ {0} /\ 0 \in Index
  BY StagedAssumption DEF objCount, Index
<1>1. \A i \in 0 .. numStages : Ahead(i) = 0
  BY <1>0, UsedFacts DEF SbInit, Ahead
<1>2. NoSlot \in 0 .. objCount
  BY <1>0 DEF NoSlot
<1> QED
  BY <1>0, <1>1, <1>2 DEF SbInit, SbInv, Index

\* The producer moves its own index on ...
LEMMA DoneInMoves ==
  ASSUME SbInv, doneIn
  PROVE  /\ SbInv' /\ filling = stage_indices[0]
         /\ usedInStage(0)' = usedInStage(0) + 1
         /\ \A s \in Stage : s # 0 => usedInStage(s)' = usedInStage(s)
         /\ \A s \in Stage : stage_indices'[s + 1] = stage_indices[s + 1]
<1>0. /\ objCount \in Nat \ {0, 1} /\ numStages \in Nat \ {0} /\ 0 \in Stage
      /\ \A i \in 0 .. numStages : stage_indices[i] \in Index /\ Ahead(i) \in 0 .. objCount - 1
      /\ stage_indices \in [0 .. numStages -> Index]
  BY StageUse DEF Stage, SbInv
<1>1. /\ filling # NoSlot /\ filling = stage_indices[0] /\ Ahead(0) < objCount - 1
      /\ stage_indices' = [stage_indices EXCEPT ![0] = Follow(stage_indices[0])]
      /\ filling' = NoSlot /\ UNCHANGED <<object, working>>
  BY DEF doneIn, SbInv, Follow
<1>2. /\ Follow(stage_indices[0]) \in Index
      /\ RQ_USED(Follow(stage_indices[0]), stage_indices[numStages]) = Ahead(0) + 1
  BY <1>0, <1>1, UsedMoves DEF Ahead
<1>3. /\ stage_indices' \in [0 .. numStages -> Index] /\ stage_indices'[0] = Follow(stage_indices[0])
      /\ \A i \in 0 .. numStages : i # 0 => stage_indices'[i] = stage_indices[i]
      /\ \A s \in Stage : s + 1 \in 0 .. numStages /\ s + 1 # 0
  BY <1>0, <1>1, <1>2 DEF Stage
<1>4. Ahead(0)' = Ahead(0) + 1 /\ \A i \in 0 .. numStages : i # 0 => Ahead(i)' = Ahead(i)
  BY <1>0, <1>2, <1>3 DEF Ahead
<1>5. usedInStage(0)' = usedInStage(0) + 1
  <2>1. usedInStage(0) < objCount - 1 /\ stage_indices[1] \in Index
    BY <1>0, <1>1, StageUse DEF Stage
  <2>2. RQ_USED(Follow(stage_indices[0]), stage_indices[1]) = RQ_USED(stage_indices[0], stage_indices[1]) + 1
    BY <1>0, <2>1, UsedMoves DEF usedInStage
  <2> QED
    BY <1>0, <1>3, <2>2 DEF usedInStage
<1>6. \A s \in Stage : s # 0 => usedInStage(s)' = usedInStage(s)
  BY <1>0, <1>3 DEF usedInStage, Stage
<1>7. \A i, j \in 0 .. numStages : i <= j => Ahead(j)' <= Ahead(i)'
  <2> SUFFICES ASSUME NEW i \in 0 .. numStages, NEW j \in 0 .. numStages, i <= j
               PROVE  Ahead(j)' <= Ahead(i)'
    OBVIOUS
  <2>1. Ahead(j) <= Ahead(i) /\ Ahead(j) \in Nat /\ Ahead(i) \in Nat
    BY <1>0 DEF SbInv
  <2> QED
    BY <1>0, <1>4, <2>1
<1>8. \A s \in Stage : working'[s] # NoSlot => working'[s] = stage_indices'[s + 1] /\ usedInStage(s)' > 0
  <2> SUFFICES ASSUME NEW s \in Stage, working[s] # NoSlot
               PROVE  working[s] = stage_indices[s + 1] /\ usedInStage(s)' > 0
    BY <1>1, <1>3
  <2>1. working[s] = stage_indices[s + 1] /\ usedInStage(s) > 0 /\ usedInStage(s) \in Nat
    BY StageUse DEF SbInv
  <2> QED
    BY <1>5, <1>6, <2>1
<1>9. SbInv'
  <2>1. NoSlot \in 0 .. objCount /\ object \in [Index -> Val] /\ working \in [Stage -> 0 .. objCount]
    BY <1>0 DEF SbInv, NoSlot
  <2> QED
    BY <1>1, <1>3, <1>7, <1>8, <2>1 DEF SbInv
<1> QED
  BY <1>1, <1>3, <1>5, <1>6, <1>9

\* ... and a stage its own, with what it had at the front.
LEMMA DoneStageMoves ==
  ASSUME SbInv, NEW s \in Stage, doneStage(s)
  PROVE  /\ SbInv' /\ usedInStage(s) > 0
         /\ usedInStage(s)' = usedInStage(s) - 1
         /\ s + 1 \in Stage => usedInStage(s + 1)' = usedInStage(s + 1) + 1
         /\ \A t \in Stage : t # s /\ t # s + 1 => usedInStage(t)' = usedInStage(t)
         /\ stage_indices'[s + 1] = Follow(stage_indices[s + 1])
         /\ \A t \in Stage : t # s => stage_indices'[t + 1] = stage_indices[t + 1]
<1>0. /\ objCount \in Nat \ {0, 1} /\ numStages \in Nat \ {0}
      /\ \A i \in 0 .. numStages : stage_indices[i] \in Index /\ Ahead(i) \in 0 .. objCount - 1
      /\ stage_indices \in [0 .. numStages -> Index] /\ Ahead(numStages) = 0
      /\ s \in 0 .. numStages - 1 /\ s + 1 \in 0 .. numStages
  BY StageUse DEF Stage, SbInv
<1>1. /\ working[s] # NoSlot /\ usedInStage(s) > 0 /\ usedInStage(s) = Ahead(s) - Ahead(s + 1)
      /\ usedInStage(s) \in 0 .. objCount - 1
      /\ stage_indices' = [stage_indices EXCEPT ![s + 1] = Follow(stage_indices[s + 1])]
      /\ working' = [working EXCEPT ![s] = NoSlot] /\ UNCHANGED <<object, filling>>
  BY StageUse DEF doneStage, SbInv, Follow
<1>2. /\ Follow(stage_indices[s + 1]) \in Index /\ stage_indices' \in [0 .. numStages -> Index]
      /\ stage_indices'[s + 1] = Follow(stage_indices[s + 1])
      /\ \A i \in 0 .. numStages : i # s + 1 => stage_indices'[i] = stage_indices[i]
      /\ \A t \in Stage : t \in 0 .. numStages /\ t + 1 \in 0 .. numStages /\ (t # s => t + 1 # s + 1)
      /\ s # s + 1
  BY <1>0, <1>1, UsedMoves DEF Stage
<1>3. usedInStage(s)' = usedInStage(s) - 1
  <2>0. /\ stage_indices[s] \in Index /\ stage_indices[s + 1] \in Index
        /\ RQ_USED(stage_indices[s], stage_indices[s + 1]) > 0
    BY <1>0, <1>1 DEF usedInStage
  <2>1. RQ_USED(stage_indices[s], Follow(stage_indices[s + 1])) = usedInStage(s) - 1
    BY <2>0, UsedMoves DEF usedInStage
  <2> QED
    BY <1>0, <1>2, <2>1 DEF usedInStage
<1>4. ASSUME NEW t \in Stage, t # s, t # s + 1 PROVE usedInStage(t)' = usedInStage(t)
  BY <1>0, <1>2, <1>4 DEF usedInStage
\* The one that takes over has room: all it has, and one more, is behind s.
<1>5. ASSUME s + 1 \in Stage PROVE usedInStage(s + 1)' = usedInStage(s + 1) + 1
  <2>1. /\ usedInStage(s + 1) = Ahead(s + 1) - Ahead(s + 2) /\ s + 2 \in 0 .. numStages
        /\ (s + 1) + 1 = s + 2 /\ s + 2 # s + 1
    BY <1>0, <1>5, StageUse DEF Stage
  <2>2. usedInStage(s + 1) < objCount - 1
    BY <1>0, <1>1, <2>1
  <2>3. RQ_USED(Follow(stage_indices[s + 1]), stage_indices[s + 2]) = usedInStage(s + 1) + 1
    BY <1>0, <2>1, <2>2, UsedMoves DEF usedInStage
  <2> QED
    BY <1>2, <2>1, <2>3 DEF usedInStage
<1>6. \A i, j \in 0 .. numStages : i <= j => Ahead(j)' <= Ahead(i)'
  <2>1. CASE s + 1 = numStages
    <3>1. ASSUME NEW i \in 0 .. numStages, i # numStages PROVE Ahead(i)' = Ahead(i) - 1 /\ Ahead(i) > 0
      <4>1. i <= s /\ stage_indices'[i] = stage_indices[i]
        BY <1>0, <1>2, <2>1, <3>1
      <4>2. Ahead(s) <= Ahead(i) /\ Ahead(s) > 0
        BY <1>0, <1>1, <2>1, <4>1 DEF SbInv
      <4>3. Ahead(i) > 0 /\ Ahead(i) \in Nat
        BY <1>0, <4>2
      <4>4. RQ_USED(stage_indices[i], Follow(stage_indices[numStages])) = Ahead(i) - 1
        BY <1>0, <4>3, UsedMoves DEF Ahead
      <4> QED
        BY <1>2, <2>1, <4>1, <4>3, <4>4 DEF Ahead
    <3>2. Ahead(numStages)' = 0
      BY <1>2, <2>1, UsedFacts DEF Ahead
    <3> SUFFICES ASSUME NEW i \in 0 .. numStages, NEW j \in 0 .. numStages, i <= j
                 PROVE  Ahead(j)' <= Ahead(i)'
      OBVIOUS
    <3>3. Ahead(j) <= Ahead(i) /\ Ahead(j) \in Nat /\ Ahead(i) \in Nat
      BY <1>0 DEF SbInv
    <3>4. CASE j = numStages
      <4>1. Ahead(i)' >= 0
        BY <1>0, <3>1, <3>2, <3>3
      <4> QED
        BY <3>2, <3>4, <4>1
    <3>5. CASE j # numStages
      <4>1. i # numStages
        BY <1>0, <3>5
      <4> QED
        BY <3>1, <3>3, <3>5, <4>1
    <3> QED
      BY <3>4, <3>5
  <2>2. CASE s + 1 # numStages
    <3>1. /\ stage_indices'[numStages] = stage_indices[numStages]
          /\ \A i \in 0 .. numStages : i # s + 1 => Ahead(i)' = Ahead(i)
      BY <1>0, <1>2, <2>2 DEF Ahead
    <3>2. Ahead(s + 1)' = Ahead(s + 1) + 1 /\ Ahead(s + 1) + 1 <= Ahead(s)
      <4>1. Ahead(s + 1) < objCount - 1
        BY <1>0, <1>1
      <4>2. RQ_USED(Follow(stage_indices[s + 1]), stage_indices[numStages]) = Ahead(s + 1) + 1
        BY <1>0, <4>1, UsedMoves DEF Ahead
      <4> QED
        BY <1>0, <1>1, <1>2, <3>1, <4>2 DEF Ahead
    <3> SUFFICES ASSUME NEW i \in 0 .. numStages, NEW j \in 0 .. numStages, i <= j
                 PROVE  Ahead(j)' <= Ahead(i)'
      OBVIOUS
    <3>3. Ahead(j) <= Ahead(i) /\ Ahead(j) \in Nat /\ Ahead(i) \in Nat
      BY <1>0 DEF SbInv
    <3>4. CASE j = s + 1 /\ i # s + 1
      <4>1. i <= s /\ s \in 0 .. numStages
        BY <1>0, <3>4
      <4>2. Ahead(s) <= Ahead(i) /\ Ahead(s) \in Nat
        BY <1>0, <4>1 DEF SbInv
      <4> QED
        BY <1>0, <3>1, <3>2, <3>3, <3>4, <4>2
    <3> QED
      BY <1>0, <3>1, <3>2, <3>3, <3>4
  <2> QED
    BY <2>1, <2>2
<1>7. Ahead(0)' <= Ahead(0)
  <2>1. CASE s + 1 = numStages
    <3>1. 0 <= s /\ stage_indices'[0] = stage_indices[0] /\ 0 \in 0 .. numStages
      BY <1>0, <1>2, <2>1
    <3>2. Ahead(s) <= Ahead(0) /\ Ahead(0) > 0
      BY <1>0, <1>1, <2>1, <3>1 DEF SbInv
    <3>3. /\ stage_indices[0] \in Index /\ stage_indices[numStages] \in Index
          /\ RQ_USED(stage_indices[0], stage_indices[numStages]) > 0
      BY <1>0, <3>1, <3>2 DEF Ahead
    <3>4. RQ_USED(stage_indices[0], Follow(stage_indices[numStages])) = Ahead(0) - 1
      BY <3>3, UsedMoves DEF Ahead
    <3> QED
      BY <1>0, <1>2, <2>1, <3>1, <3>4 DEF Ahead
  <2>2. CASE s + 1 # numStages
    <3>1. stage_indices'[0] = stage_indices[0] /\ stage_indices'[numStages] = stage_indices[numStages]
      BY <1>0, <1>2, <2>2
    <3> QED
      BY <1>0, <3>1 DEF Ahead
  <2> QED
    BY <2>1, <2>2
<1>8. \A t \in Stage : working'[t] # NoSlot => working'[t] = stage_indices'[t + 1] /\ usedInStage(t)' > 0
  <2> SUFFICES ASSUME NEW t \in Stage, working'[t] # NoSlot
               PROVE  working'[t] = stage_indices'[t + 1] /\ usedInStage(t)' > 0
    OBVIOUS
  <2>1. t # s /\ working'[t] = working[t]
    BY <1>1 DEF SbInv
  <2>2. working[t] = stage_indices[t + 1] /\ usedInStage(t) > 0 /\ usedInStage(t) \in Nat
    BY <2>1, StageUse DEF SbInv
  <2>3. stage_indices'[t + 1] = stage_indices[t + 1]
    BY <1>2, <2>1
  <2> QED
    BY <1>4, <1>5, <2>1, <2>2, <2>3
<1>9. SbInv'
  <2>1. filling' # NoSlot => filling' = stage_indices'[0] /\ Ahead(0)' < objCount - 1
    <3>1. stage_indices'[0] = stage_indices[0] /\ Ahead(0)' \in Int /\ Ahead(0) \in Int
      <4>1. 0 \in 0 .. numStages /\ 0 # s + 1 /\ numStages \in 0 .. numStages
        BY <1>0
      <4>2. stage_indices'[0] \in Index /\ stage_indices'[numStages] \in Index
        BY <1>2, <4>1
      <4> QED
        BY <1>0, <1>2, <4>1, <4>2, UsedFacts DEF Ahead
    <3>2. filling' = filling
      BY <1>1
    <3>3. filling # NoSlot => filling = stage_indices[0] /\ Ahead(0) < objCount - 1
      BY DEF SbInv
    <3>4. objCount - 1 \in Int
      BY <1>0
    <3>5. NoSlot' = NoSlot /\ objCount' = objCount
      BY DEF NoSlot, objCount
    <3> QED
      BY <1>7, <3>1, <3>2, <3>3, <3>4, <3>5
  <2>2. object' \in [Index -> Val] /\ filling' \in 0 .. objCount /\ working' \in [Stage -> 0 .. objCount]
    BY <1>0, <1>1 DEF SbInv, NoSlot
  <2> QED
    BY <1>2, <1>6, <1>8, <2>1, <2>2 DEF SbInv
<1> QED
  BY <1>1, <1>2, <1>3, <1>4, <1>5, <1>9

-----------------------------------------------------------------------------
(* Staged buffer: the other steps.                                         *)

\* nextIn hands out the object at the input index, when there is room.
LEMMA NextInInv == SbInv /\ nextIn => SbInv'
<1> SUFFICES ASSUME SbInv, nextIn PROVE SbInv'
  OBVIOUS
<1>0. /\ objCount \in Nat \ {0, 1} /\ 0 \in 0 .. numStages
      /\ stage_indices[0] \in Index /\ Ahead(0) \in 0 .. objCount - 1
  BY StageUse
<1>1. filling' = stage_indices[0] /\ Ahead(0) < objCount - 1 /\ UNCHANGED <<stage_indices, object, working>>
  BY <1>0 DEF nextIn, RQ_FREE, Ahead
<1>2. filling' \in 0 .. objCount
  BY <1>0, <1>1 DEF Index
<1> QED
  BY <1>1, <1>2 DEF SbInv, Ahead, usedInStage

\* Filling an object writes to that one only.
LEMMA FillInv == SbInv /\ (\E v \in Val : fill(v)) => SbInv'
<1> SUFFICES ASSUME SbInv, NEW v \in Val, fill(v) PROVE SbInv'
  OBVIOUS
<1>1. object' \in [Index -> Val] /\ UNCHANGED <<stage_indices, filling, working>>
  BY DEF SbInv, fill
<1> QED
  BY <1>1 DEF SbInv, Ahead, usedInStage

\* nextStage hands out the oldest object of the stage.
LEMMA NextStageInv ==
  ASSUME SbInv, NEW s \in Stage, nextStage(s)
  PROVE  SbInv'
<1>0. /\ objCount \in Nat \ {0, 1} /\ s + 1 \in 0 .. numStages /\ stage_indices[s + 1] \in Index
  BY StageUse
<1>1. /\ usedInStage(s) > 0 /\ working' = [working EXCEPT ![s] = stage_indices[s + 1]]
      /\ UNCHANGED <<stage_indices, object, filling>>
  BY DEF nextStage
<1>2. stage_indices[s + 1] \in 0 .. objCount
  BY <1>0 DEF Index
<1>3. working' \in [Stage -> 0 .. objCount]
  BY <1>1, <1>2 DEF SbInv
<1>4. \A t \in Stage : working'[t] # NoSlot => working'[t] = stage_indices[t + 1] /\ usedInStage(t) > 0
  BY <1>1 DEF SbInv
<1> QED
  BY <1>1, <1>3, <1>4 DEF SbInv, Ahead, usedInStage

\* reset starts afresh, when nobody holds an object.
LEMMA ResetInv == SbInv /\ reset => SbInv'
<1> SUFFICES ASSUME SbInv, reset PROVE SbInv'
  OBVIOUS
<1>0. objCount \in Nat \ {0, 1} /\ numStages \in Nat \ {0} /\ 0 \in Index
  BY StagedAssumption DEF objCount, Index
<1>1. /\ stage_indices' = [i \in 0 .. numStages |-> 0] /\ UNCHANGED <<object, filling, working>>
      /\ filling = NoSlot /\ \A s \in Stage : working[s] = NoSlot
  BY DEF reset
<1>2. \A i \in 0 .. numStages : Ahead(i)' = 0
  BY <1>0, <1>1, UsedFacts DEF Ahead
<1>3. stage_indices' \in [0 .. numStages -> Index]
  BY <1>0, <1>1
<1>4. \A i, j \in 0 .. numStages : i <= j => Ahead(j)' <= Ahead(i)'
  BY <1>2
<1> QED
  BY <1>1, <1>3, <1>4 DEF SbInv

\* Every step keeps the invariant.
LEMMA SbNextInv == SbInv /\ [SbNext]_sbVars => SbInv'
<1> SUFFICES ASSUME SbInv, [SbNext]_sbVars PROVE SbInv'
  OBVIOUS
<1>1. CASE doneIn
  BY <1>1, DoneInMoves
<1>2. ASSUME NEW s \in Stage, doneStage(s) PROVE SbInv'
  BY <1>2, DoneStageMoves
<1>3. ASSUME NEW s \in Stage, nextStage(s) PROVE SbInv'
  BY <1>3, NextStageInv
<1>4. CASE UNCHANGED sbVars
  BY <1>4 DEF sbVars, SbInv, Ahead, usedInStage
<1> QED
  BY <1>1, <1>2, <1>3, <1>4, NextInInv, FillInv, ResetInv DEF SbNext

\* The indices follow each other round the ring in every reachable state.
THEOREM RingInvariant == SbSpec => []SbInv
<1>1. SbInit => SbInv
  BY SbInitInv
<1>2. SbInv /\ [SbNext]_sbVars => SbInv'
  BY SbNextInv
<1> QED
  BY <1>1, <1>2, PTL DEF SbSpec

-----------------------------------------------------------------------------
(* Staged buffer: what follows from it.                                    *)

\* The stages lie within what is in use, and the object being filled does
\* not.
LEMMA SbInvTypeOK == SbInv => StagedTypeOK
<1> SUFFICES ASSUME SbInv PROVE StagedTypeOK
  OBVIOUS
<1>0. /\ objCount \in Nat \ {0, 1} /\ numStages \in Nat \ {0} /\ 0 \in 0 .. numStages
      /\ \A i \in 0 .. numStages : stage_indices[i] \in Index /\ Ahead(i) \in 0 .. objCount - 1
  BY StageUse
<1>1. ASSUME NEW s \in Stage PROVE usedInStage(s) <= Ahead(0)
  <2>1. /\ s \in 0 .. numStages /\ s + 1 \in 0 .. numStages /\ 0 <= s
        /\ usedInStage(s) = Ahead(s) - Ahead(s + 1)
    BY StageUse DEF Stage
  <2>2. Ahead(s) <= Ahead(0)
    BY <1>0, <2>1 DEF SbInv
  <2> QED
    BY <1>0, <2>1, <2>2
<1>2. filling # NoSlot => filling = stage_indices[0] /\ RQ_FREE(stage_indices[0], stage_indices[numStages]) > 0
  BY <1>0 DEF SbInv, RQ_FREE, Ahead
<1> QED
  BY <1>1, <1>2 DEF StagedTypeOK, SbInv, Index, Ahead

\* The one object that is written to is none that a stage works on.
LEMMA FillAside ==
  ASSUME SbInv, [SbNext]_sbVars, NEW s \in Stage, working[s] # NoSlot
  PROVE  object'[working[s]] = object[working[s]]
<1>1. CASE \E v \in Val : fill(v)
  <2>0. PICK v \in Val : fill(v)
    BY <1>1
  <2>1. filling = stage_indices[0] /\ object' = [object EXCEPT ![filling] = v]
    BY <2>0 DEF fill, SbInv
  <2>2. /\ s \in 0 .. numStages /\ s + 1 \in 0 .. numStages /\ 0 \in 0 .. numStages /\ 0 <= s
        /\ usedInStage(s) = Ahead(s) - Ahead(s + 1) /\ usedInStage(s) > 0
        /\ Ahead(s) \in Nat /\ Ahead(s + 1) \in Nat /\ Ahead(0) \in Nat
    BY StageUse DEF Stage, SbInv
  <2>3. Ahead(s) <= Ahead(0)
    BY <2>2 DEF SbInv
  <2>4. Ahead(s + 1) # Ahead(0)
    BY <2>2, <2>3
  <2>5. stage_indices[s + 1] # stage_indices[0]
    BY <2>4 DEF Ahead
  <2> QED
    BY <2>1, <2>5 DEF SbInv
<1>2. CASE UNCHANGED object
  BY <1>2
<1> QED
  BY <1>1, <1>2 DEF SbNext, sbVars, nextIn, doneIn, nextStage, doneStage, reset

\* What a stage works on stays as it is.
THEOREM WorkUndisturbedAlways == SbSpec => WorkUndisturbed
<1>1. SbInv /\ [SbNext]_sbVars =>
        [\A s \in Stage : working[s] # NoSlot => object'[working[s]] = object[working[s]]]_sbVars
  BY FillAside
<1> QED
  BY <1>1, RingInvariant, PTL DEF SbSpec, WorkUndisturbed

-----------------------------------------------------------------------------
(* Staged buffer: the line of queues the ring stands for.                  *)

\* n objects of f, from b on.
Arc(f, b, n) == [k \in 1 .. n |-> f[(b + (k - 1)) % objCount]]

Line == [s \in Stage |-> peekStage(s)]

\* An arc is a sequence.
LEMMA ArcIsSeq ==
  ASSUME NEW f, NEW b, NEW n \in Nat
  PROVE  \E T : Arc(f, b, n) \in Seq(T) /\ Len(Arc(f, b, n)) = n
<1> DEFINE e(k) == f[(b + (k - 1)) % objCount]
           T == {e(k) : k \in 1 .. n}
<1>1. \A k \in 1 .. n : e(k) \in T
  OBVIOUS
<1>2. Arc(f, b, n) = [k \in 1 .. n |-> e(k)]
  BY DEF Arc
<1> HIDE DEF e, T
<1>3. Arc(f, b, n) \in [1 .. n -> T]
  BY <1>1, <1>2
<1> HIDE DEF Arc
<1>4. Arc(f, b, n) \in Seq(T) /\ Len(Arc(f, b, n)) = n
  BY <1>3
<1> QED
  BY <1>4

\* One more at the far end.
LEMMA ArcAppend ==
  ASSUME NEW f, NEW b, NEW n \in Nat
  PROVE  Arc(f, b, n + 1) = Append(Arc(f, b, n), f[(b + n) % objCount])
<1>1. Append(Arc(f, b, n), f[(b + n) % objCount])
        = [k \in 1 .. n + 1 |-> IF k = n + 1 THEN f[(b + n) % objCount] ELSE Arc(f, b, n)[k]]
  <2>1. PICK T : Arc(f, b, n) \in Seq(T) /\ Len(Arc(f, b, n)) = n
    BY ArcIsSeq
  <2> HIDE DEF Arc
  <2> QED
    BY <2>1
<1>2. \A k \in 1 .. n + 1 : Arc(f, b, n + 1)[k] = IF k = n + 1 THEN f[(b + n) % objCount] ELSE Arc(f, b, n)[k]
  <2> SUFFICES ASSUME NEW k \in 1 .. n + 1
               PROVE  Arc(f, b, n + 1)[k] = IF k = n + 1 THEN f[(b + n) % objCount] ELSE Arc(f, b, n)[k]
    OBVIOUS
  <2>1. Arc(f, b, n + 1)[k] = f[(b + (k - 1)) % objCount]
    BY DEF Arc
  <2>2. CASE k = n + 1
    <3>1. k - 1 = n
      BY <2>2
    <3> QED
      BY <2>1, <2>2, <3>1
  <2>3. CASE k # n + 1
    <3>1. k \in 1 .. n
      BY <2>3
    <3> QED
      BY <2>1, <2>3, <3>1 DEF Arc
  <2> QED
    BY <2>2, <2>3
<1> QED
  BY <1>1, <1>2 DEF Arc

\* One less at the near end.
LEMMA ArcTail ==
  ASSUME NEW f, NEW b \in Index, NEW n \in 1 .. objCount - 1
  PROVE  /\ Arc(f, b, n) # <<>> /\ Head(Arc(f, b, n)) = f[b]
         /\ Tail(Arc(f, b, n)) = Arc(f, Follow(b), n - 1)
<1>0. objCount \in Nat \ {0, 1} /\ n \in Nat \ {0} /\ 1 \in 1 .. n
  BY StagedAssumption DEF objCount
<1>1. PICK T : Arc(f, b, n) \in Seq(T) /\ Len(Arc(f, b, n)) = n
  BY <1>0, ArcIsSeq
<1>2. Arc(f, b, n) # <<>> /\ Head(Arc(f, b, n)) = Arc(f, b, n)[1]
      /\ Tail(Arc(f, b, n)) = [k \in 1 .. n - 1 |-> Arc(f, b, n)[k + 1]]
  <2>1. PICK a \in Seq(T) : a = Arc(f, b, n) /\ Len(a) = n
    BY <1>1
  <2>2. a # <<>>
    BY <1>0, <2>1
  <2>3. Head(a) = a[1]
    BY <2>2
  <2>4. /\ Tail(a) \in Seq(T) /\ Len(Tail(a)) = Len(a) - 1
        /\ \A k \in 1 .. Len(Tail(a)) : Tail(a)[k] = a[k + 1]
    BY <2>2, HeadTailProperties
  <2>5. Tail(a) = [k \in 1 .. Len(a) - 1 |-> a[k + 1]]
    <3>1. PICK q \in Seq(T) : q = Tail(a)
      BY <2>4
    <3>2. q = [k \in 1 .. Len(q) |-> q[k]]
      OBVIOUS
    <3>3. /\ Len(q) = Len(a) - 1
          /\ \A k \in 1 .. Len(a) - 1 : q[k] = a[k + 1]
      BY <2>4, <3>1
    <3>4. q = [k \in 1 .. Len(a) - 1 |-> a[k + 1]]
      BY <3>2, <3>3
    <3> QED
      BY <3>1, <3>4
  <2> QED
    BY <2>1, <2>2, <2>3, <2>5
<1>3. Arc(f, b, n)[1] = f[b]
  <2>1. Arc(f, b, n)[1] = f[(b + 0) % objCount]
    BY <1>0 DEF Arc
  <2>2. (b + 0) % objCount = b
    <3>1. b + 0 = b /\ b < objCount /\ 0 \in 0 .. objCount - 1
      BY <1>0 DEF Index
    <3> HIDE DEF objCount
    <3> QED
      BY <1>0, <3>1, RingIndex
  <2> QED
    BY <2>1, <2>2
<1>4. ASSUME NEW k \in 1 .. n - 1
      PROVE  Arc(f, b, n)[k + 1] = f[(Follow(b) + (k - 1)) % objCount]
  <2>1. k + 1 \in 1 .. n /\ (k + 1) - 1 = k /\ k \in 0 .. objCount - 1 /\ k - 1 \in 0 .. objCount - 1
    BY <1>0, <1>4
  <2>2. Arc(f, b, n)[k + 1] = f[(b + k) % objCount]
    BY <2>1 DEF Arc
  <2>3. (b + k) % objCount = IF b + k < objCount THEN b + k ELSE b + k - objCount
    BY <2>1, RingIndex
  <2>4. Follow(b) = (IF b + 1 < objCount THEN b + 1 ELSE b + 1 - objCount) /\ Follow(b) \in Index
    BY <1>0, RingIndex DEF Follow
  <2>5. (Follow(b) + (k - 1)) % objCount
          = IF Follow(b) + (k - 1) < objCount THEN Follow(b) + (k - 1) ELSE Follow(b) + (k - 1) - objCount
    BY <2>1, <2>4, RingIndex
  <2>6. (Follow(b) + (k - 1)) % objCount = (b + k) % objCount
    <3> HIDE DEF objCount
    <3> QED
      BY <1>0, <2>1, <2>3, <2>4, <2>5 DEF Index
  <2> QED
    BY <2>2, <2>6
<1> QED
  BY <1>2, <1>3, <1>4 DEF Arc

\* What a stage holds is an arc of the ring.
LEMMA LineIsArcs ==
  ASSUME SbInv, NEW s \in Stage
  PROVE  /\ Line[s] = Arc(object, stage_indices[s + 1], usedInStage(s))
         /\ Len(Line[s]) = usedInStage(s)
<1>1. usedInStage(s) \in Nat
  BY StageUse
<1> QED
  BY <1>1 DEF Line, peekStage, Arc

\* Together the stages hold what is in use.
LEMMA HeldIsAhead ==
  ASSUME SbInv
  PROVE  Ring!Held[numStages - 1] = Ahead(0)
<1> DEFINE Acc == [s \in Stage |-> Ahead(0) - Ahead(s + 1)]
           Sums(h) == h = [s \in Stage |-> Len(Line[s]) + (IF s = 0 THEN 0 ELSE h[s - 1])]
<1>0. /\ numStages \in Nat \ {0} /\ 0 \in 0 .. numStages
      /\ \A i \in 0 .. numStages : Ahead(i) \in Nat
      /\ \A s \in Stage : /\ s \in 0 .. numStages /\ s + 1 \in 0 .. numStages
                          /\ Len(Line[s]) = Ahead(s) - Ahead(s + 1)
      /\ Ahead(numStages) = 0 /\ numStages - 1 \in Stage /\ (numStages - 1) + 1 = numStages
  BY StageUse, LineIsArcs DEF Stage
<1>1. Sums(Acc)
  <2>1. ASSUME NEW s \in Stage
        PROVE  Acc[s] = Len(Line[s]) + (IF s = 0 THEN 0 ELSE Acc[s - 1])
    <3>1. CASE s = 0
      BY <1>0, <3>1
    <3>2. CASE s # 0
      <4>1. s - 1 \in Stage /\ (s - 1) + 1 = s
        BY <1>0, <3>2 DEF Stage
      <4>2. Acc[s - 1] = Ahead(0) - Ahead(s)
        BY <4>1
      <4> QED
        BY <1>0, <3>2, <4>2
    <3> QED
      BY <3>1, <3>2
  <2> QED
    BY <2>1
<1>2. Ring!Held = CHOOSE h : Sums(h)
  BY DEF Ring!Held, Ring!InStages, Line, Stage
<1>3. Sums(Ring!Held)
  <2> HIDE DEF Sums
  <2> QED
    BY <1>1, <1>2
<1>4. PICK h : h = Ring!Held /\ Sums(h)
  BY <1>3
<1> DEFINE Bad == {s \in Stage : h[s] # Ahead(0) - Ahead(s + 1)}
<1>5. ASSUME Bad # {} PROVE FALSE
  <2>1. Bad \subseteq Nat
    BY DEF Stage
  <2> HIDE DEF Bad
  <2>2. PICK b \in Bad : \A c \in Bad : ~(<<c, b>> \in OpToRel(<, Nat))
    BY <1>5, <2>1, NatLessThanWellFounded, WFMin
  <2>3. \A c \in Bad : ~(c < b)
    BY <2>1, <2>2 DEF OpToRel
  <2>4. b \in Stage /\ h[b] # Ahead(0) - Ahead(b + 1)
    BY DEF Bad
  <2>5. h[b] = Len(Line[b]) + (IF b = 0 THEN 0 ELSE h[b - 1])
    BY <1>4, <2>4
  <2>6. CASE b = 0
    BY <1>0, <2>4, <2>5, <2>6
  <2>7. CASE b # 0
    <3>1. b - 1 \in Stage /\ (b - 1) + 1 = b /\ b - 1 < b
      BY <1>0, <2>4, <2>7 DEF Stage
    <3>2. h[b - 1] = Ahead(0) - Ahead(b)
      BY <2>3, <3>1 DEF Bad
    <3> QED
      BY <1>0, <2>4, <2>5, <2>7, <3>2
  <2> QED
    BY <2>6, <2>7
<1> QED
  BY <1>0, <1>4, <1>5

-----------------------------------------------------------------------------
(* Staged buffer: the ring implements the line of queues.                  *)

\* What enters is what was filled in.
LEMMA DoneInInserts ==
  ASSUME SbInv, doneIn
  PROVE  \E v \in Val : Ring!Insert(v)
<1> DEFINE v == object[stage_indices[0]]
<1>0. /\ numStages \in Nat \ {0} /\ 0 \in Stage /\ 0 + 1 = 1 /\ stage_indices[1] \in Index
      /\ stage_indices[0] \in Index /\ usedInStage(0) \in Nat
  BY StageUse DEF Stage
<1>1. /\ SbInv' /\ usedInStage(0)' = usedInStage(0) + 1 /\ stage_indices'[1] = stage_indices[1]
      /\ \A s \in Stage : s # 0 => usedInStage(s)' = usedInStage(s) /\ stage_indices'[s + 1] = stage_indices[s + 1]
      /\ object' = object
  BY <1>0, DoneInMoves DEF doneIn
<1>2. v \in Val
  BY <1>0 DEF SbInv
<1>3. Line[0]' = Append(Line[0], v)
  <2>1. Line[0]' = Arc(object, stage_indices[1], usedInStage(0) + 1)
    <3>1. Line[0]' = Arc(object', stage_indices'[1], usedInStage(0)')
      BY <1>0 DEF Line, peekStage, Arc
    <3> QED
      BY <1>1, <3>1
  <2>2. Line[0] = Arc(object, stage_indices[1], usedInStage(0))
    BY <1>0, LineIsArcs
  <2>3. (stage_indices[1] + usedInStage(0)) % objCount = stage_indices[0]
    BY <1>0, UsedFacts DEF usedInStage
  <2>4. Arc(object, stage_indices[1], usedInStage(0) + 1)
          = Append(Arc(object, stage_indices[1], usedInStage(0)),
                   object[(stage_indices[1] + usedInStage(0)) % objCount])
    BY <1>0, ArcAppend
  <2> QED
    BY <2>1, <2>2, <2>3, <2>4
<1>4. ASSUME NEW s \in Stage, s # 0 PROVE Line[s]' = Line[s]
  <2>1. Line[s]' = Arc(object', stage_indices'[s + 1], usedInStage(s)')
    BY <1>4 DEF Line, peekStage, Arc
  <2>2. Line[s] = Arc(object, stage_indices[s + 1], usedInStage(s))
    BY <1>4, LineIsArcs
  <2> QED
    BY <1>1, <1>4, <2>1, <2>2
<1>5. Line' = [Line EXCEPT ![0] = Append(@, v)]
  <2>1. Line = [s \in Stage |-> Line[s]] /\ Line' = [s \in Stage |-> Line[s]']
    BY DEF Line
  <2> HIDE DEF v
  <2> QED
    BY <1>0, <1>3, <1>4, <2>1
<1>6. Ring!Held[numStages - 1] < count
  <2>1. Ahead(0) < objCount - 1 /\ objCount - 1 = count
    BY StagedAssumption DEF doneIn, SbInv, objCount
  <2> QED
    BY <2>1, HeldIsAhead
<1> QED
  BY <1>2, <1>5, <1>6 DEF Ring!Insert, Line

\* What leaves a stage is its oldest object, and the next stage gets it.
LEMMA DoneStagePasses ==
  ASSUME SbInv, NEW s \in Stage, doneStage(s)
  PROVE  Ring!Pass(s)
<1>0. /\ objCount \in Nat \ {0, 1} /\ stage_indices[s + 1] \in Index
      /\ usedInStage(s) \in 1 .. objCount - 1 /\ s # s + 1
  BY StageUse, DoneStageMoves DEF Stage
<1>1. /\ usedInStage(s)' = usedInStage(s) - 1
      /\ s + 1 \in Stage => usedInStage(s + 1)' = usedInStage(s + 1) + 1
      /\ \A t \in Stage : t # s /\ t # s + 1 => usedInStage(t)' = usedInStage(t)
      /\ stage_indices'[s + 1] = Follow(stage_indices[s + 1])
      /\ \A t \in Stage : t # s => stage_indices'[t + 1] = stage_indices[t + 1]
      /\ object' = object
  BY DoneStageMoves DEF doneStage
<1>2. \A t \in Stage : /\ Line[t] = Arc(object, stage_indices[t + 1], usedInStage(t))
                       /\ Line[t]' = Arc(object', stage_indices'[t + 1], usedInStage(t)')
  <2> SUFFICES ASSUME NEW t \in Stage
               PROVE  /\ Line[t] = Arc(object, stage_indices[t + 1], usedInStage(t))
                      /\ Line[t]' = Arc(object', stage_indices'[t + 1], usedInStage(t)')
    OBVIOUS
  <2> QED
    BY DEF Line, peekStage, Arc
<1>3. Line[s] # <<>> /\ Head(Line[s]) = object[stage_indices[s + 1]] /\ Line[s]' = Tail(Line[s])
  <2>1. Line[s]' = Arc(object, Follow(stage_indices[s + 1]), usedInStage(s) - 1)
    BY <1>1, <1>2
  <2>2. PICK a : a = Arc(object, stage_indices[s + 1], usedInStage(s))
    OBVIOUS
  <2>3. /\ a # <<>> /\ Head(a) = object[stage_indices[s + 1]]
        /\ Tail(a) = Arc(object, Follow(stage_indices[s + 1]), usedInStage(s) - 1)
    BY <1>0, <2>2, ArcTail
  <2>4. Line[s] = a
    BY <1>2, <2>2
  <2> QED
    BY <2>1, <2>3, <2>4
<1>4. ASSUME s + 1 \in Stage PROVE Line[s + 1]' = Append(Line[s + 1], Head(Line[s]))
  <2>0. stage_indices[(s + 1) + 1] \in Index /\ usedInStage(s + 1) \in Nat
    BY <1>4, StageUse
  <2>1. stage_indices'[(s + 1) + 1] = stage_indices[(s + 1) + 1]
    BY <1>0, <1>1, <1>4
  <2>2. Line[s + 1]' = Arc(object, stage_indices[(s + 1) + 1], usedInStage(s + 1) + 1)
    BY <1>1, <1>2, <1>4, <2>1
  <2>3. (stage_indices[(s + 1) + 1] + usedInStage(s + 1)) % objCount = stage_indices[s + 1]
    BY <1>0, <2>0, UsedFacts DEF usedInStage
  <2>4. Line[s + 1] = Arc(object, stage_indices[(s + 1) + 1], usedInStage(s + 1))
    BY <1>2, <1>4
  <2>5. Arc(object, stage_indices[(s + 1) + 1], usedInStage(s + 1) + 1)
          = Append(Line[s + 1], object[stage_indices[s + 1]])
    BY <2>0, <2>3, <2>4, ArcAppend
  <2> QED
    BY <1>3, <2>2, <2>5
<1>5. ASSUME NEW t \in Stage, t # s, t # s + 1 PROVE Line[t]' = Line[t]
  BY <1>1, <1>2, <1>5
<1>6. Line' = [t \in Stage |-> IF t = s THEN Tail(Line[t])
                               ELSE IF t = s + 1 THEN Append(Line[t], Head(Line[s]))
                               ELSE Line[t]]
  <2>1. Line' = [t \in Stage |-> Line[t]']
    BY DEF Line
  <2> QED
    BY <1>0, <1>3, <1>4, <1>5, <2>1
<1> QED
  BY <1>3, <1>6 DEF Ring!Pass, Ring!InStages, Line, Stage

\* The other steps leave the line as it is, or empty it.
LEMMA OtherStepsStutter ==
  ASSUME SbInv, nextIn \/ (\E v \in Val : fill(v)) \/ (\E s \in Stage : nextStage(s)) \/ UNCHANGED sbVars
  PROVE  Line' = Line
<1>1. CASE UNCHANGED <<stage_indices, object>>
  BY <1>1 DEF Line, peekStage, usedInStage
<1>2. ASSUME NEW v \in Val, fill(v) PROVE Line' = Line
  <2>0. /\ filling = stage_indices[0] /\ stage_indices' = stage_indices
        /\ object' = [object EXCEPT ![filling] = v] /\ object \in [Index -> Val]
        /\ Ahead(0) < objCount - 1
    BY <1>2 DEF fill, SbInv
  <2>1. ASSUME NEW s \in Stage PROVE peekStage(s)' = peekStage(s)
    <3>0. /\ objCount \in Nat \ {0, 1} /\ stage_indices[s + 1] \in Index /\ stage_indices[0] \in Index
          /\ usedInStage(s) \in Nat /\ usedInStage(s) <= Ahead(s) - Ahead(s + 1)
          /\ s \in 0 .. numStages /\ s + 1 \in 0 .. numStages /\ 0 \in 0 .. numStages /\ 0 <= s
          /\ Ahead(s) \in Nat /\ Ahead(s + 1) \in Nat /\ Ahead(0) \in Nat
          /\ stage_indices[numStages] \in Index
      BY StageUse DEF Stage
    <3>1. Ahead(s) <= Ahead(0) /\ Ahead(s + 1) <= Ahead(0)
      BY <3>0 DEF SbInv
    \* The stage reaches up to the input index, at most.
    <3>2. /\ RQ_USED(stage_indices[0], stage_indices[s + 1]) = Ahead(0) - Ahead(s + 1)
          /\ RQ_USED(stage_indices[0], stage_indices[s + 1]) \in 0 .. objCount - 1
          /\ (stage_indices[s + 1] + RQ_USED(stage_indices[0], stage_indices[s + 1])) % objCount = stage_indices[0]
      BY <3>0, <3>1, UsedAdds, UsedFacts DEF Ahead
    <3>3. ASSUME NEW k \in 1 .. usedInStage(s)
          PROVE  object'[(stage_indices[s + 1] + (k - 1)) % objCount]
                   = object[(stage_indices[s + 1] + (k - 1)) % objCount]
      <4>1. PICK d : d = RQ_USED(stage_indices[0], stage_indices[s + 1])
        OBVIOUS
      <4>2. d \in 0 .. objCount - 1 /\ k - 1 \in 0 .. objCount - 1 /\ k - 1 < d
        BY <3>0, <3>1, <3>2, <3>3, <4>1
      <4>3. PICK b \in Index : b = stage_indices[s + 1]
        BY <3>0
      <4>4. /\ (b + (k - 1)) % objCount = IF b + (k - 1) < objCount THEN b + (k - 1) ELSE b + (k - 1) - objCount
            /\ (b + d) % objCount = IF b + d < objCount THEN b + d ELSE b + d - objCount
            /\ (b + (k - 1)) % objCount \in Index
        BY <4>2, <4>3, RingIndex
      <4>5. (b + (k - 1)) % objCount # (b + d) % objCount
        <5> HIDE DEF objCount
        <5> QED
          BY <3>0, <4>2, <4>3, <4>4 DEF Index
      <4>6. (b + d) % objCount = filling
        BY <2>0, <3>2, <4>1, <4>3
      <4> QED
        BY <2>0, <4>3, <4>4, <4>5, <4>6
    <3>4. usedInStage(s)' = usedInStage(s)
      BY <2>0 DEF usedInStage
    <3> QED
      BY <2>0, <3>3, <3>4 DEF peekStage
  <2> QED
    BY <2>1 DEF Line
<1> QED
  BY <1>1, <1>2 DEF nextIn, nextStage, sbVars

\* An empty ring is an empty line.
LEMMA EmptyLine ==
  ASSUME stage_indices = [i \in 0 .. numStages |-> 0]
  PROVE  Line = [s \in Stage |-> <<>>]
<1>1. ASSUME NEW s \in Stage PROVE peekStage(s) = <<>>
  <2>1. s \in 0 .. numStages /\ s + 1 \in 0 .. numStages
    BY StagedAssumption DEF Stage
  <2>2. usedInStage(s) = 0
    BY <2>1 DEF usedInStage, RQ_USED
  <2> QED
    BY <2>2 DEF peekStage
<1> QED
  BY <1>1 DEF Line

\* reset empties the line.
LEMMA ResetClears == reset => Ring!Clear
<1> SUFFICES ASSUME reset PROVE Line' = [s \in Stage |-> <<>>]
  BY DEF Ring!Clear, Ring!InStages, Line, Stage
<1>1. ASSUME NEW s \in Stage PROVE peekStage(s)' = <<>>
  <2>1. s \in 0 .. numStages /\ s + 1 \in 0 .. numStages
    BY StagedAssumption DEF Stage
  <2>2. usedInStage(s)' = 0
    BY <2>1 DEF usedInStage, RQ_USED, reset
  <2> QED
    BY <2>2 DEF peekStage
<1> QED
  BY <1>1 DEF Line

\* Every step of the ring is a step of the line, or none.
LEMMA RingStep ==
  ASSUME SbInv, [SbNext]_sbVars
  PROVE  [Ring!PipeNext]_Line
<1>1. CASE doneIn
  BY <1>1, DoneInInserts DEF Ring!PipeNext
<1>2. ASSUME NEW s \in Stage, doneStage(s) PROVE Ring!PipeNext
  BY <1>2, DoneStagePasses DEF Ring!PipeNext, Ring!InStages, Stage
<1>3. CASE reset
  BY <1>3, ResetClears DEF Ring!PipeNext
<1> QED
  BY <1>1, <1>2, <1>3, OtherStepsStutter DEF SbNext

\* The ring is the pipeline it is used as: objects enter, pass every stage in
\* order and leave, each as it was put in, and no more than there is room for.
THEOREM RingIsPipelineAlways == SbSpec => RingIsPipeline
<1>1. SbInit => Ring!PipeInit
  BY EmptyLine DEF SbInit, Ring!PipeInit, Ring!InStages, Line, Stage
<1>2. SbInv /\ [SbNext]_sbVars => [Ring!PipeNext]_[s \in Stage |-> peekStage(s)]
  BY RingStep DEF Line
<1> QED
  BY <1>1, <1>2, RingInvariant, PTL DEF SbSpec, RingIsPipeline, Ring!PipeSpec

\* The ring implements a line of queues, its stages are arcs that do not
\* overlap, and nobody writes to what another one works on.
THEOREM RingImplementsAlways == SbSpec => RingImplements
BY RingIsPipelineAlways, WorkUndisturbedAlways, RingInvariant, SbInvTypeOK, PTL DEF RingImplements
=============================================================================
