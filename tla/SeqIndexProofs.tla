--------------------------- MODULE SeqIndexProofs ----------------------------
(***************************************************************************)
(* The files of the sequential index, for any keys and bounds, away from   *)
(* its two defects: the chain has every record of both files in key order, *)
(* the searches answer with what it has, and the calls do what KeyIndex    *)
(* prescribes.                                                             *)
(*                                                                         *)
(* The invariant does not mention the chain.  It says of each record that  *)
(* the next one has the least key above its own, which a call can disturb  *)
(* in one place only; what the loops along the pointers return follows.    *)
(***************************************************************************)
EXTENDS SeqIndex, NaturalSets, SequenceTheorems, FiniteSetTheorems

\* Time for each prover, for slower machines than the one the proofs were written on.
USE SMTT(60), ZenonT(60)

(* Following pointers.                                                      *)

\* c is what the loop from p until `stop' goes through.
IsPath(c, next, stop, p) ==
  /\ c = <<>> <=> p \in stop
  /\ c # <<>> => c[1] = p /\ next[c[Len(c)]] \in stop
  /\ \A i \in 1..Len(c) : c[i] \notin stop
  /\ \A i \in 1..Len(c) - 1 : c[i + 1] = next[c[i]]

\* A function that grows from each number to the next grows.
LEMMA Increasing ==
  ASSUME NEW n \in Nat, NEW f, \A i \in 1..n : f[i] \in Int,
         \A i \in 1..n - 1 : f[i] < f[i + 1]
  PROVE  \A i, j \in 1..n : i < j => f[i] < f[j]
<1> DEFINE S == {j \in Nat : j \in 1..n => \A i \in 1..n : i < j => f[i] < f[j]}
<1>1. 0 \in S
  OBVIOUS
<1>2. ASSUME NEW j \in Nat, j \in S
      PROVE  j + 1 \in S
  <2> SUFFICES ASSUME j + 1 \in 1..n, NEW i \in 1..n, i < j + 1
               PROVE  f[i] < f[j + 1]
    OBVIOUS
  <2>1. j \in 1..n - 1 /\ j \in 1..n
    OBVIOUS
  <2>2. f[j] < f[j + 1] /\ f[j] \in Int /\ f[j + 1] \in Int /\ f[i] \in Int
    BY <2>1
  <2>3. i = j \/ f[i] < f[j]
    BY <1>2, <2>1
  <2> QED BY <2>2, <2>3
<1>3. Nat \subseteq S
  <2> HIDE DEF S
  <2> QED BY <1>1, <1>2, SetInduction
<1> QED BY <1>3

\* The bounded loop of Follow, unfolded once.
Unfolds(path, size, next, stop) ==
  /\ \A q \in DOMAIN next : Follow(size, next, stop, q) = path[size][q]
  /\ \A q \in DOMAIN next : path[0][q] = <<>>
  /\ \A n \in 1..size, q \in DOMAIN next :
       path[n][q] = IF q \in stop THEN <<>> ELSE <<q>> \o path[n - 1][next[q]]

LEMMA FollowUnfolds ==
  ASSUME NEW size \in Nat, NEW next, NEW stop
  PROVE  \E path : Unfolds(path, size, next, stop)
<1> DEFINE D == DOMAIN next
           Solves(w, m) ==
             w = [n \in 0..m |-> [q \in DOMAIN next |->
                    IF n = 0 \/ q \in stop THEN <<>> ELSE <<q>> \o w[n - 1][next[q]]]]
           path == CHOOSE w : Solves(w, size)
           None == [q \in D |-> <<>>]
           Before(row) == [q \in D |-> IF q \in stop THEN <<>> ELSE <<q>> \o row[next[q]]]
           Rows(w, m) == \A n \in 0..m : w[n] = IF n = 0 THEN None ELSE Before(w[n - 1])
<1>2. ASSUME NEW w, NEW m \in Nat, w = [n \in 0..m |-> w[n]]
      PROVE  Solves(w, m) <=> Rows(w, m)
  <2>1. \A n \in 0..m :
          [q \in DOMAIN next |->
             IF n = 0 \/ q \in stop THEN <<>> ELSE <<q>> \o w[n - 1][next[q]]]
            = IF n = 0 THEN None ELSE Before(w[n - 1])
    <3> TAKE n \in 0..m
    <3>1. CASE n = 0
      BY <3>1
    <3>2. CASE n # 0
      BY <3>2
    <3> QED BY <3>1, <3>2
  <2> HIDE DEF None, Before
  <2>2. Solves(w, m) <=> \A n \in 0..m :
          w[n] = [q \in DOMAIN next |->
                    IF n = 0 \/ q \in stop THEN <<>> ELSE <<q>> \o w[n - 1][next[q]]]
    <3>1. ASSUME Solves(w, m), NEW n \in 0..m
          PROVE  w[n] = [q \in DOMAIN next |->
                    IF n = 0 \/ q \in stop THEN <<>> ELSE <<q>> \o w[n - 1][next[q]]]
      BY <3>1
    <3>2. ASSUME \A n \in 0..m : w[n] = [q \in DOMAIN next |->
                    IF n = 0 \/ q \in stop THEN <<>> ELSE <<q>> \o w[n - 1][next[q]]]
          PROVE  Solves(w, m)
      BY <1>2, <3>2
    <3> QED BY <3>1, <3>2
  <2> QED BY <2>1, <2>2
<1>3. \E w : w = [n \in 0..size |-> w[n]] /\ Rows(w, size)
  <2> HIDE DEF None, Before
  <2> DEFINE S == {m \in Nat : \E w : w = [n \in 0..m |-> w[n]] /\ Rows(w, m)}
  <2>1. 0 \in S
    <3> DEFINE v == [n \in 0..0 |-> None]
    <3>1. v = [n \in 0..0 |-> v[n]] /\ Rows(v, 0)
      OBVIOUS
    <3> HIDE DEF v
    <3> QED BY <3>1
  <2>2. ASSUME NEW m \in Nat, m \in S
        PROVE  m + 1 \in S
    <3>1. PICK w : w = [n \in 0..m |-> w[n]] /\ Rows(w, m)
      BY <2>2
    <3> DEFINE v == [n \in 0..m + 1 |-> IF n = m + 1 THEN Before(w[m]) ELSE w[n]]
    <3>2. \A n \in 0..m + 1 : v[n] = IF n = 0 THEN None ELSE Before(v[n - 1])
      <4> TAKE n \in 0..m + 1
      <4>1. CASE n = m + 1
        <5>1. n - 1 = m /\ m \in 0..m + 1 /\ m # m + 1 /\ n # 0
          BY <4>1
        <5>2. v[n] = Before(w[m]) /\ v[m] = w[m]
          BY <4>1, <5>1
        <5> HIDE DEF v
        <5> QED BY <5>1, <5>2
      <4>2. CASE n \in 0..m
        <5>1. v[n] = w[n] /\ (n # 0 => v[n - 1] = w[n - 1])
          BY <4>2
        <5> HIDE DEF v
        <5> QED BY <3>1, <4>2, <5>1
      <4> QED BY <4>1, <4>2
    <3>3. v = [n \in 0..m + 1 |-> v[n]]
      OBVIOUS
    <3> HIDE DEF v
    <3>4. Rows(v, m + 1)
      BY <3>2
    <3> HIDE DEF Rows
    <3> QED BY <3>3, <3>4
  <2>3. size \in S
    <3> HIDE DEF S
    <3> QED BY <2>1, <2>2, SetInduction
  <2> QED BY <2>3
<1>4. Solves(path, size)
  <2>1. \E w : Solves(w, size)
    <3>1. PICK w : w = [n \in 0..size |-> w[n]] /\ Rows(w, size)
      BY <1>3
    <3> HIDE DEF Rows, Solves
    <3> QED BY <1>2, <3>1
  <2> HIDE DEF Solves
  <2> QED BY <2>1
<1>5. \A q \in DOMAIN next : Follow(size, next, stop, q) = path[size][q]
  BY DEF Follow
<1> HIDE DEF path
<1>6. Rows(path, size)
  <2>1. path = [n \in 0..size |-> path[n]]
    BY <1>4
  <2> HIDE DEF Rows, Solves
  <2> QED BY <1>2, <1>4, <2>1
<1>7. \A q \in D : path[0][q] = <<>>
  <2>1. path[0] = None
    <3> HIDE DEF Before, None
    <3> QED BY <1>6
  <2> QED BY <2>1
<1>8. ASSUME NEW n \in 1..size, NEW q \in D
      PROVE  path[n][q] = IF q \in stop THEN <<>> ELSE <<q>> \o path[n - 1][next[q]]
  <2>1. path[n] = Before(path[n - 1])
    <3> HIDE DEF Before, None
    <3> QED BY <1>6
  <2> QED BY <2>1
<1>9. /\ \A q \in DOMAIN next : path[0][q] = <<>>
      /\ \A n \in 1..size, q \in DOMAIN next :
           path[n][q] = IF q \in stop THEN <<>> ELSE <<q>> \o path[n - 1][next[q]]
  BY <1>7, <1>8
<1>10. Unfolds(path, size, next, stop)
  <2> HIDE DEF D
  <2> QED BY <1>5, <1>9 DEF Unfolds
<1> QED BY <1>10

\* Following pointers that lead to greater and greater ranks ends at `stop', and
\* passes no record twice on the way.
LEMMA FollowIsPath ==
  ASSUME NEW S, IsFiniteSet(S), NEW size \in Nat, Cardinality(S) <= size,
         NEW next, NEW stop, S \union stop \subseteq DOMAIN next,
         \A s \in S : s \notin stop /\ next[s] \in S \union stop,
         NEW rank, \A s \in S : rank[s] \in Int,
         \A s \in S : next[s] \in S => rank[s] < rank[next[s]],
         NEW p \in S \union stop
  PROVE  LET c == Follow(size, next, stop, p)
         IN  /\ c \in Seq(S) /\ Len(c) \in Nat /\ IsPath(c, next, stop, p)
             /\ \A i, j \in 1..Len(c) : i < j => rank[c[i]] < rank[c[j]]
<1>0. PICK path : Unfolds(path, size, next, stop)
  BY FollowUnfolds
<1>1. /\ \A q \in DOMAIN next : Follow(size, next, stop, q) = path[size][q]
      /\ \A q \in DOMAIN next : path[0][q] = <<>>
      /\ \A n \in 1..size, q \in DOMAIN next :
           path[n][q] = IF q \in stop THEN <<>> ELSE <<q>> \o path[n - 1][next[q]]
  BY <1>0 DEF Unfolds
<1> DEFINE Walks(c, n, q) ==
             /\ c \in Seq(S) /\ Len(c) \in Nat /\ Len(c) <= n
             /\ c = <<>> <=> q \in stop \/ n = 0
             /\ c # <<>> => c[1] = q
             /\ \A i \in 1..Len(c) - 1 : c[i + 1] = next[c[i]]
             /\ Len(c) = n \/ c = <<>> \/ next[c[Len(c)]] \in stop
           T == {n \in Nat : n \in 0..size => \A q \in S \union stop : Walks(path[n][q], n, q)}
<1>2. 0 \in T
  <2>1. \A q \in S \union stop : path[0][q] = <<>>
    BY <1>1
  <2>2. \A q : Walks(<<>>, 0, q)
    OBVIOUS
  <2> HIDE DEF Walks
  <2> QED BY <2>1, <2>2
<1>3. ASSUME NEW n \in Nat, n \in T
      PROVE  n + 1 \in T
  <2> SUFFICES ASSUME n + 1 \in 0..size, NEW q \in S \union stop
               PROVE  Walks(path[n + 1][q], n + 1, q)
    OBVIOUS
  <2> DEFINE c == path[n + 1][q]
             rest == path[n][next[q]]
  <2>1. n \in 0..size /\ n + 1 \in 1..size /\ (n + 1) - 1 = n
    OBVIOUS
  <2>2. c = IF q \in stop THEN <<>> ELSE <<q>> \o rest
    BY <1>1, <2>1
  <2>3. CASE q \in stop
    <3>1. path[n + 1][q] = <<>> /\ n + 1 # 0
      BY <2>2, <2>3
    <3>2. Walks(<<>>, n + 1, q)
      BY <2>3
    <3> HIDE DEF Walks
    <3> QED BY <3>1, <3>2
  <2>4. CASE q \notin stop
    <3>1. q \in S /\ next[q] \in S \union stop
      BY <2>4
    <3>2. Walks(rest, n, next[q])
      BY <1>3, <2>1, <3>1
    <3>3. c = <<q>> \o rest
      BY <2>2, <2>4
    <3> DEFINE len == Len(rest)
    <3> HIDE DEF c, rest, Walks
    <3>4. /\ rest \in Seq(S) /\ len \in Nat /\ len <= n
          /\ rest = <<>> <=> next[q] \in stop \/ n = 0
          /\ rest # <<>> => rest[1] = next[q]
          /\ \A i \in 1..len - 1 : rest[i + 1] = next[rest[i]]
          /\ len = n \/ rest = <<>> \/ next[rest[len]] \in stop
      BY <3>2 DEF Walks
    <3>5. rest = <<>> <=> len = 0
      BY <3>4
    <3>6. /\ c \in Seq(S) /\ Len(c) = len + 1 /\ c[1] = q
          /\ \A i \in 1..len : c[i + 1] = rest[i]
      BY <3>1, <3>3, <3>4
    <3> HIDE DEF len
    <3>7. \A i \in 1..Len(c) - 1 : c[i + 1] = next[c[i]]
      <4> SUFFICES ASSUME NEW i \in 1..len
                   PROVE  c[i + 1] = next[c[i]]
        BY <3>4, <3>6
      <4>1. c[i + 1] = rest[i]
        BY <3>6
      <4>2. CASE i = 1
        BY <3>4, <3>5, <3>6, <4>1, <4>2
      <4>3. CASE i # 1
        <5>1. i - 1 \in 1..len /\ i - 1 \in 1..len - 1 /\ (i - 1) + 1 = i
          BY <3>4, <4>3
        <5>2. rest[i] = next[rest[i - 1]] /\ c[i] = rest[i - 1]
          BY <3>4, <3>6, <5>1
        <5> QED BY <4>1, <5>2
      <4> QED BY <4>2, <4>3
    <3>8. Len(c) = n + 1 \/ next[c[Len(c)]] \in stop
      <4>1. CASE len = 0
        <5>1. next[q] \in stop \/ n = 0
          BY <3>4, <3>5, <4>1
        <5> QED BY <3>6, <4>1, <5>1
      <4>2. CASE len # 0
        <5>1. len \in 1..len /\ c[len + 1] = rest[len]
          BY <3>4, <3>6, <4>2
        <5> QED BY <3>4, <3>5, <3>6, <4>2, <5>1
      <4> QED BY <4>1, <4>2
    <3>9. /\ Len(c) \in Nat /\ Len(c) <= n + 1 /\ c # <<>> /\ n + 1 # 0
      BY <3>4, <3>6
    <3> QED BY <2>4, <3>6, <3>7, <3>8, <3>9 DEF Walks, c
  <2> QED BY <2>3, <2>4
<1>4. size \in T
  <2> HIDE DEF T
  <2> QED BY <1>2, <1>3, SetInduction
<1> DEFINE c == Follow(size, next, stop, p)
           len == Len(c)
<1>5. Walks(c, size, p)
  <2>1. c = path[size][p]
    BY <1>1
  <2>2. Walks(path[size][p], size, p)
    BY <1>4
  <2> HIDE DEF Walks, c
  <2> QED BY <2>1, <2>2
<1> HIDE DEF c, T
<1>6. /\ c \in Seq(S) /\ len \in Nat /\ len <= size /\ (c = <<>> <=> len = 0)
      /\ \A i \in 1..len : c[i] \in S
      /\ \A i \in 1..len - 1 : c[i + 1] = next[c[i]]
  BY <1>5
<1>7. \A i, j \in 1..len : i < j => rank[c[i]] < rank[c[j]]
  <2> DEFINE f == [i \in 1..len |-> rank[c[i]]]
  <2>1. \A i \in 1..len : f[i] = rank[c[i]] /\ f[i] \in Int
    BY <1>6
  <2>2. \A i \in 1..len - 1 : f[i] < f[i + 1]
    <3> SUFFICES ASSUME NEW i \in 1..len - 1
                 PROVE  f[i] < f[i + 1]
      OBVIOUS
    <3>1. i \in 1..len /\ i + 1 \in 1..len
      BY <1>6
    <3>2. c[i] \in S /\ c[i + 1] \in S /\ c[i + 1] = next[c[i]]
      BY <1>6, <3>1
    <3> HIDE DEF f, len
    <3> QED BY <2>1, <3>1, <3>2
  <2> HIDE DEF f, len
  <2>3. \A i, j \in 1..len : i < j => f[i] < f[j]
    BY <1>6, <2>1, <2>2, Increasing
  <2> QED BY <2>1, <2>3
<1>8. c = <<>> <=> p \in stop
  <2>1. ASSUME size = 0
        PROVE  p \in stop
    <3>1. Cardinality(S) \in Nat /\ (Cardinality(S) = 0 <=> S = {})
      BY FS_CardinalityType, FS_EmptySet
    <3> QED BY <2>1, <3>1
  <2> QED BY <1>5, <2>1
<1>9. c # <<>> => c[1] = p /\ next[c[len]] \in stop
  <2> SUFFICES ASSUME c # <<>>
               PROVE  next[c[len]] \in stop
    BY <1>5
  <2> SUFFICES ASSUME next[c[len]] \notin stop
               PROVE  FALSE
    OBVIOUS
  <2>1. len = size /\ len # 0 /\ len \in 1..len
    BY <1>5, <1>6
  <2>2. c[len] \in S /\ next[c[len]] \in S /\ rank[c[len]] < rank[next[c[len]]]
    BY <1>6, <2>1
  <2> DEFINE f == [i \in 1..size + 1 |-> IF i = size + 1 THEN next[c[len]] ELSE c[i]]
  <2>3. f \in [1..size + 1 -> S]
    BY <1>6, <2>1, <2>2
  <2>4. IsFiniteSet(1..size + 1) /\ Cardinality(1..size + 1) = size + 1 /\ Cardinality(S) \in Nat
    BY FS_Interval, FS_CardinalityType
  <2>5. PICK i, j \in 1..size + 1 : i # j /\ f[i] = f[j]
    <3> HIDE DEF f
    <3>1. Cardinality(S) < Cardinality(1..size + 1)
      BY <2>4
    <3> QED BY <2>3, <2>4, <3>1, FS_PigeonHole
  <2>6. \A a, b \in 1..size + 1 : a < b => f[a] # f[b]
    <3> SUFFICES ASSUME NEW a \in 1..size + 1, NEW b \in 1..size + 1, a < b
                 PROVE  rank[f[a]] < rank[f[b]]
      <4> HIDE DEF f
      <4> QED BY <2>3
    <3>1. a \in 1..len /\ f[a] = c[a] /\ c[a] \in S
      BY <1>6, <2>1
    <3>2. CASE b = size + 1
      <4>1. f[b] = next[c[len]] /\ (a = len \/ rank[c[a]] < rank[c[len]])
        BY <1>7, <2>1, <3>1, <3>2
      <4>2. rank[c[a]] \in Int /\ rank[c[len]] \in Int /\ rank[next[c[len]]] \in Int
        BY <2>2, <3>1
      <4> HIDE DEF f
      <4> QED BY <2>2, <3>1, <4>1, <4>2
    <3>3. CASE b # size + 1
      <4>1. b \in 1..len /\ f[b] = c[b]
        BY <2>1, <3>3
      <4> HIDE DEF f
      <4> QED BY <1>7, <3>1, <4>1
    <3> QED BY <3>2, <3>3
  <2> HIDE DEF f
  <2> QED BY <2>5, <2>6
<1>10. \A i \in 1..len : c[i] \notin stop
  BY <1>6
<1>11. IsPath(c, next, stop, p)
  BY <1>6, <1>8, <1>9, <1>10 DEF IsPath
<1> QED BY <1>6, <1>7, <1>11 DEF c

\* There is one way from p to `stop'.
LEMMA PathUnique ==
  ASSUME NEW S, NEW c \in Seq(S), NEW e \in Seq(S), NEW next, NEW stop, NEW p,
         IsPath(c, next, stop, p), IsPath(e, next, stop, p)
  PROVE  c = e
<1>1. /\ Len(c) \in Nat /\ Len(e) \in Nat
      /\ c = <<>> <=> Len(c) = 0
      /\ e = <<>> <=> Len(e) = 0
      /\ c = <<>> <=> e = <<>>
  BY DEF IsPath
<1> DEFINE T == {n \in Nat : n \in 1..Len(c) => n \in 1..Len(e) /\ c[n] = e[n]}
<1>2. 0 \in T
  BY <1>1
<1>3. ASSUME NEW n \in Nat, n \in T
      PROVE  n + 1 \in T
  <2> SUFFICES ASSUME n + 1 \in 1..Len(c)
               PROVE  n + 1 \in 1..Len(e) /\ c[n + 1] = e[n + 1]
    OBVIOUS
  <2>1. CASE n = 0
    <3>1. Len(e) # 0 /\ 1 \in 1..Len(e)
      BY <1>1
    <3> QED BY <1>1, <2>1, <3>1 DEF IsPath
  <2>2. CASE n # 0
    <3>1. n \in 1..Len(c) /\ n \in 1..Len(c) - 1
      BY <1>1, <2>2
    <3>2. n \in 1..Len(e) /\ c[n] = e[n]
      BY <1>3, <3>1
    <3>3. c[n + 1] = next[c[n]] /\ c[n + 1] \notin stop
      BY <3>1 DEF IsPath
    <3>4. n # Len(e)
      BY <1>1, <3>2, <3>3 DEF IsPath
    <3>5. n \in 1..Len(e) - 1 /\ n + 1 \in 1..Len(e)
      BY <1>1, <3>2, <3>4
    <3>6. e[n + 1] = next[e[n]]
      BY <3>5 DEF IsPath
    <3> QED BY <3>2, <3>3, <3>5, <3>6
  <2> QED BY <2>1, <2>2
<1>4. Nat \subseteq T
  <2> HIDE DEF T
  <2> QED BY <1>2, <1>3, SetInduction
<1>5. \A n \in 1..Len(c) : n \in 1..Len(e) /\ c[n] = e[n]
  BY <1>1, <1>4
<1>6. Len(c) = Len(e)
  <2> SUFFICES ASSUME Len(c) # Len(e)
               PROVE  FALSE
    OBVIOUS
  <2>1. CASE Len(c) = 0
    BY <1>1, <2>1
  <2>2. CASE Len(c) # 0
    <3>1. Len(c) \in 1..Len(c) /\ Len(c) \in 1..Len(e) /\ Len(c) \in 1..Len(e) - 1
          /\ Len(c) + 1 \in 1..Len(e)
      <4>1. Len(c) \in 1..Len(c)
        BY <1>1, <2>2
      <4>2. Len(c) \in 1..Len(e)
        BY <1>5, <4>1
      <4> QED BY <1>1, <4>1, <4>2
    <3>2. c[Len(c)] = e[Len(c)] /\ next[c[Len(c)]] \in stop
      BY <1>1, <1>5, <2>2, <3>1 DEF IsPath
    <3>3. e[Len(c) + 1] = next[e[Len(c)]] /\ e[Len(c) + 1] \notin stop
      BY <3>1 DEF IsPath
    <3> QED BY <3>2, <3>3
  <2> QED BY <2>1, <2>2
<1> QED BY <1>5, <1>6, SeqEqual

-----------------------------------------------------------------------------
(* The records of the files.                                                *)

IndexNodes(d) == {InIndex(i) : i \in 1..Len(d.index)}
AuxNodes(d) == {InAux(i) : i \in 1..Len(d.aux)}
Nodes(d) == IndexNodes(d) \union AuxNodes(d)

LEMMA DiskTyped ==
  ASSUME NEW d \in Disk
  PROVE  /\ d.hdr \in Pointer
         /\ d.index \in Seq(Entry) /\ d.aux \in Seq(Entry)
         /\ d.dups \in Seq([raw : Position, dup : Nat])
         /\ Len(d.index) \in Nat /\ Len(d.aux) \in Nat /\ Len(d.dups) \in Nat
BY DEF Disk

LEMMA NodeTyped ==
  ASSUME NEW d \in Disk, NEW p \in Nodes(d)
  PROVE  /\ p \in Pointer /\ p # Nil /\ p # Header /\ Rec(d, p) \in Entry
         /\ NextOf(d, p) = Rec(d, p).next
         /\ Rec(d, p).data \in Int /\ Rec(d, p).raw \in Position
         /\ Rec(d, p).dup \in Nat /\ Rec(d, p).next \in Pointer
         /\ \/ p.file = "index" /\ p.pos \in 1..Len(d.index) /\ p = InIndex(p.pos)
               /\ Rec(d, p) = d.index[p.pos]
            \/ p.file = "aux" /\ p.pos \in 1..Len(d.aux) /\ p = InAux(p.pos)
               /\ Rec(d, p) = d.aux[p.pos]
<1>1. CASE p \in IndexNodes(d)
  <2>1. PICK i \in 1..Len(d.index) : p = InIndex(i)
    BY <1>1 DEF IndexNodes
  <2>2. /\ i \in Nat /\ i # 0 /\ d.index[i] \in Entry
        /\ p.file = "index" /\ p.pos = i /\ p # Nil /\ p # Header /\ p \in Pointer
    BY <2>1, DiskTyped DEF InIndex, Nil, Header, Pointer
  <2>3. Rec(d, p) = d.index[i] /\ NextOf(d, p) = d.index[i].next
    BY <2>2 DEF Rec, NextOf
  <2> QED BY <2>1, <2>2, <2>3 DEF Entry
<1>2. CASE p \in AuxNodes(d)
  <2>1. PICK i \in 1..Len(d.aux) : p = InAux(i)
    BY <1>2 DEF AuxNodes
  <2>2. /\ i \in Nat /\ i # 0 /\ d.aux[i] \in Entry
        /\ p.file = "aux" /\ p.pos = i /\ p # Nil /\ p # Header /\ p \in Pointer
    BY <2>1, DiskTyped DEF InAux, InIndex, Nil, Header, Pointer
  <2>3. Rec(d, p) = d.aux[i] /\ NextOf(d, p) = d.aux[i].next
    BY <2>2 DEF Rec, NextOf
  <2> QED BY <2>1, <2>2, <2>3 DEF Entry
<1> QED BY <1>1, <1>2 DEF Nodes

\* There are not more nodes than records.
LEMMA NodesFinite ==
  ASSUME NEW d \in Disk
  PROVE  /\ IsFiniteSet(Nodes(d)) /\ Cardinality(Nodes(d)) <= Len(d.index) + Len(d.aux)
         /\ IsFiniteSet(AuxNodes(d)) /\ Cardinality(AuxNodes(d)) <= Len(d.aux)
<1> DEFINE n == Len(d.index)
           m == Len(d.aux)
<1>1. /\ n \in Nat /\ m \in Nat
      /\ IndexNodes(d) = {InIndex(i) : i \in 1..n} /\ AuxNodes(d) = {InAux(i) : i \in 1..m}
  BY DiskTyped DEF IndexNodes, AuxNodes
<1> HIDE DEF n, m
<1> DEFINE f == [i \in 1..n + m |-> IF i <= n THEN InIndex(i) ELSE InAux(i - n)]
           g == [i \in 1..m |-> InAux(i)]
<1>2. f \in Surjection(1..n + m, Nodes(d))
  <2>1. f \in [1..n + m -> Nodes(d)]
    <3> SUFFICES ASSUME NEW i \in 1..n + m
                 PROVE  (IF i <= n THEN InIndex(i) ELSE InAux(i - n)) \in Nodes(d)
      OBVIOUS
    <3>1. CASE i <= n
      BY <1>1, <3>1 DEF Nodes
    <3>2. CASE i > n
      <4>1. i - n \in 1..m /\ ~ (i <= n)
        BY <1>1, <3>2
      <4> QED BY <1>1, <4>1 DEF Nodes
    <3> QED BY <1>1, <3>1, <3>2
  <2>2. ASSUME NEW p \in Nodes(d)
        PROVE  \E i \in 1..n + m : f[i] = p
    <3>1. CASE p \in IndexNodes(d)
      <4>1. PICK i \in 1..n : p = InIndex(i)
        BY <1>1, <3>1
      <4>2. i \in 1..n + m /\ i <= n
        BY <1>1
      <4> QED BY <4>1, <4>2
    <3>2. CASE p \in AuxNodes(d)
      <4>1. PICK i \in 1..m : p = InAux(i)
        BY <1>1, <3>2
      <4>2. n + i \in 1..n + m /\ ~ (n + i <= n) /\ (n + i) - n = i
        BY <1>1
      <4>3. f[n + i] = p
        BY <4>1, <4>2
      <4> HIDE DEF f
      <4> QED BY <4>2, <4>3
    <3> QED BY <3>1, <3>2 DEF Nodes
  <2> HIDE DEF f
  <2> QED BY <2>1, <2>2 DEF Surjection
<1>3. g \in Surjection(1..m, AuxNodes(d))
  BY <1>1 DEF Surjection
<1>4. /\ IsFiniteSet(1..n + m) /\ Cardinality(1..n + m) = n + m
      /\ IsFiniteSet(1..m) /\ Cardinality(1..m) = m
  <2>1. ASSUME NEW k \in Nat
        PROVE  IsFiniteSet(1..k) /\ Cardinality(1..k) = k
    BY FS_Interval
  <2>2. n + m \in Nat
    BY <1>1
  <2> QED BY <1>1, <2>1, <2>2
<1> HIDE DEF f, g
<1>5. IsFiniteSet(Nodes(d)) /\ Cardinality(Nodes(d)) <= n + m
  BY <1>2, <1>4, FS_Surjection
<1>6. IsFiniteSet(AuxNodes(d)) /\ Cardinality(AuxNodes(d)) <= m
  BY <1>3, <1>4, FS_Surjection
<1> QED BY <1>5, <1>6 DEF n, m

-----------------------------------------------------------------------------
(* The order of the records.                                                *)

Precedes(d, p, q) == p = Header \/ Rec(d, p).data < Rec(d, q).data

\* The next record of each record in `linked', and of the header, is the one of
\* `linked' with the least key above.
Ordered(d, linked) ==
  /\ \A p, q \in linked : Rec(d, p).data = Rec(d, q).data => p = q
  /\ \A p \in linked \union {Header} : NextOf(d, p) \in linked \union {Nil}
  /\ \A p \in linked \union {Header} : NextOf(d, p) # Nil => Precedes(d, p, NextOf(d, p))
  /\ \A p \in linked \union {Header}, q \in linked : Precedes(d, p, q) =>
       NextOf(d, p) # Nil /\ Rec(d, NextOf(d, p)).data <= Rec(d, q).data

Successor(d) == [q \in Pointer |-> Rec(d, q).next]
InIndexFile == [file : {"index"}, pos : Nat]

\* A path through records in order has all of them that are not below its first
\* one, or below the record it stops at.
LEMMA PathComplete ==
  ASSUME NEW d \in Disk, NEW linked, linked \subseteq Nodes(d), Ordered(d, linked),
         NEW c \in Seq(linked), c # <<>>,
         \A i \in 1..Len(c) - 1 : c[i + 1] = Rec(d, c[i]).next,
         NEW q \in linked, Rec(d, c[1]).data <= Rec(d, q).data
  PROVE  \/ \E i \in 1..Len(c) : c[i] = q
         \/ LET end == Rec(d, c[Len(c)]).next
            IN  end # Nil /\ Rec(d, end).data <= Rec(d, q).data
<1> DEFINE len == Len(c)
           I == {i \in 1..len : Rec(d, c[i]).data <= Rec(d, q).data}
<1>1. len \in Nat /\ len # 0 /\ 1 \in 1..len /\ \A i \in 1..len : c[i] \in linked
  OBVIOUS
<1>2. \A p \in linked : Rec(d, p).data \in Int /\ NextOf(d, p) = Rec(d, p).next
  BY NodeTyped
<1> HIDE DEF len
<1>3. PICK m \in I : \A i \in I : i <= m
  <2>1. I \subseteq 0..len /\ I # {}
    BY <1>1
  <2> HIDE DEF I
  <2>2. Max(I) \in I /\ \A i \in I : i <= Max(I)
    BY <1>1, <2>1, MaxIsGreatest
  <2> QED BY <2>2
<1>4. m \in 1..len /\ c[m] \in linked /\ Rec(d, c[m]).data <= Rec(d, q).data
  BY <1>1, <1>3
<1>5. CASE Rec(d, c[m]).data = Rec(d, q).data
  <2>1. c[m] = q
    BY <1>4, <1>5 DEF Ordered
  <2> QED BY <1>4, <2>1 DEF len
<1>6. CASE Rec(d, c[m]).data # Rec(d, q).data
  <2> DEFINE end == Rec(d, c[m]).next
  <2>1. Precedes(d, c[m], q)
    BY <1>2, <1>4, <1>6 DEF Precedes
  <2>2. end # Nil /\ Rec(d, end).data <= Rec(d, q).data
    BY <1>2, <1>4, <2>1 DEF Ordered
  <2>3. CASE m = len
    BY <2>2, <2>3 DEF len
  <2>4. CASE m # len
    <3>1. m \in 1..len - 1 /\ m + 1 \in 1..len
      BY <1>1, <1>4, <2>4
    <3>2. c[m + 1] = end
      BY <3>1 DEF len
    <3>3. m + 1 \in I
      BY <2>2, <3>1, <3>2
    <3> HIDE DEF I
    <3> QED BY <1>3, <1>4, <3>3
  <2> QED BY <2>3, <2>4
<1> QED BY <1>5, <1>6

\* The chain from a record has all those that are not below it, in order.
LEMMA ChainIs ==
  ASSUME NEW d \in Disk, NEW linked, linked \subseteq Nodes(d), Ordered(d, linked),
         NEW p \in linked \union {Nil}
  PROVE  LET c == Chain(d, p)
         IN  /\ c \in Seq(linked) /\ Len(c) \in Nat
             /\ c = <<>> <=> p = Nil
             /\ c # <<>> => c[1] = p /\ Rec(d, c[Len(c)]).next = Nil
             /\ \A i \in 1..Len(c) - 1 : c[i + 1] = Rec(d, c[i]).next
             /\ \A i, j \in 1..Len(c) : i < j => Rec(d, c[i]).data < Rec(d, c[j]).data
             /\ \A q \in linked : p # Nil /\ Rec(d, p).data <= Rec(d, q).data =>
                  \E i \in 1..Len(c) : c[i] = q
<1> DEFINE size == Len(d.index) + Len(d.aux)
           rank == [q \in linked |-> Rec(d, q).data]
           c == Chain(d, p)
           next == Successor(d)
<1>1. \A q \in linked : /\ q \in Pointer /\ q # Nil /\ q # Header /\ Rec(d, q).data \in Int
                        /\ NextOf(d, q) = Rec(d, q).next
  BY NodeTyped
<1>2. /\ IsFiniteSet(linked) /\ Cardinality(linked) <= size /\ size \in Nat
  <2>1. /\ IsFiniteSet(Nodes(d)) /\ Cardinality(Nodes(d)) <= size /\ size \in Nat
    <3>1. size \in Nat
      <4>1. \A a, b \in Nat : a + b \in Nat
        OBVIOUS
      <4> QED BY <4>1, DiskTyped
    <3> QED BY <3>1, NodesFinite
  <2>2. IsFiniteSet(linked) /\ Cardinality(linked) <= Cardinality(Nodes(d))
    BY <2>1, FS_Subset
  <2>3. Cardinality(linked) \in Nat /\ Cardinality(Nodes(d)) \in Nat
    BY <2>1, <2>2, FS_CardinalityType
  <2> HIDE DEF size
  <2> QED BY <2>1, <2>2, <2>3
<1>3. Nil \in Pointer /\ Nil # Header
  BY DEF Nil, InIndex, Pointer, Header
<1>4. DOMAIN next = Pointer /\ \A q \in Pointer : next[q] = Rec(d, q).next
  BY DEF Successor
<1>5. c = Follow(size, next, {Nil}, p)
  BY DEF Chain, Successor
<1>6. \A q \in linked : q \notin {Nil} /\ next[q] \in linked \union {Nil}
  BY <1>1, <1>4 DEF Ordered
<1>7. \A q \in linked : rank[q] = Rec(d, q).data /\ rank[q] \in Int
  BY <1>1
<1>8. \A q \in linked : next[q] \in linked => rank[q] < rank[next[q]]
  <2> SUFFICES ASSUME NEW q \in linked, next[q] \in linked
               PROVE  Rec(d, q).data < Rec(d, next[q]).data
    BY <1>7
  <2>1. next[q] = NextOf(d, q) /\ next[q] # Nil
    BY <1>1, <1>4
  <2>2. Precedes(d, q, NextOf(d, q))
    BY <2>1 DEF Ordered
  <2> QED BY <1>1, <2>1, <2>2 DEF Precedes
<1>9. linked \union {Nil} \subseteq DOMAIN next
  BY <1>1, <1>3, <1>4
<1> HIDE DEF size, rank, c, next
<1>10. /\ c \in Seq(linked) /\ Len(c) \in Nat /\ IsPath(c, next, {Nil}, p)
       /\ \A i, j \in 1..Len(c) : i < j => rank[c[i]] < rank[c[j]]
  BY <1>2, <1>5, <1>6, <1>7, <1>8, <1>9, FollowIsPath
<1>11. \A i \in 1..Len(c) : c[i] \in linked /\ c[i] \in Pointer
  BY <1>1, <1>10
<1>12. /\ c = <<>> <=> p = Nil
       /\ \A i \in 1..Len(c) - 1 : c[i + 1] = Rec(d, c[i]).next
  <2>1. \A i \in 1..Len(c) - 1 : i \in 1..Len(c)
    BY <1>10
  <2> QED BY <1>4, <1>10, <1>11, <2>1 DEF IsPath
<1>13. c # <<>> => c[1] = p /\ Rec(d, c[Len(c)]).next = Nil
  <2> SUFFICES ASSUME c # <<>>
               PROVE  c[1] = p /\ Rec(d, c[Len(c)]).next = Nil
    OBVIOUS
  <2>1. Len(c) \in 1..Len(c)
    BY <1>10
  <2> QED BY <1>4, <1>10, <1>11, <2>1 DEF IsPath
<1>14. \A i, j \in 1..Len(c) : i < j => Rec(d, c[i]).data < Rec(d, c[j]).data
  BY <1>7, <1>10, <1>11
<1>15. ASSUME NEW q \in linked, p # Nil, Rec(d, p).data <= Rec(d, q).data
       PROVE  \E i \in 1..Len(c) : c[i] = q
  BY <1>10, <1>12, <1>13, <1>15, PathComplete
<1> QED BY <1>10, <1>12, <1>13, <1>14, <1>15 DEF c

\* The overflow records of p come next after it, and then a record of the index
\* file, or none.
LEMMA OverflowIs ==
  ASSUME NEW d \in Disk, NEW linked, linked \subseteq Nodes(d), Ordered(d, linked),
         NEW p \in linked \union {Header}
  PROVE  LET over == Overflow(d, p)
             end == IF over = <<>> THEN NextOf(d, p) ELSE Rec(d, over[Len(over)]).next
         IN  /\ over \in Seq(linked \intersect AuxNodes(d)) /\ Len(over) \in Nat
             /\ over # <<>> => over[1] = NextOf(d, p)
             /\ \A i \in 1..Len(over) - 1 : over[i + 1] = Rec(d, over[i]).next
             /\ \A i \in 1..Len(over) : Precedes(d, p, over[i])
             /\ \A i, j \in 1..Len(over) : i < j => Rec(d, over[i]).data < Rec(d, over[j]).data
             /\ end \in (linked \intersect IndexNodes(d)) \union {Nil}
             /\ \A q \in linked : Precedes(d, p, q) =>
                  \/ \E i \in 1..Len(over) : over[i] = q
                  \/ end # Nil /\ Rec(d, end).data <= Rec(d, q).data
<1> DEFINE size == Len(d.aux)
           S == linked \intersect AuxNodes(d)
           rank == [q \in linked |-> Rec(d, q).data]
           over == Overflow(d, p)
           next == Successor(d)
           first == NextOf(d, p)
           end == IF over = <<>> THEN first ELSE Rec(d, over[Len(over)]).next
<1>1. \A q \in linked : /\ q \in Pointer /\ q # Nil /\ q # Header /\ Rec(d, q).data \in Int
                        /\ NextOf(d, q) = Rec(d, q).next
  BY NodeTyped
<1>2. IsFiniteSet(S) /\ Cardinality(S) <= size /\ size \in Nat
  <2>1. IsFiniteSet(AuxNodes(d)) /\ Cardinality(AuxNodes(d)) <= size /\ size \in Nat
    <3>1. size \in Nat
      BY DiskTyped
    <3> QED BY <3>1, NodesFinite
  <2>2. IsFiniteSet(S) /\ Cardinality(S) <= Cardinality(AuxNodes(d))
    BY <2>1, FS_Subset
  <2>3. Cardinality(S) \in Nat /\ Cardinality(AuxNodes(d)) \in Nat
    BY <2>1, <2>2, FS_CardinalityType
  <2> HIDE DEF size, S
  <2> QED BY <2>1, <2>2, <2>3
<1>3. /\ InIndexFile \subseteq Pointer /\ Nil \in InIndexFile /\ Nil # Header
      /\ \A q \in AuxNodes(d) : q \notin InIndexFile
      /\ \A q \in IndexNodes(d) : q \in InIndexFile
  BY DiskTyped DEF Nil, InIndex, InAux, Pointer, InIndexFile, AuxNodes, IndexNodes, Header
<1>4. DOMAIN next = Pointer /\ \A q \in Pointer : next[q] = Rec(d, q).next
  BY DEF Successor
<1>5. over = Follow(size, next, InIndexFile, first)
  BY DEF Overflow, Successor, InIndexFile
<1>6. \A q \in linked \union {Nil} : q \in S \union InIndexFile
  BY <1>3 DEF Nodes
<1>7. first \in linked \union {Nil} /\ first \in S \union InIndexFile
  <2>1. first \in linked \union {Nil}
    BY DEF Ordered
  <2> HIDE DEF first
  <2> QED BY <1>6, <2>1
<1>8. \A q \in S : /\ q \notin InIndexFile /\ next[q] \in S \union InIndexFile
                   /\ next[q] \in linked \union {Nil}
  <2>1. \A q \in S : next[q] \in linked \union {Nil}
    BY <1>1, <1>4 DEF Ordered
  <2> QED BY <1>3, <1>6, <2>1
<1>9. \A q \in linked : rank[q] = Rec(d, q).data /\ rank[q] \in Int
  BY <1>1
<1>10. \A q \in S : next[q] \in S => rank[q] < rank[next[q]]
  <2> SUFFICES ASSUME NEW q \in S, next[q] \in S
               PROVE  Rec(d, q).data < Rec(d, next[q]).data
    BY <1>9
  <2>1. next[q] = NextOf(d, q) /\ next[q] # Nil
    BY <1>1, <1>4
  <2>2. Precedes(d, q, NextOf(d, q))
    BY <2>1 DEF Ordered
  <2> QED BY <1>1, <2>1, <2>2 DEF Precedes
<1>11. S \union InIndexFile \subseteq DOMAIN next /\ \A q \in S : q \in linked /\ rank[q] \in Int
  BY <1>1, <1>3, <1>4, <1>9
<1> HIDE DEF size, rank, over, next, first, S
<1>12. /\ over \in Seq(S) /\ Len(over) \in Nat /\ IsPath(over, next, InIndexFile, first)
       /\ \A i, j \in 1..Len(over) : i < j => rank[over[i]] < rank[over[j]]
  BY <1>2, <1>5, <1>7, <1>8, <1>10, <1>11, FollowIsPath
<1>13. \A i \in 1..Len(over) : over[i] \in S /\ over[i] \in linked /\ over[i] \in Pointer
  BY <1>1, <1>11, <1>12
<1>14. /\ over = <<>> <=> first \in InIndexFile
       /\ \A i \in 1..Len(over) - 1 : over[i + 1] = Rec(d, over[i]).next
  <2>1. \A i \in 1..Len(over) - 1 : i \in 1..Len(over)
    BY <1>12
  <2> QED BY <1>4, <1>12, <1>13, <2>1 DEF IsPath
<1>15. over # <<>> => Len(over) \in 1..Len(over) /\ 1 \in 1..Len(over)
  BY <1>12
<1>16. over # <<>> => over[1] = first /\ Rec(d, over[Len(over)]).next \in InIndexFile
  BY <1>4, <1>12, <1>13, <1>15 DEF IsPath
<1>17. \A i, j \in 1..Len(over) : i < j => Rec(d, over[i]).data < Rec(d, over[j]).data
  BY <1>9, <1>12, <1>13
<1>18. ASSUME NEW i \in 1..Len(over)
       PROVE  Precedes(d, p, over[i])
  <2>1. over # <<>> /\ over[1] = first /\ over[1] \in linked /\ 1 \in 1..Len(over)
    BY <1>12, <1>13, <1>16
  <2>2. Precedes(d, p, over[1])
    <3>1. NextOf(d, p) = over[1] /\ over[1] # Nil
      BY <1>1, <2>1 DEF first
    <3> QED BY <3>1 DEF Ordered
  <2>3. CASE i = 1 \/ p = Header
    BY <2>2, <2>3 DEF Precedes
  <2>4. CASE i # 1 /\ p # Header
    <3>1. Rec(d, over[1]).data < Rec(d, over[i]).data
      BY <1>12, <1>17, <2>1, <2>4
    <3>2. Rec(d, p).data < Rec(d, over[1]).data
      BY <2>2, <2>4 DEF Precedes
    <3>3. /\ Rec(d, p).data \in Int /\ Rec(d, over[1]).data \in Int /\ Rec(d, over[i]).data \in Int
      BY <1>1, <1>13, <2>1, <2>4
    <3> QED BY <3>1, <3>2, <3>3 DEF Precedes
  <2> QED BY <2>3, <2>4
<1>19. end \in linked \union {Nil} /\ end \in InIndexFile
  <2>1. CASE over = <<>>
    BY <1>7, <1>14, <2>1
  <2>2. CASE over # <<>>
    <3>1. Rec(d, over[Len(over)]).next \in linked \union {Nil}
      BY <1>4, <1>8, <1>13, <1>15, <2>2
    <3> QED BY <1>16, <2>2, <3>1
  <2> QED BY <2>1, <2>2
<1>20. end \in (linked \intersect IndexNodes(d)) \union {Nil}
  <2> HIDE DEF end
  <2> QED BY <1>3, <1>19 DEF Nodes
<1>21. ASSUME NEW q \in linked, Precedes(d, p, q)
       PROVE  \/ \E i \in 1..Len(over) : over[i] = q
              \/ end # Nil /\ Rec(d, end).data <= Rec(d, q).data
  <2>1. first # Nil /\ Rec(d, first).data <= Rec(d, q).data
    BY <1>21 DEF Ordered, first
  <2>2. CASE over = <<>>
    BY <2>1, <2>2
  <2>3. CASE over # <<>>
    <3>1. over \in Seq(linked)
      BY <1>11, <1>12, SeqMonotonic
    <3>2. Rec(d, over[1]).data <= Rec(d, q).data
      BY <1>16, <2>1, <2>3
    <3> QED BY <1>14, <2>3, <3>1, <3>2, PathComplete
  <2> QED BY <2>2, <2>3
<1> QED BY <1>12, <1>14, <1>16, <1>17, <1>18, <1>20, <1>21 DEF over, end, first, S

-----------------------------------------------------------------------------
(* binarySearch.                                                            *)

FileSorted(d) == \A i, j \in 1..Len(d.index) : i < j => d.index[i].data < d.index[j].data

\* What one probe of a sorted file says of the key.
LEMMA ProbeSays ==
  ASSUME NEW n \in Nat \ {0}, NEW keys, keys \in Seq(Int), Len(keys) = n,
         NEW mid \in 0..n, NEW key \in Int, mid # n,
         NEW v, v = Verdict(keys, key, mid, key, key)
  PROVE  /\ v \in {"REC_CUR", "REC_NEXT", "REC_PREV", "RIGHT", "LEFT"}
         /\ v = "REC_CUR"  => keys[mid + 1] = key
         /\ v = "REC_PREV" => key < keys[mid + 1] /\ (mid > 0 => keys[mid] < key)
         /\ v = "REC_NEXT" => keys[mid + 1] < key /\ (mid + 1 < n => key < keys[mid + 2])
         /\ v = "RIGHT" => mid + 1 < n /\ keys[mid + 2] <= key
         /\ v = "LEFT"  => mid > 0 /\ key <= keys[mid]
<1> DEFINE prev == PrevKey(keys, mid, key)
           next == NextKey(keys, mid, key)
           here == KeyAt(keys, mid)
<1>1. \A i \in 1..n : keys[i] \in Int
  OBVIOUS
<1>2. here = keys[mid + 1] /\ here \in Int
  <2>1. mid + 1 \in 1..n
    OBVIOUS
  <2> QED BY <1>1, <2>1 DEF KeyAt
<1>3. prev \in Int /\ (mid > 0 => prev = keys[mid])
  <2>1. mid > 0 => mid \in 1..n /\ (mid - 1) + 1 = mid
    OBVIOUS
  <2> QED BY <1>1, <2>1 DEF PrevKey, KeyAt
<1>4. next \in Int /\ (mid + 1 < n => next = keys[mid + 2])
  <2>1. mid + 1 < n => mid + 2 \in 1..n /\ (mid + 1) + 1 = mid + 2
    OBVIOUS
  <2>2. mid < n - 1 <=> mid + 1 < n
    OBVIOUS
  <2> QED BY <1>1, <2>1, <2>2 DEF NextKey, KeyAt
<1>5. v = Compare(key, prev, here, next, mid = 0, mid = n - 1)
  BY DEF Verdict, IsLast
<1> HIDE DEF prev, next, here
<1>6. /\ v \in {"REC_CUR", "REC_NEXT", "REC_PREV", "RIGHT", "LEFT"}
      /\ v = "REC_CUR"  => here = key
      /\ v = "REC_PREV" => key < here /\ (mid # 0 => prev < key)
      /\ v = "REC_NEXT" => here < key /\ (mid # n - 1 => key < next)
      /\ v = "RIGHT" => mid # n - 1 /\ next <= key
      /\ v = "LEFT"  => mid # 0 /\ key <= prev
  BY <1>2, <1>3, <1>4, <1>5 DEF Compare
<1>7. (mid # 0 <=> mid > 0) /\ (mid # n - 1 <=> mid + 1 < n)
  OBVIOUS
<1> QED BY <1>2, <1>3, <1>4, <1>6, <1>7

\* The loop of BinarySearch, unfolded once.
Response(loc, at) == [location |-> loc, at |-> at, header |-> loc = "REC_PREV" /\ at = 1]
Keys(d) == [i \in 1..Len(d.index) |-> d.index[i].data]
Probe(d, key, left, right) == Verdict(Keys(d), key, (left + right) \div 2, key, key)
Searches(search, d, key) ==
  LET n == Len(d.index)
  IN  /\ n # 0 => BinarySearch(d, key) = search[0][n]
      /\ \A left \in 0..n + 1, right \in -1..n :
           LET mid == (left + right) \div 2
               v == Probe(d, key, left, right)
           IN  search[left][right] =
                 IF left > right         THEN Response("EMPTY_FILE", 0)
                 ELSE IF v \in Locations THEN Response(v, mid + 1)
                 ELSE IF v = "RIGHT"     THEN search[mid + 1][right]
                 ELSE search[left][mid - 1]

LEMMA SearchUnfolds ==
  ASSUME NEW d \in Disk, NEW key
  PROVE  \E search : Searches(search, d, key)
<1> DEFINE n == Len(d.index)
           Mid(left, right) == (left + right) \div 2
           Body(s, left, right) ==
             IF left > right                            THEN Response("EMPTY_FILE", 0)
             ELSE IF Probe(d, key, left, right) \in Locations
                  THEN Response(Probe(d, key, left, right), Mid(left, right) + 1)
             ELSE IF Probe(d, key, left, right) = "RIGHT" THEN s[Mid(left, right) + 1][right]
             ELSE s[left][Mid(left, right) - 1]
           Solves(s) == s = [left \in 0..n + 1 |-> [right \in -1..n |-> Body(s, left, right)]]
           search == CHOOSE s : Solves(s)
           S == {m \in Nat : \E s : \A left \in 0..n + 1, right \in -1..n :
                               right - left + n + 2 < m => s[left][right] = Body(s, left, right)}
<1>1. n \in Nat
  BY DiskTyped
<1>2. \A left \in 0..n + 1, right \in -1..n : ~ left > right =>
        /\ Mid(left, right) \in left..right
        /\ Mid(left, right) + 1 \in 0..n + 1 /\ Mid(left, right) - 1 \in -1..n
        /\ right - (Mid(left, right) + 1) < right - left
        /\ (Mid(left, right) - 1) - left < right - left
  <2> HIDE DEF n
  <2> QED BY <1>1
<1> HIDE DEF n
<1>3. 0 \in S
  BY <1>1
<1>4. ASSUME NEW m \in Nat, m \in S
      PROVE  m + 1 \in S
  <2>1. PICK s : \A left \in 0..n + 1, right \in -1..n :
                   right - left + n + 2 < m => s[left][right] = Body(s, left, right)
    BY <1>4
  <2> DEFINE t == [left \in 0..n + 1 |-> [right \in -1..n |->
                     IF right - left + n + 2 = m THEN Body(s, left, right) ELSE s[left][right]]]
  <2>2. \A left \in 0..n + 1, right \in -1..n :
          t[left][right] = IF right - left + n + 2 = m THEN Body(s, left, right) ELSE s[left][right]
    OBVIOUS
  <2> HIDE DEF t
  <2>3. ASSUME NEW left \in 0..n + 1, NEW right \in -1..n, right - left + n + 2 < m + 1
        PROVE  t[left][right] = Body(t, left, right)
    <3> DEFINE mid == Mid(left, right)
    <3>1. ASSUME ~ left > right
          PROVE  /\ t[mid + 1][right] = s[mid + 1][right]
                 /\ t[left][mid - 1] = s[left][mid - 1]
      <4>1. /\ mid \in left..right /\ mid + 1 \in 0..n + 1 /\ mid - 1 \in -1..n
            /\ right - (mid + 1) < right - left /\ (mid - 1) - left < right - left
        BY <1>2, <3>1
      <4> HIDE DEF mid
      <4>2. right - (mid + 1) + n + 2 # m /\ (mid - 1) - left + n + 2 # m
        BY <1>1, <2>3, <4>1
      <4> QED BY <2>2, <4>1, <4>2
    <3>2. Body(t, left, right) = Body(s, left, right)
      <4>1. CASE left > right
        BY <4>1
      <4>2. CASE ~ left > right
        BY <3>1, <4>2
      <4> QED BY <4>1, <4>2
    <3> HIDE DEF Body
    <3>3. CASE right - left + n + 2 = m
      BY <2>2, <3>2, <3>3
    <3>4. CASE right - left + n + 2 # m
      <4>1. right - left + n + 2 < m
        BY <1>1, <2>3, <3>4
      <4> QED BY <2>1, <2>2, <3>2, <3>4, <4>1
    <3> QED BY <3>3, <3>4
  <2> HIDE DEF Body
  <2> QED BY <2>3
<1>5. n + n + 3 \in S
  <2>1. n + n + 3 \in Nat
    BY <1>1
  <2> HIDE DEF S
  <2> QED BY <1>3, <1>4, <2>1, SetInduction
<1>6. \E s : Solves(s)
  <2>1. PICK s : \A left \in 0..n + 1, right \in -1..n :
                   right - left + n + 2 < n + n + 3 => s[left][right] = Body(s, left, right)
    BY <1>5
  <2>2. \A left \in 0..n + 1, right \in -1..n : s[left][right] = Body(s, left, right)
    <3> HIDE DEF Body
    <3>1. \A left \in 0..n + 1, right \in -1..n : right - left + n + 2 < n + n + 3
      BY <1>1
    <3> QED BY <2>1, <3>1
  <2> DEFINE t == [left \in 0..n + 1 |-> [right \in -1..n |-> s[left][right]]]
  <2>3. \A left \in 0..n + 1, right \in -1..n : t[left][right] = s[left][right]
    OBVIOUS
  <2>4. \A left \in 0..n + 1, right \in -1..n : s[left][right] = Body(t, left, right)
    <3> SUFFICES ASSUME NEW left \in 0..n + 1, NEW right \in -1..n
                 PROVE  Body(s, left, right) = Body(t, left, right)
      <4> HIDE DEF Body
      <4> QED BY <2>2
    <3> HIDE DEF t
    <3>1. CASE left > right
      BY <3>1
    <3>2. CASE ~ left > right
      BY <1>2, <2>3, <3>2
    <3> QED BY <3>1, <3>2
  <2>5. t = [left \in 0..n + 1 |-> [right \in -1..n |-> Body(t, left, right)]]
    <3>1. ASSUME NEW left \in 0..n + 1
          PROVE  [right \in -1..n |-> s[left][right]] = [right \in -1..n |-> Body(t, left, right)]
      <4> HIDE DEF Body, t
      <4> QED BY <2>4
    <3> HIDE DEF Body
    <3> DEFINE Row(left) == [right \in -1..n |-> Body(t, left, right)]
    <3>2. \A left \in 0..n + 1 : [right \in -1..n |-> s[left][right]] = Row(left)
      BY <3>1
    <3>3. t = [left \in 0..n + 1 |-> [right \in -1..n |-> s[left][right]]]
      OBVIOUS
    <3> HIDE DEF Row, t
    <3>4. t = [left \in 0..n + 1 |-> Row(left)]
      BY <3>2, <3>3
    <3> QED BY <3>4 DEF Row
  <2> HIDE DEF t, Body
  <2> QED BY <2>5
<1>7. Solves(search)
  <2> HIDE DEF Solves
  <2> QED BY <1>6
<1>8. n # 0 => BinarySearch(d, key) = search[0][n]
  BY DEF BinarySearch, n, Response, Probe, Keys
<1> HIDE DEF search
<1>9. ASSUME NEW left \in 0..n + 1, NEW right \in -1..n
      PROVE  search[left][right] = Body(search, left, right)
  <2> HIDE DEF Body
  <2>1. search[left] = [r \in -1..n |-> Body(search, left, r)]
    BY <1>7
  <2> QED BY <2>1
<1>10. Searches(search, d, key)
  BY <1>8, <1>9 DEF Searches, n
<1> QED BY <1>10

\* Where a key that is not in the index file belongs: behind the i-th record of it,
\* or behind the header.
At(i) == IF i = 0 THEN Header ELSE InIndex(i)
InGap(d, i, key) == /\ i \in 0..Len(d.index)
                    /\ i # 0 => d.index[i].data < key
                    /\ i # Len(d.index) => key < d.index[i + 1].data

\* What binarySearch is to answer.
Finds(d, key, b) ==
  \E at \in 1..Len(d.index) :
    \/ b = Response("REC_CUR", at) /\ d.index[at].data = key
    \/ b = Response("REC_PREV", at) /\ InGap(d, at - 1, key)
    \/ b = Response("REC_NEXT", at) /\ InGap(d, at, key)

LEMMA BinarySearchIs ==
  ASSUME NEW d \in Disk, FileSorted(d), NEW key \in Int
  PROVE  IF Len(d.index) = 0 THEN BinarySearch(d, key) = Response("EMPTY_FILE", 0)
         ELSE Finds(d, key, BinarySearch(d, key))
<1>1. CASE Len(d.index) = 0
  BY <1>1 DEF BinarySearch, Response
<1>2. CASE Len(d.index) # 0
  <2> DEFINE n == Len(d.index)
             keys == Keys(d)
  <2>1. PICK search : Searches(search, d, key)
    BY SearchUnfolds
  <2>2. n \in Nat \ {0} /\ keys \in Seq(Int) /\ Len(keys) = n
        /\ \A i \in 1..n : keys[i] = d.index[i].data /\ keys[i] \in Int
    <3>1. n \in Nat /\ \A i \in 1..n : d.index[i].data \in Int
      <4>1. d.index \in Seq(Entry) /\ n \in Nat
        BY DiskTyped
      <4>2. \A i \in 1..n : d.index[i] \in Entry
        BY <4>1
      <4> QED BY <4>1, <4>2 DEF Entry
    <3> QED BY <1>2, <3>1 DEF Keys
  <2>3. \A i, j \in 1..n : i < j => keys[i] < keys[j]
    BY <2>2 DEF FileSorted
  <2>4. /\ BinarySearch(d, key) = search[0][n]
        /\ \A left \in 0..n + 1, right \in -1..n :
             search[left][right] =
                 IF left > right THEN Response("EMPTY_FILE", 0)
                 ELSE IF Probe(d, key, left, right) \in Locations
                      THEN Response(Probe(d, key, left, right), ((left + right) \div 2) + 1)
                 ELSE IF Probe(d, key, left, right) = "RIGHT"
                      THEN search[((left + right) \div 2) + 1][right]
                 ELSE search[left][((left + right) \div 2) - 1]
    BY <1>2, <2>1 DEF Searches
  <2> HIDE DEF n, keys
  <2> DEFINE InRange(left, right) ==
               /\ left \in 0..n - 1 /\ right \in 0..n /\ left <= right
               /\ left > 0 => keys[left + 1] <= key
               /\ right < n => key <= keys[right + 1]
             T == {m \in Nat : \A left, right \in Nat :
                     InRange(left, right) /\ right - left < m => Finds(d, key, search[left][right])}
  <2>5. 0 \in T
    <3>1. \A left, right \in Nat : left <= right => ~ (right - left < 0)
      OBVIOUS
    <3>2. \A left, right \in Nat : InRange(left, right) => left <= right
      OBVIOUS
    <3> HIDE DEF InRange
    <3> QED BY <3>1, <3>2
  <2>6. ASSUME NEW m \in Nat, m \in T
        PROVE  m + 1 \in T
    <3> SUFFICES ASSUME NEW left \in Nat, NEW right \in Nat,
                        InRange(left, right), right - left < m + 1
                 PROVE  Finds(d, key, search[left][right])
      OBVIOUS
    <3> DEFINE mid == (left + right) \div 2
               v == Probe(d, key, left, right)
    <3>1. mid \in left..right /\ mid \in 0..n - 1
      BY <2>2
    <3>2. v = Verdict(keys, key, mid, key, key)
      BY DEF Probe, keys
    <3>3. left \in 0..n + 1 /\ right \in -1..n /\ ~ left > right
      BY <2>2
    <3>4. search[left][right] = IF v \in Locations THEN Response(v, mid + 1)
                                ELSE IF v = "RIGHT" THEN search[mid + 1][right]
                                ELSE search[left][mid - 1]
      BY <2>4, <3>3
    <3> HIDE DEF mid, v
    <3>5. /\ v \in {"REC_CUR", "REC_NEXT", "REC_PREV", "RIGHT", "LEFT"}
          /\ v = "REC_CUR"  => keys[mid + 1] = key
          /\ v = "REC_PREV" => key < keys[mid + 1] /\ (mid > 0 => keys[mid] < key)
          /\ v = "REC_NEXT" => keys[mid + 1] < key /\ (mid + 1 < n => key < keys[mid + 2])
          /\ v = "RIGHT" => mid + 1 < n /\ keys[mid + 2] <= key
          /\ v = "LEFT"  => mid > 0 /\ key <= keys[mid]
      <4>1. mid \in 0..n /\ mid # n
        BY <2>2, <3>1
      <4>2. keys \in Seq(Int) /\ Len(keys) = n /\ n \in Nat \ {0}
        BY <2>2
      <4> QED BY <3>2, <4>1, <4>2, ProbeSays
    <3>6. mid + 1 \in 1..n /\ (mid + 1) - 1 = mid /\ mid \in Nat
      BY <2>2, <3>1
    <3>7. CASE v = "REC_CUR"
      <4>1. search[left][right] = Response("REC_CUR", mid + 1) /\ d.index[mid + 1].data = key
        BY <2>2, <3>4, <3>5, <3>6, <3>7 DEF Locations
      <4> QED BY <3>6, <4>1 DEF Finds, n
    <3>8. CASE v = "REC_PREV"
      <4>1. search[left][right] = Response("REC_PREV", mid + 1)
        BY <3>4, <3>8 DEF Locations
      <4>2. InGap(d, mid, key)
        <5>1. /\ mid \in 0..n /\ key < d.index[mid + 1].data
              /\ mid # 0 => d.index[mid].data < key
          <6>1. mid # 0 => mid \in 1..n /\ mid > 0
            BY <2>2, <3>1
          <6> QED BY <2>2, <3>1, <3>5, <3>6, <3>8, <6>1
        <5> QED BY <5>1 DEF InGap, n
      <4> QED BY <3>6, <4>1, <4>2 DEF Finds, n
    <3>9. CASE v = "REC_NEXT"
      <4>1. search[left][right] = Response("REC_NEXT", mid + 1)
        BY <3>4, <3>9 DEF Locations
      <4>2. InGap(d, mid + 1, key)
        <5>1. /\ mid + 1 \in 0..n /\ d.index[mid + 1].data < key
              /\ mid + 1 # n => key < d.index[(mid + 1) + 1].data
          <6>1. mid + 1 # n => mid + 2 \in 1..n /\ mid + 1 < n /\ (mid + 1) + 1 = mid + 2
            BY <2>2, <3>1
          <6> QED BY <2>2, <3>5, <3>6, <3>9, <6>1
        <5> QED BY <5>1 DEF InGap, n
      <4> QED BY <3>6, <4>1, <4>2 DEF Finds, n
    <3>10. CASE v = "RIGHT"
      <4>1. search[left][right] = search[mid + 1][right]
        BY <3>4, <3>10 DEF Locations
      <4>2. mid + 1 <= right
        <5> SUFFICES ASSUME mid = right
                     PROVE  FALSE
          BY <3>1
        <5>1. mid + 1 \in 1..n /\ mid + 2 \in 1..n /\ key <= keys[mid + 1] /\ keys[mid + 2] <= key
          BY <2>2, <3>1, <3>5, <3>10
        <5>2. keys[mid + 1] < keys[mid + 2]
          BY <2>3, <3>6, <5>1
        <5> QED BY <2>2, <5>1, <5>2
      <4>3. InRange(mid + 1, right) /\ right - (mid + 1) < m /\ mid + 1 \in Nat
        <5>1. (mid + 1) + 1 = mid + 2
          BY <3>6
        <5> QED BY <2>2, <3>1, <3>5, <3>10, <4>2, <5>1
      <4> QED BY <2>6, <4>1, <4>3
    <3>11. CASE v = "LEFT"
      <4>1. search[left][right] = search[left][mid - 1]
        BY <3>4, <3>11 DEF Locations
      <4>2. left # mid
        <5> SUFFICES ASSUME left = mid
                     PROVE  FALSE
          OBVIOUS
        <5>1. mid \in 1..n /\ mid + 1 \in 1..n /\ keys[mid + 1] <= key /\ key <= keys[mid]
          BY <2>2, <3>1, <3>5, <3>11
        <5>2. keys[mid] < keys[mid + 1]
          BY <2>3, <3>6, <5>1
        <5> QED BY <2>2, <5>1, <5>2
      <4>3. InRange(left, mid - 1) /\ (mid - 1) - left < m /\ mid - 1 \in Nat
        <5>1. mid > 0 /\ (mid - 1) + 1 = mid
          BY <3>5, <3>6, <3>11
        <5> QED BY <2>2, <3>1, <3>5, <3>11, <4>2, <5>1
      <4> QED BY <2>6, <4>1, <4>3
    <3> QED BY <3>5, <3>7, <3>8, <3>9, <3>10, <3>11
  <2>7. n + 1 \in T
    <3>1. n + 1 \in Nat
      BY <2>2
    <3> HIDE DEF T
    <3> QED BY <2>5, <2>6, <3>1, SetInduction
  <2>8. InRange(0, n) /\ n - 0 < n + 1
    BY <2>2
  <2>9. Finds(d, key, search[0][n])
    <3>1. n \in Nat /\ 0 \in Nat
      BY <2>2
    <3> HIDE DEF InRange
    <3> QED BY <2>7, <2>8, <3>1
  <2> QED BY <1>2, <2>4, <2>9
<1> QED BY <1>1, <1>2

-----------------------------------------------------------------------------
(* What the calls keep.                                                     *)

\* The chains of duplicates end, and each record has one.
DupsLinked(d) ==
  /\ \E rank : \A i \in 1..Len(d.dups) :
       /\ rank[i] \in Int /\ d.dups[i].dup \in 0..Len(d.dups)
       /\ d.dups[i].dup # 0 => rank[i] < rank[d.dups[i].dup]
  /\ \A p \in Nodes(d) : Rec(d, p).dup \in 0..Len(d.dups)

\* `linked' are the records that remove has not taken out of the chain.
Linked(d, linked) ==
  /\ d \in Disk
  /\ linked \subseteq Nodes(d)
  /\ Ordered(d, linked)
  /\ \A p \in linked : Rec(d, p).data \in Key
  /\ DupsLinked(d)

Good(d) == /\ Linked(d, Nodes(d))
           /\ FileSorted(d)
           /\ d.index = <<>> => d.aux = <<>>

\* The record of the index file behind the i-th one.
Above(d, i) == IF i = Len(d.index) THEN Nil ELSE InIndex(i + 1)

\* The record the j-th overflow record of the i-th one comes after.
Pred(d, i, j) == IF j = 1 THEN At(i) ELSE Overflow(d, At(i))[j - 1]

LEMMA AtIsNode ==
  ASSUME NEW d \in Disk, NEW i \in 0..Len(d.index)
  PROVE  /\ At(i) \in Nodes(d) \union {Header}
         /\ i = 0 <=> At(i) = Header
         /\ i # 0 => /\ At(i) = InIndex(i) /\ At(i) \in IndexNodes(d) /\ i \in 1..Len(d.index)
                     /\ Rec(d, At(i)) = d.index[i]
         /\ i # Len(d.index) => /\ InIndex(i + 1) \in IndexNodes(d) /\ i + 1 \in 1..Len(d.index)
                                /\ InIndex(i + 1) \in Nodes(d)
                                /\ Rec(d, InIndex(i + 1)) = d.index[i + 1]
<1> DEFINE n == Len(d.index)
<1>1. n \in Nat /\ IndexNodes(d) = {InIndex(j) : j \in 1..n}
  BY DiskTyped DEF IndexNodes
<1>2. \A j \in 1..n : Rec(d, InIndex(j)) = d.index[j] /\ InIndex(j) # Header
  BY DEF InIndex, Rec, Header
<1> HIDE DEF n
<1>3. (i # 0 => i \in 1..n) /\ (i # n => i + 1 \in 1..n)
  BY <1>1 DEF n
<1> QED BY <1>1, <1>2, <1>3 DEF At, Nodes, n

LEMMA OverflowOfFile ==
  ASSUME NEW d, Good(d), NEW i \in 0..Len(d.index)
  PROVE  LET over == Overflow(d, At(i))
         IN  /\ over \in Seq(AuxNodes(d)) /\ Len(over) \in Nat
             /\ \A j \in 1..Len(over) : NextOf(d, Pred(d, i, j)) = over[j]
             /\ NextOf(d, Pred(d, i, Len(over) + 1)) = Above(d, i)
             /\ \A j, k \in 1..Len(over) : j < k => Rec(d, over[j]).data < Rec(d, over[k]).data
             /\ \A q \in Nodes(d) : q \in AuxNodes(d) /\ InGap(d, i, Rec(d, q).data)
                                      <=> \E j \in 1..Len(over) : over[j] = q
<1> DEFINE n == Len(d.index)
           p == At(i)
           over == Overflow(d, p)
           len == Len(over)
           end == IF over = <<>> THEN NextOf(d, p) ELSE Rec(d, over[Len(over)]).next
<1>1. d \in Disk /\ Ordered(d, Nodes(d)) /\ FileSorted(d) /\ n \in Nat /\ i \in 0..n
  BY DiskTyped DEF Good, Linked
<1>2. /\ p \in Nodes(d) \union {Header}
      /\ i = 0 <=> p = Header
      /\ i # 0 => p = InIndex(i) /\ i \in 1..n /\ Rec(d, p) = d.index[i]
      /\ i # n => InIndex(i + 1) \in IndexNodes(d) /\ i + 1 \in 1..n
                  /\ InIndex(i + 1) \in Nodes(d) /\ Rec(d, InIndex(i + 1)) = d.index[i + 1]
  BY <1>1, AtIsNode
<1>3. /\ over \in Seq(Nodes(d) \intersect AuxNodes(d)) /\ len \in Nat
      /\ over # <<>> => over[1] = NextOf(d, p)
      /\ \A j \in 1..len - 1 : over[j + 1] = Rec(d, over[j]).next
      /\ \A j \in 1..len : Precedes(d, p, over[j])
      /\ \A j, k \in 1..len : j < k => Rec(d, over[j]).data < Rec(d, over[k]).data
      /\ end \in (Nodes(d) \intersect IndexNodes(d)) \union {Nil}
      /\ \A q \in Nodes(d) : Precedes(d, p, q) =>
           \/ \E j \in 1..len : over[j] = q
           \/ end # Nil /\ Rec(d, end).data <= Rec(d, q).data
  BY <1>1, <1>2, OverflowIs
<1>4. /\ Nodes(d) \intersect AuxNodes(d) = AuxNodes(d)
      /\ Nodes(d) \intersect IndexNodes(d) = IndexNodes(d)
      /\ \A q \in IndexNodes(d) : q \in Nodes(d) /\ q \notin AuxNodes(d) /\ q # Nil
                                  /\ \E j \in 1..n : q = InIndex(j) /\ Rec(d, q) = d.index[j]
  BY <1>1 DEF Nodes, AuxNodes, IndexNodes, InIndex, InAux, Nil, Rec
<1>5. \A j \in 1..len : over[j] \in AuxNodes(d) /\ over[j] \in Nodes(d)
  BY <1>3
<1>6. \A q \in Nodes(d) : Rec(d, q).data \in Int /\ NextOf(d, q) = Rec(d, q).next /\ q # Header
  BY <1>1, NodeTyped
<1>7. (over = <<>> <=> len = 0) /\ (len # 0 => len \in 1..len /\ 1 \in 1..len)
  BY <1>3
<1> HIDE DEF n, p, over, len, end
<1>8. \A j, k \in 1..n : j < k => d.index[j].data < d.index[k].data
  BY <1>1 DEF FileSorted, n
<1>9. \A j \in 1..n : d.index[j].data \in Int
  <2> SUFFICES ASSUME NEW j \in 1..n
               PROVE  d.index[j].data \in Int
    OBVIOUS
  <2>1. InIndex(j) \in Nodes(d) /\ Rec(d, InIndex(j)) = d.index[j]
    BY <1>4 DEF IndexNodes, n, InIndex, Rec, Nodes
  <2> QED BY <1>6, <2>1
<1>10. end # Nil => Precedes(d, p, end) /\ (len # 0 => Rec(d, over[len]).data < Rec(d, end).data)
  <2> SUFFICES ASSUME end # Nil
               PROVE  Precedes(d, p, end) /\ (len # 0 => Rec(d, over[len]).data < Rec(d, end).data)
    OBVIOUS
  <2>1. end \in Nodes(d)
    BY <1>3, <1>4
  <2>2. CASE len = 0
    <3>1. end = NextOf(d, p)
      BY <1>7, <2>2 DEF end
    <3> QED BY <1>1, <1>2, <2>2, <3>1 DEF Ordered
  <2>3. CASE len # 0
    <3>1. over[len] \in Nodes(d) /\ end = NextOf(d, over[len])
      BY <1>5, <1>6, <1>7, <2>3 DEF end, len
    <3>2. Precedes(d, over[len], end) /\ over[len] # Header
      BY <1>1, <1>6, <2>1, <3>1 DEF Ordered
    <3>3. Rec(d, over[len]).data < Rec(d, end).data /\ Precedes(d, p, over[len])
      BY <1>3, <1>7, <2>3, <3>2 DEF Precedes
    <3>4. p # Header => p \in Nodes(d)
      BY <1>2
    <3> QED BY <1>6, <2>1, <3>1, <3>3, <3>4 DEF Precedes
  <2> QED BY <2>2, <2>3
<1>11. end = Above(d, i)
  <2>1. end # Nil => \E j \in 1..n : end = InIndex(j) /\ Rec(d, end) = d.index[j] /\ j > i
    <3> SUFFICES ASSUME end # Nil
                 PROVE  \E j \in 1..n : end = InIndex(j) /\ Rec(d, end) = d.index[j] /\ j > i
      OBVIOUS
    <3>1. PICK j \in 1..n : end = InIndex(j) /\ Rec(d, end) = d.index[j]
      BY <1>3, <1>4
    <3>2. CASE i = 0
      BY <3>1, <3>2
    <3>3. CASE i # 0
      <4>1. i \in 1..n /\ d.index[i].data < d.index[j].data
        BY <1>2, <1>10, <3>1, <3>3 DEF Precedes
      <4>2. ~ (j < i) /\ j # i
        BY <1>8, <1>9, <4>1
      <4> QED BY <1>1, <3>1, <4>1, <4>2
    <3> QED BY <3>2, <3>3
  <2>2. CASE i = n
    BY <1>1, <2>1, <2>2 DEF Above, n
  <2>3. CASE i # n
    <3> DEFINE q == InIndex(i + 1)
    <3>1. q \in IndexNodes(d) /\ q \in Nodes(d) /\ i + 1 \in 1..n /\ Rec(d, q) = d.index[i + 1]
      BY <1>2, <2>3
    <3>2. Precedes(d, p, q)
      BY <1>1, <1>2, <1>8, <3>1 DEF Precedes
    <3>3. end # Nil /\ Rec(d, end).data <= Rec(d, q).data
      BY <1>3, <1>4, <1>5, <3>1, <3>2
    <3>4. PICK j \in 1..n : end = InIndex(j) /\ Rec(d, end) = d.index[j] /\ j > i
      BY <2>1, <3>3
    <3> HIDE DEF q
    <3>5. ~ (i + 1 < j)
      BY <1>8, <1>9, <3>1, <3>3, <3>4
    <3>6. j = i + 1
      BY <1>1, <3>4, <3>5
    <3> QED BY <2>3, <3>4, <3>6 DEF Above, n
  <2> QED BY <2>2, <2>3
<1>12. ASSUME NEW j \in 1..len
       PROVE  NextOf(d, Pred(d, i, j)) = over[j]
  <2>1. CASE j = 1
    BY <1>3, <1>7, <2>1 DEF Pred, p
  <2>2. CASE j # 1
    <3>1. j - 1 \in 1..len - 1 /\ j - 1 \in 1..len /\ (j - 1) + 1 = j
      BY <1>3, <2>2
    <3> QED BY <1>3, <1>5, <1>6, <2>2, <3>1 DEF Pred, over, p
  <2> QED BY <2>1, <2>2
<1>13. NextOf(d, Pred(d, i, len + 1)) = end
  <2>1. (len + 1 = 1 <=> len = 0) /\ (len + 1) - 1 = len
    BY <1>3
  <2> QED BY <1>5, <1>6, <1>7, <2>1 DEF Pred, p, end, over, len
<1>14. ASSUME NEW q \in AuxNodes(d), InGap(d, i, Rec(d, q).data)
       PROVE  \E j \in 1..len : over[j] = q
  <2>1. q \in Nodes(d)
    BY <1>4 DEF Nodes
  <2>2. /\ i # 0 => d.index[i].data < Rec(d, q).data
        /\ i # n => Rec(d, q).data < d.index[i + 1].data
    BY <1>14 DEF InGap, n
  <2>3. Precedes(d, p, q)
    BY <1>2, <2>2 DEF Precedes
  <2>4. ~ (end # Nil /\ Rec(d, end).data <= Rec(d, q).data)
    <3>1. end # Nil => i # n /\ end = InIndex(i + 1)
      BY <1>11 DEF Above, n
    <3> QED BY <1>2, <1>6, <1>9, <2>1, <2>2, <3>1
  <2> QED BY <1>3, <2>1, <2>3, <2>4
<1>15. ASSUME NEW j \in 1..len
       PROVE  InGap(d, i, Rec(d, over[j]).data)
  <2>1. i # 0 => d.index[i].data < Rec(d, over[j]).data
    BY <1>2, <1>3 DEF Precedes
  <2>2. ASSUME i # n
        PROVE  Rec(d, over[j]).data < d.index[i + 1].data
    <3>1. end = InIndex(i + 1) /\ end # Nil /\ Rec(d, end) = d.index[i + 1] /\ end \in Nodes(d)
      BY <1>2, <1>4, <1>11, <2>2 DEF Above, n
    <3>2. len # 0 /\ len \in 1..len /\ (j = len \/ j < len)
      BY <1>3, <1>7
    <3>3. Rec(d, over[len]).data < Rec(d, end).data
      BY <1>10, <3>1, <3>2
    <3>4. Rec(d, over[j]).data = Rec(d, over[len]).data \/ Rec(d, over[j]).data < Rec(d, over[len]).data
      BY <1>3, <3>2
    <3>5. /\ Rec(d, over[j]).data \in Int /\ Rec(d, over[len]).data \in Int
          /\ Rec(d, end).data \in Int
      BY <1>5, <1>6, <3>1, <3>2
    <3> QED BY <3>1, <3>3, <3>4, <3>5
  <2> QED BY <1>1, <2>1, <2>2 DEF InGap, n
<1>16. \A q \in Nodes(d) : q \in AuxNodes(d) /\ InGap(d, i, Rec(d, q).data)
                             <=> \E j \in 1..len : over[j] = q
  BY <1>5, <1>14, <1>15
<1> QED BY <1>3, <1>4, <1>11, <1>12, <1>13, <1>16 DEF len, over, p

-----------------------------------------------------------------------------
(* Chains of duplicates.                                                    *)

DupNext(d) == [i \in Nat |-> d.dups[i].dup]
DupPath(d, i) == Follow(Len(d.dups), DupNext(d), {0}, i)

LEMMA DupPathIs ==
  ASSUME NEW d \in Disk, DupsLinked(d), NEW i \in 0..Len(d.dups)
  PROVE  /\ DupPath(d, i) \in Seq(1..Len(d.dups)) /\ Len(DupPath(d, i)) \in Nat
         /\ IsPath(DupPath(d, i), DupNext(d), {0}, i)
<1> DEFINE n == Len(d.dups)
           S == 1..n
           next == DupNext(d)
<1>1. n \in Nat
  BY DiskTyped
<1>2. PICK rank : \A j \in 1..n : /\ rank[j] \in Int /\ d.dups[j].dup \in 0..n
                                  /\ d.dups[j].dup # 0 => rank[j] < rank[d.dups[j].dup]
  BY DEF DupsLinked
<1>3. DOMAIN next = Nat /\ \A j \in Nat : next[j] = d.dups[j].dup
  BY DEF DupNext
<1> HIDE DEF n, next
<1>4. IsFiniteSet(S) /\ Cardinality(S) <= n
  <2>1. IsFiniteSet(1..n) /\ Cardinality(1..n) = n
    BY <1>1, FS_Interval
  <2> QED BY <1>1, <2>1
<1>5. /\ S \union {0} \subseteq DOMAIN next
      /\ \A s \in S : s \notin {0} /\ next[s] \in S \union {0}
      /\ \A s \in S : rank[s] \in Int
      /\ \A s \in S : next[s] \in S => rank[s] < rank[next[s]]
      /\ i \in S \union {0}
  <2>1. i \in 0..n /\ 0..n = S \union {0} /\ S \union {0} \subseteq Nat /\ 0 \notin S
    BY <1>1 DEF n
  <2> HIDE DEF S
  <2>2. S \union {0} \subseteq DOMAIN next /\ i \in S \union {0}
    BY <1>3, <2>1
  <2>3. \A s \in S : /\ rank[s] \in Int /\ next[s] = d.dups[s].dup /\ next[s] \in S \union {0}
                     /\ next[s] # 0 => rank[s] < rank[next[s]]
    <3> SUFFICES ASSUME NEW s \in S
                 PROVE  /\ rank[s] \in Int /\ next[s] = d.dups[s].dup
                        /\ next[s] \in S \union {0}
                        /\ next[s] # 0 => rank[s] < rank[next[s]]
      OBVIOUS
    <3>1. s \in 1..n /\ next[s] = d.dups[s].dup
      BY <1>3, <2>1 DEF S
    <3> QED BY <1>2, <2>1, <3>1
  <2>4. \A s \in S : s \notin {0} /\ (next[s] \in S => next[s] # 0)
    BY <2>1
  <2> QED BY ONLY <2>2, <2>3, <2>4
<1> HIDE DEF S
<1>6. LET c == Follow(n, next, {0}, i)
      IN  c \in Seq(S) /\ Len(c) \in Nat /\ IsPath(c, next, {0}, i)
  BY <1>1, <1>4, <1>5, FollowIsPath
<1> QED BY <1>6 DEF DupPath, S, n, next

\* The first duplicate, and then those of the next.
LEMMA DuplicatesAre ==
  ASSUME NEW d \in Disk, DupsLinked(d), NEW i \in 0..Len(d.dups)
  PROVE  /\ Duplicates(d, i) \in Seq(Position) /\ Len(Duplicates(d, i)) \in Nat
         /\ Duplicates(d, i) = <<>> <=> i = 0
         /\ i # 0 => /\ d.dups[i].dup \in 0..Len(d.dups)
                     /\ ToSet(Duplicates(d, i)) =
                          {d.dups[i].raw} \union ToSet(Duplicates(d, d.dups[i].dup))
<1> DEFINE n == Len(d.dups)
           next == DupNext(d)
           path(j) == DupPath(d, j)
<1>1. n \in Nat /\ \A j \in 1..n : d.dups[j].raw \in Position /\ d.dups[j].dup \in 0..n
  <2>1. n \in Nat /\ d.dups \in Seq([raw : Position, dup : Nat])
    BY DiskTyped
  <2>2. \A j \in 1..n : d.dups[j].dup \in 0..n
    BY DEF DupsLinked
  <2>3. \A j \in 1..n : d.dups[j] \in [raw : Position, dup : Nat]
    BY <2>1, ElementOfSeq
  <2> QED BY <2>1, <2>2, <2>3
<1>2. \A j \in 0..n : path(j) \in Seq(1..n) /\ Len(path(j)) \in Nat /\ IsPath(path(j), next, {0}, j)
  BY DupPathIs
<1>3. \A j : Duplicates(d, j) = [k \in DOMAIN path(j) |-> d.dups[path(j)[k]].raw]
  BY DEF Duplicates, DupPath, DupNext
<1> HIDE DEF path, n
<1>4. ASSUME NEW j \in 0..n
      PROVE  /\ Duplicates(d, j) \in Seq(Position) /\ Len(Duplicates(d, j)) = Len(path(j))
             /\ Duplicates(d, j) = <<>> <=> path(j) = <<>>
             /\ ToSet(Duplicates(d, j)) = {d.dups[path(j)[k]].raw : k \in 1..Len(path(j))}
  <2>1. path(j) \in Seq(1..n) /\ DOMAIN path(j) = 1..Len(path(j)) /\ Len(path(j)) \in Nat
    BY <1>2
  <2>2. \A k \in 1..Len(path(j)) : d.dups[path(j)[k]].raw \in Position
    BY <1>1, <2>1
  <2>3. Duplicates(d, j) = [k \in 1..Len(path(j)) |-> d.dups[path(j)[k]].raw]
    BY <1>3, <2>1
  <2>4. Duplicates(d, j) \in Seq(Position) /\ Len(Duplicates(d, j)) = Len(path(j))
    BY <2>1, <2>2, <2>3
  <2>5. ToSet(Duplicates(d, j)) = {d.dups[path(j)[k]].raw : k \in 1..Len(path(j))}
    BY <2>3 DEF ToSet
  <2> QED BY <2>1, <2>4, <2>5
<1>5. i \in 0..n /\ (path(i) = <<>> <=> i = 0)
  BY <1>2 DEF IsPath, n
<1>6. ASSUME i # 0
      PROVE  ToSet(Duplicates(d, i)) = {d.dups[i].raw} \union ToSet(Duplicates(d, d.dups[i].dup))
  <2> DEFINE rest == path(d.dups[i].dup)
             c == <<i>> \o rest
  <2>1. i \in 1..n /\ d.dups[i].dup \in 0..n /\ next[i] = d.dups[i].dup
    BY <1>1, <1>5, <1>6 DEF DupNext
  <2>2. rest \in Seq(1..n) /\ Len(rest) \in Nat /\ IsPath(rest, next, {0}, next[i])
    BY <1>2, <2>1
  <2> HIDE DEF rest
  <2>3. /\ c \in Seq(1..n) /\ Len(c) = Len(rest) + 1 /\ c[1] = i /\ c # <<>>
        /\ \A k \in 1..Len(rest) : c[k + 1] = rest[k]
    BY <2>1, <2>2
  <2>4. IsPath(c, next, {0}, i)
    <3> HIDE DEF c
    <3>1. (rest = <<>> <=> Len(rest) = 0)
      BY <2>2
    <3>2. next[c[Len(c)]] \in {0}
      <4>1. CASE Len(rest) = 0
        BY <2>2, <2>3, <3>1, <4>1 DEF IsPath
      <4>2. CASE Len(rest) # 0
        <5>1. Len(rest) \in 1..Len(rest)
          BY <2>2, <4>2
        <5>2. c[Len(c)] = rest[Len(rest)]
          BY <2>3, <5>1
        <5> QED BY <2>2, <3>1, <4>2, <5>2 DEF IsPath
      <4> QED BY <4>1, <4>2
    <3>3. \A k \in 1..Len(c) : c[k] \notin {0}
      <4>1. \A k \in 1..Len(c) : c[k] \in 1..n
        BY <2>3, ElementOfSeq
      <4> QED BY <1>1, <4>1
    <3>4. ASSUME NEW k \in 1..Len(c) - 1
          PROVE  c[k + 1] = next[c[k]]
      <4>1. k \in 1..Len(rest) /\ c[k + 1] = rest[k]
        BY <2>2, <2>3
      <4>2. CASE k = 1
        BY <2>2, <2>3, <3>1, <4>1, <4>2 DEF IsPath
      <4>3. CASE k # 1
        <5>1. k - 1 \in 1..Len(rest) - 1 /\ k - 1 \in 1..Len(rest) /\ (k - 1) + 1 = k
          BY <2>2, <4>1, <4>3
        <5> QED BY <2>2, <2>3, <4>1, <5>1 DEF IsPath
      <4> QED BY <4>2, <4>3
    <3> QED BY <1>6, <2>3, <3>2, <3>3, <3>4 DEF IsPath
  <2>5. path(i) = c
    <3>1. i \in 0..n
      BY <1>5
    <3> HIDE DEF c
    <3>2. path(i) \in Seq(1..n) /\ IsPath(path(i), next, {0}, i)
      BY <1>2, <3>1
    <3> QED BY <2>3, <2>4, <3>2, PathUnique
  <2> HIDE DEF c
  <2>6. ToSet(Duplicates(d, i)) = {d.dups[c[k]].raw : k \in 1..Len(c)}
    BY <1>4, <1>5, <2>5
  <2>7. ToSet(Duplicates(d, d.dups[i].dup)) = {d.dups[rest[k]].raw : k \in 1..Len(rest)}
    BY <1>4, <2>1 DEF rest
  <2>8. \A k \in 1..Len(c) : k = 1 \/ (k - 1 \in 1..Len(rest) /\ c[k] = rest[k - 1])
    <3> SUFFICES ASSUME NEW k \in 1..Len(c), k # 1
                 PROVE  k - 1 \in 1..Len(rest) /\ c[k] = rest[k - 1]
      OBVIOUS
    <3>1. k - 1 \in 1..Len(rest) /\ (k - 1) + 1 = k
      BY <2>2, <2>3
    <3> QED BY <2>3, <3>1
  <2>9. \A k \in 1..Len(rest) : k + 1 \in 1..Len(c) /\ c[k + 1] = rest[k]
    BY <2>2, <2>3
  <2>10. 1 \in 1..Len(c) /\ c[1] = i
    BY <2>2, <2>3
  <2>11. \A x : (\E k \in 1..Len(c) : x = d.dups[c[k]].raw) <=>
              x = d.dups[i].raw \/ \E k \in 1..Len(rest) : x = d.dups[rest[k]].raw
    <3> TAKE x
    <3>1. ASSUME NEW k \in 1..Len(c), x = d.dups[c[k]].raw
          PROVE  x = d.dups[i].raw \/ \E l \in 1..Len(rest) : x = d.dups[rest[l]].raw
      <4>1. CASE k = 1
        BY <2>10, <3>1, <4>1
      <4>2. CASE k # 1
        BY <2>8, <3>1, <4>2
      <4> QED BY <4>1, <4>2
    <3>2. ASSUME x = d.dups[i].raw \/ \E l \in 1..Len(rest) : x = d.dups[rest[l]].raw
          PROVE  \E k \in 1..Len(c) : x = d.dups[c[k]].raw
      <4>1. CASE x = d.dups[i].raw
        BY <2>10, <4>1
      <4>2. ASSUME NEW l \in 1..Len(rest), x = d.dups[rest[l]].raw
            PROVE  \E k \in 1..Len(c) : x = d.dups[c[k]].raw
        BY <2>9, <4>2
      <4> QED BY <3>2, <4>1, <4>2
    <3> QED BY <3>1, <3>2
  <2> DEFINE A == ToSet(Duplicates(d, i))
             B == ToSet(Duplicates(d, d.dups[i].dup))
  <2>12. \A x : x \in A <=> \E k \in 1..Len(c) : x = d.dups[c[k]].raw
    BY <2>6
  <2>13. \A x : x \in B <=> \E k \in 1..Len(rest) : x = d.dups[rest[k]].raw
    BY <2>7
  <2> HIDE DEF A, B
  <2>14. A = {d.dups[i].raw} \union B
    BY <2>11, <2>12, <2>13
  <2> QED BY <2>14 DEF A, B
<1>7. Len(path(i)) \in Nat /\ (i # 0 => d.dups[i].dup \in 0..n)
  BY <1>1, <1>2, <1>5
<1> QED BY <1>4, <1>5, <1>6, <1>7 DEF n

\* Appending to the file of duplicates keeps the chains that are in it.
LEMMA DuplicatesKept ==
  ASSUME NEW d \in Disk, DupsLinked(d), NEW e \in Disk, DupsLinked(e),
         Len(d.dups) <= Len(e.dups), \A i \in 1..Len(d.dups) : e.dups[i] = d.dups[i],
         NEW i \in 0..Len(d.dups)
  PROVE  Duplicates(e, i) = Duplicates(d, i)
<1> DEFINE n == Len(d.dups)
           m == Len(e.dups)
           c == DupPath(d, i)
           f == DupPath(e, i)
<1>1. n \in Nat /\ m \in Nat /\ n <= m
  BY DiskTyped
<1>2. /\ c \in Seq(1..n) /\ Len(c) \in Nat /\ IsPath(c, DupNext(d), {0}, i)
      /\ f \in Seq(1..m) /\ Len(f) \in Nat /\ IsPath(f, DupNext(e), {0}, i)
  BY <1>1, DupPathIs
<1> HIDE DEF c, f
<1>3. \A j \in 1..Len(c) : c[j] \in 1..n /\ DupNext(e)[c[j]] = DupNext(d)[c[j]]
                           /\ e.dups[c[j]] = d.dups[c[j]]
  <2>1. \A j \in 1..Len(c) : c[j] \in 1..n
    BY <1>2
  <2>2. \A k \in 1..n : k \in Nat /\ e.dups[k] = d.dups[k]
    BY <1>1
  <2> QED BY <2>1, <2>2 DEF DupNext
<1> HIDE DEF n, m
<1>4. IsPath(c, DupNext(e), {0}, i)
  <2>1. c # <<>> => Len(c) \in 1..Len(c)
    BY <1>2
  <2>2. \A j \in 1..Len(c) - 1 : j \in 1..Len(c)
    BY <1>2
  <2> QED BY <1>2, <1>3, <2>1, <2>2 DEF IsPath
<1>5. c = f
  <2>1. c \in Seq(1..m)
    BY <1>1, <1>2, SeqMonotonic
  <2> QED BY <1>2, <1>4, <2>1, PathUnique
<1>6. /\ Duplicates(d, i) = [k \in DOMAIN c |-> d.dups[c[k]].raw]
      /\ Duplicates(e, i) = [k \in DOMAIN f |-> e.dups[f[k]].raw]
  BY DEF Duplicates, DupPath, DupNext, c, f
<1>7. DOMAIN c = 1..Len(c)
  BY <1>2
<1> QED BY <1>3, <1>5, <1>6, <1>7

-----------------------------------------------------------------------------
(* Linking and unlinking a record.                                          *)

\* A new record comes in between p and the next one.
Inserted(d, e, linked, p, new) ==
  /\ Ordered(d, linked) /\ p \in linked \union {Header}
  /\ Nil \notin linked /\ Header \notin linked
  /\ new \notin linked /\ new # Nil /\ new # Header
  /\ \A q \in linked : Rec(d, q).data \in Int /\ Rec(e, q).data = Rec(d, q).data
  /\ \A q \in linked \union {Header} : NextOf(e, q) = IF q = p THEN new ELSE NextOf(d, q)
  /\ NextOf(e, new) = NextOf(d, p) /\ Rec(e, new).data \in Int
  /\ p = Header \/ Rec(d, p).data < Rec(e, new).data
  /\ NextOf(d, p) = Nil \/ Rec(e, new).data < Rec(d, NextOf(d, p)).data

LEMMA OrderedInsert ==
  ASSUME NEW d, NEW e, NEW linked, NEW p, NEW new, Inserted(d, e, linked, p, new)
  PROVE  /\ Ordered(e, linked \union {new})
         /\ \A q \in linked : Rec(d, q).data # Rec(e, new).data
<1> USE DEF Inserted
<1> DEFINE key == Rec(e, new).data
           data(q) == Rec(d, q).data
           all == linked \union {new}
<1>1. Nil # Header
  BY DEF Nil, InIndex, Header
<1>2. /\ \A q, r \in linked : data(q) = data(r) => q = r
      /\ \A q \in linked \union {Header} : NextOf(d, q) \in linked \union {Nil}
      /\ \A q \in linked : NextOf(d, q) # Nil => data(q) < data(NextOf(d, q))
      /\ \A q, r \in linked : data(q) < data(r) => NextOf(d, q) # Nil /\ data(NextOf(d, q)) <= data(r)
      /\ \A r \in linked : NextOf(d, Header) # Nil /\ data(NextOf(d, Header)) <= data(r)
  BY DEF Ordered, Precedes
<1>3. /\ \A q \in linked : data(q) \in Int /\ Rec(e, q).data = data(q)
      /\ key \in Int
      /\ p = Header \/ data(p) < key
      /\ NextOf(d, p) = Nil \/ key < data(NextOf(d, p))
  OBVIOUS
<1> HIDE DEF key, data
<1>4. \A q \in linked : data(q) # key
  <2> SUFFICES ASSUME NEW q \in linked, data(q) = key
               PROVE  FALSE
    OBVIOUS
  <2>1. NextOf(d, p) # Nil /\ data(NextOf(d, p)) <= data(q) /\ NextOf(d, p) \in linked
    BY <1>2, <1>3
  <2> QED BY <1>3, <2>1
<1>5. ASSUME NEW q \in all, NEW r \in all, Rec(e, q).data = Rec(e, r).data
      PROVE  q = r
  BY <1>2, <1>3, <1>4, <1>5 DEF key
<1>6. ASSUME NEW q \in all \union {Header}
      PROVE  NextOf(e, q) \in all \union {Nil}
  BY <1>2
<1>7. ASSUME NEW q \in all \union {Header}, NextOf(e, q) # Nil
      PROVE  Precedes(e, q, NextOf(e, q))
  <2>1. CASE q = new
    BY <1>2, <1>3, <1>7, <2>1 DEF Precedes, key
  <2>2. CASE q = p
    BY <1>3, <2>2 DEF Precedes, key
  <2>3. CASE q \in linked /\ q # p
    BY <1>2, <1>3, <1>7, <2>3 DEF Precedes
  <2>4. CASE q = Header
    BY <2>4 DEF Precedes
  <2> QED BY <2>1, <2>2, <2>3, <2>4
<1>8. ASSUME NEW q \in all \union {Header}, NEW r \in all, Precedes(e, q, r)
      PROVE  NextOf(e, q) # Nil /\ Rec(e, NextOf(e, q)).data <= Rec(e, r).data
  <2>1. CASE q = new
    <3>1. key < Rec(e, r).data
      BY <1>8, <2>1 DEF Precedes, key
    <3>2. r \in linked /\ key < data(r)
      BY <1>3, <3>1 DEF key
    <3>3. NextOf(d, p) # Nil /\ data(NextOf(d, p)) <= data(r) /\ NextOf(d, p) \in linked
      BY <1>2, <1>3, <3>2
    <3> QED BY <1>3, <2>1, <3>2, <3>3
  <2>2. CASE q = p
    <3>1. NextOf(e, q) = new
      BY <2>2
    <3>2. CASE r = new
      BY <1>3, <3>1, <3>2 DEF key
    <3>3. CASE r \in linked
      <4>1. p = Header \/ data(p) < data(r)
        BY <1>3, <1>8, <2>2, <3>3 DEF Precedes
      <4>2. NextOf(d, p) # Nil /\ data(NextOf(d, p)) <= data(r) /\ NextOf(d, p) \in linked
        BY <1>2, <3>3, <4>1
      <4> QED BY <1>3, <3>1, <3>3, <4>2 DEF key
    <3> QED BY <3>2, <3>3
  <2>3. CASE q # new /\ q # p
    <3>1. q \in linked \union {Header} /\ NextOf(e, q) = NextOf(d, q)
      BY <2>3
    <3>2. CASE r \in linked
      <4>1. q = Header \/ data(q) < data(r)
        BY <1>3, <1>8, <3>1, <3>2 DEF Precedes
      <4> QED BY <1>2, <1>3, <3>1, <3>2, <4>1
    <3>3. CASE r = new
      <4>1. q = Header \/ data(q) < key
        BY <1>3, <1>8, <3>1, <3>3 DEF Precedes, key
      <4>2. CASE p = Header
        <5>1. q \in linked /\ data(q) < key
          BY <2>3, <3>1, <4>1, <4>2
        <5>2. NextOf(d, p) # Nil /\ data(NextOf(d, p)) <= data(q) /\ NextOf(d, p) \in linked
          BY <1>2, <4>2, <5>1
        <5>3. FALSE
          BY <1>3, <5>1, <5>2
        <5> QED BY <5>3
      <4>3. CASE p # Header
        <5>1. p \in linked /\ data(p) < key
          BY <1>3, <4>3
        <5>2. q = Header \/ data(q) < data(p)
          <6> SUFFICES ASSUME q # Header, ~ (data(q) < data(p))
                       PROVE  FALSE
            OBVIOUS
          <6>1. q \in linked /\ data(q) # data(p)
            BY <1>2, <2>3, <3>1, <5>1
          <6>2. data(p) < data(q)
            BY <1>3, <5>1, <6>1
          <6>3. NextOf(d, p) # Nil /\ data(NextOf(d, p)) <= data(q) /\ NextOf(d, p) \in linked
            BY <1>2, <5>1, <6>1, <6>2
          <6>4. data(q) < key
            BY <1>1, <4>1, <6>1
          <6> QED BY <1>3, <6>1, <6>3, <6>4
        <5>3. /\ NextOf(d, q) # Nil /\ data(NextOf(d, q)) <= data(p)
              /\ NextOf(d, q) \in linked
          BY <1>2, <3>1, <5>1, <5>2
        <5> QED BY <1>3, <3>1, <3>3, <5>1, <5>3 DEF key
      <4> QED BY <4>2, <4>3
    <3> QED BY <3>2, <3>3
  <2> QED BY <2>1, <2>2, <2>3
<1> HIDE DEF all
<1>9. Ordered(e, all)
  BY <1>5, <1>6, <1>7, <1>8 DEF Ordered
<1> QED BY <1>4, <1>9 DEF all, data, key

\* The record after p is taken out.
Unlinked(d, e, linked, p) ==
  /\ Ordered(d, linked) /\ p \in linked \union {Header} /\ NextOf(d, p) # Nil
  /\ Nil \notin linked /\ Header \notin linked
  /\ \A q \in linked : Rec(d, q).data \in Int /\ Rec(e, q).data = Rec(d, q).data
  /\ \A q \in linked \union {Header} :
       NextOf(e, q) = IF q = p THEN NextOf(d, NextOf(d, p)) ELSE NextOf(d, q)

LEMMA OrderedUnlink ==
  ASSUME NEW d, NEW e, NEW linked, NEW p, Unlinked(d, e, linked, p)
  PROVE  Ordered(e, linked \ {NextOf(d, p)})
<1> USE DEF Unlinked
<1> DEFINE out == NextOf(d, p)
           data(q) == Rec(d, q).data
           rest == linked \ {out}
<1>1. Nil # Header
  BY DEF Nil, InIndex, Header
<1>2. /\ \A q, r \in linked : data(q) = data(r) => q = r
      /\ \A q \in linked \union {Header} : NextOf(d, q) \in linked \union {Nil}
      /\ \A q \in linked : NextOf(d, q) # Nil => data(q) < data(NextOf(d, q))
      /\ \A q, r \in linked : data(q) < data(r) => NextOf(d, q) # Nil /\ data(NextOf(d, q)) <= data(r)
      /\ \A r \in linked : NextOf(d, Header) # Nil /\ data(NextOf(d, Header)) <= data(r)
  BY DEF Ordered, Precedes
<1>3. \A q \in linked : data(q) \in Int /\ Rec(e, q).data = data(q)
  OBVIOUS
<1>4. /\ out \in linked
      /\ \A q \in linked \union {Header} :
           NextOf(e, q) = IF q = p THEN NextOf(d, out) ELSE NextOf(d, q)
  BY <1>2
<1> HIDE DEF data, out
<1>5. p # Header => data(p) < data(out)
  BY <1>2 DEF out
<1>6. ASSUME NEW q \in linked \union {Header}, q # p
      PROVE  NextOf(d, q) # out
  <2> SUFFICES ASSUME NextOf(d, q) = out
               PROVE  FALSE
    OBVIOUS
  <2>1. NextOf(d, p) = out /\ out # Nil
    BY DEF out
  <2>2. CASE q = Header
    <3>1. p \in linked /\ data(out) <= data(p)
      BY <1>2, <1>6, <2>2
    <3> QED BY <1>3, <1>4, <1>5, <3>1
  <2>3. CASE p = Header
    <3>1. q \in linked /\ data(out) <= data(q) /\ data(q) < data(out)
      BY <1>2, <1>6, <2>1, <2>3
    <3> QED BY <1>3, <1>4, <3>1
  <2>4. CASE q # Header /\ p # Header
    <3>1. q \in linked /\ p \in linked /\ data(q) # data(p) /\ data(q) < data(out) /\ data(p) < data(out)
      BY <1>2, <1>5, <1>6, <2>1, <2>4
    <3>2. data(q) < data(p) \/ data(p) < data(q)
      BY <1>3, <3>1
    <3>3. data(out) <= data(p) \/ data(out) <= data(q)
      BY <1>2, <2>1, <3>1, <3>2
    <3> QED BY <1>3, <1>4, <3>1, <3>3
  <2> QED BY <2>2, <2>3, <2>4
<1>7. NextOf(d, out) # Nil => NextOf(d, out) \in linked /\ data(out) < data(NextOf(d, out))
  BY <1>2, <1>4
<1>8. NextOf(d, out) # out
  BY <1>3, <1>4, <1>7
<1>9. ASSUME NEW q \in rest \union {Header}
      PROVE  NextOf(e, q) \in rest \union {Nil}
  BY <1>2, <1>4, <1>6, <1>8
<1>10. ASSUME NEW q \in rest \union {Header}, NextOf(e, q) # Nil
       PROVE  Precedes(e, q, NextOf(e, q))
  <2>1. CASE q = Header
    BY <2>1 DEF Precedes
  <2>2. CASE q # Header /\ q = p
    <3>1. /\ NextOf(e, q) = NextOf(d, out) /\ NextOf(d, out) \in linked
          /\ data(q) < data(out) /\ data(out) < data(NextOf(d, out)) /\ q \in linked
      BY <1>4, <1>5, <1>7, <1>10, <2>2
    <3>2. data(q) < data(NextOf(d, out))
      BY <1>3, <1>4, <3>1
    <3> QED BY <1>3, <3>1, <3>2 DEF Precedes
  <2>3. CASE q # Header /\ q # p
    <3>1. q \in linked /\ NextOf(e, q) = NextOf(d, q) /\ NextOf(d, q) \in linked
      BY <1>2, <1>4, <1>10, <2>3
    <3> QED BY <1>2, <1>3, <1>10, <3>1 DEF Precedes
  <2> QED BY <2>1, <2>2, <2>3
<1>11. ASSUME NEW q \in rest \union {Header}, NEW r \in rest, Precedes(e, q, r)
       PROVE  NextOf(e, q) # Nil /\ Rec(e, NextOf(e, q)).data <= Rec(e, r).data
  <2>1. q \in linked \union {Header} /\ r \in linked /\ r # out /\ (q = Header \/ data(q) < data(r))
    BY <1>3, <1>11 DEF Precedes
  <2>2. NextOf(d, q) # Nil /\ data(NextOf(d, q)) <= data(r) /\ NextOf(d, q) \in linked
    BY <1>2, <2>1
  <2>3. CASE q # p
    BY <1>3, <1>4, <2>1, <2>2, <2>3
  <2>4. CASE q = p
    <3>1. data(out) <= data(r) /\ data(out) # data(r)
      BY <1>2, <1>4, <2>1, <2>2, <2>4 DEF out
    <3>2. data(out) < data(r)
      BY <1>3, <1>4, <2>1, <3>1
    <3>3. NextOf(d, out) # Nil /\ data(NextOf(d, out)) <= data(r) /\ NextOf(d, out) \in linked
      BY <1>2, <1>4, <2>1, <3>2
    <3> QED BY <1>3, <1>4, <2>1, <2>4, <3>3
  <2> QED BY <2>3, <2>4
<1>12. \A q, r \in rest : Rec(e, q).data = Rec(e, r).data => q = r
  BY <1>2, <1>3
<1> HIDE DEF rest
<1>13. Ordered(e, rest)
  BY <1>9, <1>10, <1>11, <1>12 DEF Ordered
<1> QED BY <1>13 DEF rest, out

-----------------------------------------------------------------------------
(* Writing the files.                                                       *)

LEMMA EntryWritten ==
  ASSUME NEW file \in Seq(Entry), NEW i \in 1..Len(file), NEW rec \in Entry
  PROVE  /\ [file EXCEPT ![i] = rec] \in Seq(Entry)
         /\ Len([file EXCEPT ![i] = rec]) = Len(file)
         /\ \A j \in 1..Len(file) : [file EXCEPT ![i] = rec][j] = IF j = i THEN rec ELSE file[j]
BY ExceptSeq

\* A write over one record of a file leaves the others alone.
LEMMA RecordWritten ==
  ASSUME NEW d \in Disk, NEW p \in Nodes(d), NEW rec \in Entry, NEW e,
         \/ p.file = "index" /\ e = [d EXCEPT !.index[p.pos] = rec]
         \/ p.file = "aux" /\ e = [d EXCEPT !.aux[p.pos] = rec]
  PROVE  /\ e \in Disk /\ e.hdr = d.hdr /\ e.dups = d.dups
         /\ Len(e.index) = Len(d.index) /\ Len(e.aux) = Len(d.aux)
         /\ IndexNodes(e) = IndexNodes(d) /\ AuxNodes(e) = AuxNodes(d) /\ Nodes(e) = Nodes(d)
         /\ \A x \in Nodes(d) : Rec(e, x) = IF x = p THEN rec ELSE Rec(d, x)
<1> DEFINE pos == p.pos
<1>1. /\ d.hdr \in Pointer /\ d.index \in Seq(Entry) /\ d.aux \in Seq(Entry)
      /\ d.dups \in Seq([raw : Position, dup : Nat])
      /\ d = [hdr |-> d.hdr, index |-> d.index, aux |-> d.aux, dups |-> d.dups]
  BY DiskTyped DEF Disk
<1>2. ASSUME NEW index \in Seq(Entry), NEW aux \in Seq(Entry)
      PROVE  [hdr |-> d.hdr, index |-> index, aux |-> aux, dups |-> d.dups] \in Disk
  BY <1>1 DEF Disk
<1>3. ASSUME NEW x \in Nodes(d)
      PROVE  /\ \/ x.file = "index" /\ x.pos \in 1..Len(d.index) /\ x = InIndex(x.pos)
                \/ x.file = "aux" /\ x.pos \in 1..Len(d.aux) /\ x = InAux(x.pos)
             /\ \A f : Rec(f, x) = IF x.file = "index" THEN f.index[x.pos] ELSE f.aux[x.pos]
  BY NodeTyped DEF Rec
<1>4. ASSUME e \in Disk, Len(e.index) = Len(d.index), Len(e.aux) = Len(d.aux)
      PROVE  IndexNodes(e) = IndexNodes(d) /\ AuxNodes(e) = AuxNodes(d) /\ Nodes(e) = Nodes(d)
  BY <1>4 DEF IndexNodes, AuxNodes, Nodes
<1>5. CASE p.file = "index"
  <2> DEFINE index == [d.index EXCEPT ![pos] = rec]
  <2>1. pos \in 1..Len(d.index) /\ p = InIndex(pos)
    BY <1>3, <1>5
  <2>2. /\ index \in Seq(Entry) /\ Len(index) = Len(d.index)
        /\ \A j \in 1..Len(d.index) : index[j] = IF j = pos THEN rec ELSE d.index[j]
    BY <1>1, <2>1, EntryWritten
  <2>3. e = [d EXCEPT !.index = index]
    BY <1>5
  <2> HIDE DEF index
  <2>4. e = [hdr |-> d.hdr, index |-> index, aux |-> d.aux, dups |-> d.dups]
    BY <1>1, <2>3
  <2>5. e \in Disk
    BY <1>1, <1>2, <2>2, <2>4
  <2>6. e.index = index /\ e.aux = d.aux /\ e.hdr = d.hdr /\ e.dups = d.dups
    BY <2>4
  <2>7. ASSUME NEW x \in Nodes(d)
        PROVE  Rec(e, x) = IF x = p THEN rec ELSE Rec(d, x)
    <3>1. CASE x.file = "index"
      <4>1. x.pos \in 1..Len(d.index) /\ x = InIndex(x.pos) /\ (x = p <=> x.pos = pos)
        BY <1>3, <2>1, <3>1
      <4> QED BY <1>3, <2>2, <2>6, <3>1, <4>1
    <3>2. CASE x.file = "aux"
      BY <1>3, <1>5, <2>6, <3>2
    <3> QED BY <1>3, <3>1, <3>2
  <2> QED BY <1>4, <2>2, <2>5, <2>6, <2>7
<1>6. CASE p.file = "aux"
  <2> DEFINE aux == [d.aux EXCEPT ![pos] = rec]
  <2>1. pos \in 1..Len(d.aux) /\ p = InAux(pos)
    BY <1>3, <1>6
  <2>2. /\ aux \in Seq(Entry) /\ Len(aux) = Len(d.aux)
        /\ \A j \in 1..Len(d.aux) : aux[j] = IF j = pos THEN rec ELSE d.aux[j]
    BY <1>1, <2>1, EntryWritten
  <2>3. e = [d EXCEPT !.aux = aux]
    BY <1>6
  <2> HIDE DEF aux
  <2>4. e = [hdr |-> d.hdr, index |-> d.index, aux |-> aux, dups |-> d.dups]
    BY <1>1, <2>3
  <2>5. e \in Disk
    BY <1>1, <1>2, <2>2, <2>4
  <2>6. e.aux = aux /\ e.index = d.index /\ e.hdr = d.hdr /\ e.dups = d.dups
    BY <2>4
  <2>7. ASSUME NEW x \in Nodes(d)
        PROVE  Rec(e, x) = IF x = p THEN rec ELSE Rec(d, x)
    <3>1. CASE x.file = "aux"
      <4>1. x.pos \in 1..Len(d.aux) /\ x = InAux(x.pos) /\ (x = p <=> x.pos = pos)
        BY <1>3, <2>1, <3>1
      <4> QED BY <1>3, <2>2, <2>6, <3>1, <4>1
    <3>2. CASE x.file = "index"
      BY <1>3, <1>6, <2>6, <3>2
    <3> QED BY <1>3, <3>1, <3>2
  <2> QED BY <1>4, <2>2, <2>5, <2>6, <2>7
<1> QED BY <1>5, <1>6

LEMMA SetNextFacts ==
  ASSUME NEW d \in Disk, NEW p \in Nodes(d) \union {Header}, NEW q \in Pointer
  PROVE  LET e == SetNext(d, p, q)
         IN  /\ e \in Disk /\ e.dups = d.dups
             /\ Len(e.index) = Len(d.index) /\ Len(e.aux) = Len(d.aux)
             /\ IndexNodes(e) = IndexNodes(d) /\ AuxNodes(e) = AuxNodes(d) /\ Nodes(e) = Nodes(d)
             /\ \A x \in Nodes(d) : /\ Rec(e, x).data = Rec(d, x).data
                                    /\ Rec(e, x).raw = Rec(d, x).raw
                                    /\ Rec(e, x).dup = Rec(d, x).dup
             /\ \A x \in Nodes(d) \union {Header} :
                  NextOf(e, x) = IF x = p THEN q ELSE NextOf(d, x)
<1> DEFINE e == SetNext(d, p, q)
<1>1. \A x \in Nodes(d) : x # Header /\ \A f : NextOf(f, x) = Rec(f, x).next
  BY NodeTyped DEF NextOf
<1>2. \A f : NextOf(f, Header) = f.hdr
  BY DEF NextOf
<1>3. CASE p = Header
  <2>1. e = [d EXCEPT !.hdr = q]
    BY <1>3 DEF SetNext, Header
  <2>2. /\ d.hdr \in Pointer /\ d.index \in Seq(Entry) /\ d.aux \in Seq(Entry)
        /\ d.dups \in Seq([raw : Position, dup : Nat])
        /\ d = [hdr |-> d.hdr, index |-> d.index, aux |-> d.aux, dups |-> d.dups]
    BY DiskTyped DEF Disk
  <2>3. e = [hdr |-> q, index |-> d.index, aux |-> d.aux, dups |-> d.dups]
    BY <2>1, <2>2
  <2>4. e \in Disk
    BY <2>2, <2>3 DEF Disk
  <2>5. e.index = d.index /\ e.aux = d.aux /\ e.hdr = q /\ e.dups = d.dups
    BY <2>3
  <2> HIDE DEF e
  <2>6. IndexNodes(e) = IndexNodes(d) /\ AuxNodes(e) = AuxNodes(d) /\ Nodes(e) = Nodes(d)
    BY <2>5 DEF IndexNodes, AuxNodes, Nodes
  <2>7. \A x \in Nodes(d) : Rec(e, x) = Rec(d, x)
    BY <2>5 DEF Rec
  <2> QED BY <1>1, <1>2, <1>3, <2>4, <2>5, <2>6, <2>7 DEF e
<1>4. CASE p # Header
  <2> DEFINE rec == [Rec(d, p) EXCEPT !.next = q]
  <2>1. /\ p \in Nodes(d) /\ Rec(d, p) \in Entry
        /\ \/ p.file = "index" /\ Rec(d, p) = d.index[p.pos]
           \/ p.file = "aux" /\ Rec(d, p) = d.aux[p.pos]
    BY <1>4, NodeTyped
  <2>2. rec \in Entry /\ rec.data = Rec(d, p).data /\ rec.raw = Rec(d, p).raw
        /\ rec.dup = Rec(d, p).dup /\ rec.next = q
    BY <2>1 DEF Entry
  <2>3. \/ p.file = "index" /\ e = [d EXCEPT !.index[p.pos] = rec]
        \/ p.file = "aux" /\ e = [d EXCEPT !.aux[p.pos] = rec]
    <3>1. CASE p.file = "index"
      <4>1. e = [d EXCEPT !.index[p.pos].next = q]
        BY <1>4, <3>1 DEF SetNext
      <4> QED BY <2>1, <3>1, <4>1
    <3>2. CASE p.file = "aux"
      <4>1. e = [d EXCEPT !.aux[p.pos].next = q]
        BY <1>4, <3>2 DEF SetNext
      <4> QED BY <2>1, <3>2, <4>1
    <3> QED BY <2>1, <3>1, <3>2
  <2> HIDE DEF rec, e
  <2>4. /\ e \in Disk /\ e.hdr = d.hdr /\ e.dups = d.dups
        /\ Len(e.index) = Len(d.index) /\ Len(e.aux) = Len(d.aux)
        /\ IndexNodes(e) = IndexNodes(d) /\ AuxNodes(e) = AuxNodes(d) /\ Nodes(e) = Nodes(d)
        /\ \A x \in Nodes(d) : Rec(e, x) = IF x = p THEN rec ELSE Rec(d, x)
    BY <2>1, <2>2, <2>3, RecordWritten
  <2> QED BY <1>1, <1>2, <1>4, <2>2, <2>4 DEF e
<1> QED BY <1>3, <1>4

\* A record at the end of the overflow file.
LEMMA OverflowAppended ==
  ASSUME NEW d \in Disk, NEW rec \in Entry
  PROVE  LET e == [d EXCEPT !.aux = Append(@, rec)]
             new == InAux(Len(e.aux))
         IN  /\ e \in Disk /\ e.hdr = d.hdr /\ e.index = d.index /\ e.dups = d.dups
             /\ Len(e.aux) = Len(d.aux) + 1
             /\ new \in Pointer /\ new # Nil /\ new # Header /\ new \notin Nodes(d)
             /\ Nodes(e) = Nodes(d) \union {new} /\ Rec(e, new) = rec
             /\ \A x \in Nodes(d) : Rec(e, x) = Rec(d, x)
             /\ \A x \in Nodes(d) \union {Header} : NextOf(e, x) = NextOf(d, x)
<1> DEFINE e == [d EXCEPT !.aux = Append(@, rec)]
           m == Len(d.aux)
           aux == Append(d.aux, rec)
           new == InAux(m + 1)
<1>1. /\ d.hdr \in Pointer /\ d.index \in Seq(Entry) /\ d.aux \in Seq(Entry)
      /\ d.dups \in Seq([raw : Position, dup : Nat])
      /\ d = [hdr |-> d.hdr, index |-> d.index, aux |-> d.aux, dups |-> d.dups] /\ m \in Nat
  BY DiskTyped DEF Disk
<1>2. e = [hdr |-> d.hdr, index |-> d.index, aux |-> aux, dups |-> d.dups]
  <2>1. e = [d EXCEPT !.aux = aux]
    OBVIOUS
  <2> HIDE DEF aux, e
  <2> QED BY <1>1, <2>1
<1>3. aux \in Seq(Entry) /\ Len(aux) = m + 1 /\ aux[m + 1] = rec /\ \A j \in 1..m : aux[j] = d.aux[j]
  <2>1. d.aux \in Seq(Entry)
    BY <1>1
  <2> QED BY <2>1, AppendProperties
<1> HIDE DEF aux
<1>4. e \in Disk
  BY <1>1, <1>2, <1>3 DEF Disk
<1>5. e.hdr = d.hdr /\ e.index = d.index /\ e.aux = aux /\ e.dups = d.dups
  BY <1>2
<1> HIDE DEF e, m
<1>6. new \in Pointer /\ new # Nil /\ new # Header /\ new.file = "aux" /\ new.pos = m + 1
  BY <1>1 DEF InAux, InIndex, Pointer, Nil, Header
<1>7. /\ IndexNodes(e) = IndexNodes(d) /\ AuxNodes(e) = {InAux(j) : j \in 1..m + 1}
      /\ AuxNodes(d) = {InAux(j) : j \in 1..m}
  BY <1>3, <1>5 DEF IndexNodes, AuxNodes, m
<1>8. Nodes(e) = Nodes(d) \union {new}
  <2>1. \A j : j \in 1..m + 1 <=> j \in 1..m \/ j = m + 1
    BY <1>1
  <2> QED BY <1>7, <2>1 DEF Nodes
<1>9. \A x \in Nodes(d) : \/ x.file = "index"
                          \/ x.file = "aux" /\ x.pos \in 1..m
  BY NodeTyped DEF m
<1>10. new \notin Nodes(d)
  BY <1>1, <1>6, <1>9
<1>11. Rec(e, new) = rec
  BY <1>3, <1>5, <1>6 DEF Rec
<1>12. \A x \in Nodes(d) : Rec(e, x) = Rec(d, x)
  <2> TAKE x \in Nodes(d)
  <2>1. CASE x.file = "index"
    BY <1>5, <2>1 DEF Rec
  <2>2. CASE x.file = "aux" /\ x.pos \in 1..m
    BY <1>3, <1>5, <2>2 DEF Rec
  <2> QED BY <1>9, <2>1, <2>2
<1>13. \A x \in Nodes(d) \union {Header} : NextOf(e, x) = NextOf(d, x)
  BY <1>5, <1>12 DEF NextOf
<1>14. Len(e.aux) = m + 1 /\ new = InAux(Len(e.aux))
  BY <1>3, <1>5
<1> QED BY <1>4, <1>5, <1>6, <1>8, <1>10, <1>11, <1>12, <1>13, <1>14 DEF e, m

-----------------------------------------------------------------------------
(* What the index holds for a key, in its linked records.                   *)

Content(d, linked, key) ==
  UNION {AllRaw(d, p) : p \in {q \in linked : Rec(d, q).data = key}}

\* e has what d has, but at `key' it has `raws'.
ContentSet(e, linkedE, d, linkedD, key, raws) ==
  \A k \in Int : Content(e, linkedE, k) = IF k = key THEN raws ELSE Content(d, linkedD, k)

LEMMA AllRawKept ==
  ASSUME NEW d \in Disk, DupsLinked(d), NEW e \in Disk, DupsLinked(e),
         Len(d.dups) <= Len(e.dups), \A i \in 1..Len(d.dups) : e.dups[i] = d.dups[i],
         NEW x \in Nodes(d), NEW y, Rec(e, y).raw = Rec(d, x).raw, Rec(e, y).dup = Rec(d, x).dup
  PROVE  AllRaw(e, y) = AllRaw(d, x)
<1>1. Rec(d, x).dup \in 0..Len(d.dups)
  BY DEF DupsLinked
<1>2. Duplicates(e, Rec(d, x).dup) = Duplicates(d, Rec(d, x).dup)
  BY <1>1, DuplicatesKept
<1> QED BY <1>2 DEF AllRaw

LEMMA FileSortedKept ==
  ASSUME NEW d \in Disk, FileSorted(d), NEW e, Len(e.index) = Len(d.index),
         \A x \in Nodes(d) : Rec(e, x).data = Rec(d, x).data
  PROVE  FileSorted(e)
<1>1. \A i \in 1..Len(d.index) : e.index[i].data = d.index[i].data
  <2> TAKE i \in 1..Len(d.index)
  <2>1. InIndex(i) \in Nodes(d) /\ \A f : Rec(f, InIndex(i)) = f.index[i]
    BY DEF Nodes, IndexNodes, InIndex, Rec
  <2> QED BY <2>1
<1> QED BY <1>1 DEF FileSorted

\* A disk of the same duplicates.
LEMMA DupsLinkedKept ==
  ASSUME NEW d, DupsLinked(d), NEW e, e.dups = d.dups,
         \A x \in Nodes(e) : Rec(e, x).dup \in 0..Len(d.dups)
  PROVE  DupsLinked(e)
BY DEF DupsLinked

LEMMA EmptyFile ==
  ASSUME NEW d \in Disk
  PROVE  d.index = <<>> <=> Len(d.index) = 0
BY DiskTyped

\* One more record, of a key that no other record has.
LEMMA NewRecordContent ==
  ASSUME NEW d \in Disk, DupsLinked(d), NEW e \in Disk, DupsLinked(e), e.dups = d.dups,
         NEW new, Nodes(e) = Nodes(d) \union {new}, NEW key, NEW raw,
         Rec(e, new).data = key, Rec(e, new).raw = raw, Rec(e, new).dup = 0,
         \A x \in Nodes(d) : /\ Rec(e, x).data = Rec(d, x).data /\ Rec(e, x).raw = Rec(d, x).raw
                            /\ Rec(e, x).dup = Rec(d, x).dup,
         \A q \in Nodes(d) : Rec(d, q).data # key
  PROVE  /\ Content(d, Nodes(d), key) = {}
         /\ ContentSet(e, Nodes(e), d, Nodes(d), key, {raw})
<1>1. \A x \in Nodes(d) : AllRaw(e, x) = AllRaw(d, x)
  <2>1. Len(d.dups) <= Len(e.dups) /\ \A i \in 1..Len(d.dups) : e.dups[i] = d.dups[i]
    BY DiskTyped
  <2> QED BY <2>1, AllRawKept
<1>2. AllRaw(e, new) = {raw}
  <2>1. 0 \in 0..Len(e.dups)
    BY DiskTyped
  <2>2. Duplicates(e, 0) = <<>>
    BY <2>1, DuplicatesAre
  <2> QED BY <2>2 DEF AllRaw, ToSet
<1>3. Content(d, Nodes(d), key) = {}
  BY DEF Content
<1>4. ASSUME NEW k \in Int
      PROVE  Content(e, Nodes(e), k) = IF k = key THEN {raw} ELSE Content(d, Nodes(d), k)
  <2>1. CASE k = key
    <3>1. {q \in Nodes(e) : Rec(e, q).data = k} = {new}
      BY <2>1
    <3> QED BY <1>2, <2>1, <3>1 DEF Content
  <2>2. CASE k # key
    <3>1. {q \in Nodes(e) : Rec(e, q).data = k} = {q \in Nodes(d) : Rec(d, q).data = k}
      BY <2>2
    <3> QED BY <1>1, <2>2, <3>1 DEF Content
  <2> QED BY <2>1, <2>2
<1> QED BY <1>3, <1>4 DEF ContentSet

\* A key that comes in between two records goes into the overflow file, linked there.
LEMMA InsertAfterKeeps ==
  ASSUME NEW d, Good(d), d.index # <<>>, NEW key \in Key, NEW raw \in Position,
         NEW p \in Nodes(d) \union {Header}, p = Header \/ Rec(d, p).data < key,
         NextOf(d, p) = Nil \/ key < Rec(d, NextOf(d, p)).data
  PROVE  LET e == InsertAfter(d, p, key, raw).disk
         IN  /\ InsertAfter(d, p, key, raw).outcome = "ok"
             /\ Good(e) /\ Content(d, Nodes(d), key) = {}
             /\ ContentSet(e, Nodes(e), d, Nodes(d), key, {raw})
<1> DEFINE rec == NewRecord(key, raw, NextOf(d, p))
           d1 == [d EXCEPT !.aux = Append(@, rec)]
           new == InAux(Len(d1.aux))
           e == SetNext(d1, p, new)
<1>1. /\ d \in Disk /\ Ordered(d, Nodes(d)) /\ DupsLinked(d) /\ FileSorted(d)
      /\ \A q \in Nodes(d) : Rec(d, q).data \in Key
  BY DEF Good, Linked
<1>2. InsertAfter(d, p, key, raw).disk = e /\ InsertAfter(d, p, key, raw).outcome = "ok"
  BY DEF InsertAfter, Result
<1>3. rec \in Entry /\ rec.data = key /\ rec.raw = raw /\ rec.dup = 0 /\ rec.next = NextOf(d, p)
  <2>1. NextOf(d, p) \in Nodes(d) \union {Nil}
    BY <1>1 DEF Ordered
  <2>2. \A q \in Nodes(d) : q \in Pointer
    BY <1>1, NodeTyped
  <2>3. NextOf(d, p) \in Pointer /\ key \in Int
    BY <2>1, <2>2, SeqIndexAssumption DEF Nil, InIndex, Pointer
  <2> QED BY <2>3 DEF NewRecord, Entry
<1> HIDE DEF rec
<1>4. /\ d1 \in Disk /\ d1.hdr = d.hdr /\ d1.index = d.index /\ d1.dups = d.dups
      /\ Len(d1.aux) = Len(d.aux) + 1
      /\ new \in Pointer /\ new # Nil /\ new # Header /\ new \notin Nodes(d)
      /\ Nodes(d1) = Nodes(d) \union {new} /\ Rec(d1, new) = rec
      /\ \A x \in Nodes(d) : Rec(d1, x) = Rec(d, x)
      /\ \A x \in Nodes(d) \union {Header} : NextOf(d1, x) = NextOf(d, x)
  BY <1>1, <1>3, OverflowAppended
<1> HIDE DEF d1, new
<1>5. /\ e \in Disk /\ e.dups = d1.dups
      /\ Len(e.index) = Len(d1.index) /\ Len(e.aux) = Len(d1.aux)
      /\ Nodes(e) = Nodes(d1)
      /\ \A x \in Nodes(d1) : /\ Rec(e, x).data = Rec(d1, x).data
                              /\ Rec(e, x).raw = Rec(d1, x).raw
                              /\ Rec(e, x).dup = Rec(d1, x).dup
      /\ \A x \in Nodes(d1) \union {Header} :
           NextOf(e, x) = IF x = p THEN new ELSE NextOf(d1, x)
  <2>1. p \in Nodes(d1) \union {Header}
    BY <1>4
  <2> QED BY <1>4, <2>1, SetNextFacts
<1> HIDE DEF e
<1>6. \A x \in Nodes(d) : /\ x # Nil /\ x # Header /\ Rec(d, x).data \in Int
                          /\ Rec(e, x).data = Rec(d, x).data
                          /\ Rec(e, x).raw = Rec(d, x).raw /\ Rec(e, x).dup = Rec(d, x).dup
  BY <1>1, <1>4, <1>5, NodeTyped
<1>7. /\ Nodes(e) = Nodes(d) \union {new} /\ new \notin Nodes(d)
      /\ Rec(e, new).data = key /\ Rec(e, new).raw = raw /\ Rec(e, new).dup = 0
      /\ NextOf(e, new) = NextOf(d, p) /\ key \in Int
  <2>1. NextOf(d1, new) = rec.next
    BY <1>4, NodeTyped
  <2> QED BY <1>3, <1>4, <1>5, <2>1, SeqIndexAssumption
<1>8. \A q \in Nodes(d) \union {Header} : NextOf(e, q) = IF q = p THEN new ELSE NextOf(d, q)
  BY <1>4, <1>5
<1>9. Ordered(e, Nodes(e)) /\ \A q \in Nodes(d) : Rec(d, q).data # key
  <2>1. Nil \notin Nodes(d) /\ Header \notin Nodes(d) /\ new # Nil /\ new # Header
    BY <1>4, <1>6
  <2>2. /\ Ordered(e, Nodes(d) \union {new})
        /\ \A q \in Nodes(d) : Rec(d, q).data # Rec(e, new).data
    <3>1. /\ Rec(e, new).data \in Int
          /\ p = Header \/ Rec(d, p).data < Rec(e, new).data
          /\ NextOf(d, p) = Nil \/ Rec(e, new).data < Rec(d, NextOf(d, p)).data
      BY <1>7
    <3>2. \A q \in Nodes(d) : Rec(d, q).data \in Int /\ Rec(e, q).data = Rec(d, q).data
      BY <1>6
    <3>3. Ordered(d, Nodes(d)) /\ new \notin Nodes(d) /\ NextOf(e, new) = NextOf(d, p)
      BY <1>1, <1>7
    <3>4. Inserted(d, e, Nodes(d), p, new)
      BY <1>8, <2>1, <3>1, <3>2, <3>3 DEF Inserted
    <3> QED BY <3>4, OrderedInsert
  <2> QED BY <1>7, <2>2
<1>10. DupsLinked(e)
  <2>1. \A x \in Nodes(e) : Rec(e, x).dup \in 0..Len(d.dups)
    <3>1. \A x \in Nodes(d) : Rec(d, x).dup \in 0..Len(d.dups)
      BY <1>1 DEF DupsLinked
    <3>2. 0 \in 0..Len(d.dups)
      BY <1>1, DiskTyped
    <3> QED BY <1>6, <1>7, <3>1, <3>2
  <2> QED BY <1>1, <1>4, <1>5, <2>1, DupsLinkedKept
<1>11. Good(e)
  <2>1. FileSorted(e)
    BY <1>1, <1>4, <1>5, <1>6, FileSortedKept
  <2>2. e.index # <<>>
    BY <1>1, <1>4, <1>5, EmptyFile
  <2>3. \A q \in Nodes(e) : Rec(e, q).data \in Key
    BY <1>1, <1>6, <1>7
  <2> QED BY <1>5, <1>9, <1>10, <2>1, <2>2, <2>3 DEF Good, Linked
<1>12. /\ Content(d, Nodes(d), key) = {}
       /\ ContentSet(e, Nodes(e), d, Nodes(d), key, {raw})
  <2>1. e.dups = d.dups
    BY <1>4, <1>5
  <2> QED BY <1>1, <1>5, <1>6, <1>7, <1>9, <1>10, <2>1, NewRecordContent
<1> QED BY <1>2, <1>11, <1>12

\* Order is of keys and pointers only.
LEMMA OrderedKept ==
  ASSUME NEW d, NEW linked, Ordered(d, linked), NEW e, Header \notin linked,
         \A q \in linked : Rec(e, q).data = Rec(d, q).data,
         \A q \in linked \union {Header} : NextOf(e, q) = NextOf(d, q)
  PROVE  Ordered(e, linked)
<1>1. \A q \in linked \union {Header} : NextOf(d, q) \in linked \union {Nil}
  BY DEF Ordered
<1>2. \A q \in linked \union {Header}, r \in linked : Precedes(e, q, r) <=> Precedes(d, q, r)
  BY DEF Precedes
<1>3. \A q, r \in linked : Rec(e, q).data = Rec(e, r).data => q = r
  BY DEF Ordered
<1>4. \A q \in linked \union {Header} : NextOf(e, q) # Nil => Precedes(e, q, NextOf(e, q))
  <2> TAKE q \in linked \union {Header}
  <2> HAVE NextOf(e, q) # Nil
  <2>1. NextOf(e, q) = NextOf(d, q) /\ NextOf(d, q) \in linked /\ Precedes(d, q, NextOf(d, q))
    BY <1>1 DEF Ordered
  <2> QED BY <1>2, <2>1
<1>5. ASSUME NEW q \in linked \union {Header}, NEW r \in linked, Precedes(e, q, r)
      PROVE  NextOf(e, q) # Nil /\ Rec(e, NextOf(e, q)).data <= Rec(e, r).data
  <2>1. NextOf(d, q) # Nil /\ Rec(d, NextOf(d, q)).data <= Rec(d, r).data
    BY <1>2, <1>5 DEF Ordered
  <2>2. NextOf(e, q) = NextOf(d, q) /\ NextOf(d, q) \in linked
    BY <1>1, <2>1
  <2> QED BY <2>1, <2>2
<1>6. \A q \in linked \union {Header} : NextOf(e, q) \in linked \union {Nil}
  BY <1>1
<1> QED BY <1>3, <1>4, <1>5, <1>6 DEF Ordered

\* A duplicate goes in front of those of its record.
LEMMA DuplicateKeeps ==
  ASSUME NEW d, Good(d), NEW p \in Nodes(d), NEW raw \in Position
  PROVE  LET e == WithDuplicate(d, p, raw)
             key == Rec(d, p).data
         IN  /\ Good(e) /\ raw \in Content(e, Nodes(e), key) /\ Content(d, Nodes(d), key) # {}
             /\ ContentSet(e, Nodes(e), d, Nodes(d), key, Content(d, Nodes(d), key) \union {raw})
             /\ Len(e.index) = Len(d.index) /\ Len(e.aux) = Len(d.aux) /\ Nodes(e) = Nodes(d)
             /\ \A x \in Nodes(d) : Rec(e, x).data = Rec(d, x).data
<1> DEFINE dup == Rec(d, p).dup
           n == Len(d.dups)
           first == [raw |-> raw, dup |-> dup]
           dups == Append(d.dups, first)
           d1 == [d EXCEPT !.dups = Append(@, first)]
           rec == [Rec(d, p) EXCEPT !.dup = n + 1]
           e == WithDuplicate(d, p, raw)
           key == Rec(d, p).data
<1>1. /\ d \in Disk /\ Ordered(d, Nodes(d)) /\ DupsLinked(d) /\ FileSorted(d)
      /\ \A q \in Nodes(d) : Rec(d, q).data \in Key
      /\ d.index = <<>> => d.aux = <<>>
  BY DEF Good, Linked
<1>2. /\ d.hdr \in Pointer /\ d.index \in Seq(Entry) /\ d.aux \in Seq(Entry)
      /\ d.dups \in Seq([raw : Position, dup : Nat])
      /\ d = [hdr |-> d.hdr, index |-> d.index, aux |-> d.aux, dups |-> d.dups] /\ n \in Nat
  BY <1>1, DiskTyped DEF Disk
<1>3. /\ p \in Pointer /\ p # Header /\ Rec(d, p) \in Entry /\ dup \in 0..n /\ dup \in Nat
      /\ key \in Int /\ key \in Key
      /\ \/ p.file = "index" /\ Rec(d, p) = d.index[p.pos]
         \/ p.file = "aux" /\ Rec(d, p) = d.aux[p.pos]
  BY <1>1, NodeTyped DEF DupsLinked
<1>4. /\ dups \in Seq([raw : Position, dup : Nat]) /\ Len(dups) = n + 1 /\ dups[n + 1] = first
      /\ \A i \in 1..n : dups[i] = d.dups[i]
  <2>1. first \in [raw : Position, dup : Nat]
    BY <1>3
  <2> HIDE DEF first
  <2> QED BY <1>2, <2>1, AppendProperties
<1>5. first.raw = raw /\ first.dup = dup
  OBVIOUS
<1>6. d1 = [d EXCEPT !.dups = dups]
  OBVIOUS
<1> HIDE DEF dups, first
<1>7. d1 = [hdr |-> d.hdr, index |-> d.index, aux |-> d.aux, dups |-> dups]
  <2> HIDE DEF d1
  <2> QED BY <1>2, <1>6
<1> HIDE DEF d1
<1>8. d1 \in Disk /\ d1.hdr = d.hdr /\ d1.index = d.index /\ d1.aux = d.aux /\ d1.dups = dups
  BY <1>2, <1>4, <1>7 DEF Disk
<1>9. Nodes(d1) = Nodes(d) /\ \A x : Rec(d1, x) = Rec(d, x) /\ NextOf(d1, x) = NextOf(d, x)
  BY <1>8 DEF Nodes, IndexNodes, AuxNodes, Rec, NextOf
<1>10. e = SetDup(d1, p, n + 1)
  BY DEF WithDuplicate, d1, first
<1>11. rec \in Entry /\ rec.data = key /\ rec.raw = Rec(d, p).raw /\ rec.dup = n + 1
       /\ rec.next = Rec(d, p).next
  <2>1. n + 1 \in Nat
    BY <1>2
  <2> QED BY <1>3, <2>1 DEF Entry
<1>12. \/ p.file = "index" /\ e = [d1 EXCEPT !.index[p.pos] = rec]
       \/ p.file = "aux" /\ e = [d1 EXCEPT !.aux[p.pos] = rec]
  <2>1. CASE p.file = "index"
    <3>1. e = [d1 EXCEPT !.index[p.pos].dup = n + 1]
      BY <1>10, <2>1 DEF SetDup
    <3> QED BY <1>3, <1>8, <2>1, <3>1
  <2>2. CASE p.file = "aux"
    <3>1. e = [d1 EXCEPT !.aux[p.pos].dup = n + 1]
      BY <1>10, <2>2 DEF SetDup
    <3> QED BY <1>3, <1>8, <2>2, <3>1
  <2> QED BY <1>3, <2>1, <2>2
<1> HIDE DEF rec, e
<1>13. /\ e \in Disk /\ e.hdr = d1.hdr /\ e.dups = d1.dups
       /\ Len(e.index) = Len(d1.index) /\ Len(e.aux) = Len(d1.aux)
       /\ Nodes(e) = Nodes(d1)
       /\ \A x \in Nodes(d1) : Rec(e, x) = IF x = p THEN rec ELSE Rec(d1, x)
  <2>1. p \in Nodes(d1)
    BY <1>9
  <2> QED BY <1>8, <1>11, <1>12, <2>1, RecordWritten
<1>14. /\ Nodes(e) = Nodes(d) /\ Len(e.index) = Len(d.index) /\ Len(e.aux) = Len(d.aux)
       /\ e.dups = dups /\ e.hdr = d.hdr
       /\ \A x \in Nodes(d) : /\ x # Header
                              /\ Rec(e, x).data = Rec(d, x).data
                              /\ Rec(e, x).raw = Rec(d, x).raw
                              /\ Rec(e, x).dup = IF x = p THEN n + 1 ELSE Rec(d, x).dup
                              /\ NextOf(e, x) = NextOf(d, x)
  <2>1. \A x \in Nodes(d) : x # Header /\ \A f : NextOf(f, x) = Rec(f, x).next
    BY <1>1, NodeTyped DEF NextOf
  <2> QED BY <1>8, <1>9, <1>11, <1>13, <2>1
<1>15. Ordered(e, Nodes(e))
  <2>1. NextOf(e, Header) = NextOf(d, Header) /\ Header \notin Nodes(d)
    BY <1>14 DEF NextOf
  <2>2. \A q \in Nodes(d) \union {Header} : NextOf(e, q) = NextOf(d, q)
    BY <1>14, <2>1
  <2> QED BY <1>1, <1>14, <2>1, <2>2, OrderedKept
<1>16. DupsLinked(e)
  <2>1. PICK rank : \A i \in 1..n : /\ rank[i] \in Int /\ d.dups[i].dup \in 0..n
                                    /\ d.dups[i].dup # 0 => rank[i] < rank[d.dups[i].dup]
    BY <1>1 DEF DupsLinked
  <2> DEFINE rank2 == [i \in 1..n + 1 |-> IF i = n + 1 THEN IF dup = 0 THEN 0 ELSE rank[dup] - 1
                                          ELSE rank[i]]
  <2>2. ASSUME NEW i \in 1..n + 1
        PROVE  /\ rank2[i] \in Int /\ dups[i].dup \in 0..n + 1
               /\ dups[i].dup # 0 => rank2[i] < rank2[dups[i].dup]
    <3>1. CASE i = n + 1
      <4>1. /\ rank2[i] = IF dup = 0 THEN 0 ELSE rank[dup] - 1
            /\ dup # 0 => dup \in 1..n /\ rank2[dup] = rank[dup]
        BY <1>2, <1>3, <3>1
      <4> HIDE DEF rank2
      <4>2. rank2[i] \in Int /\ (dup # 0 => rank2[i] < rank2[dup])
        BY <2>1, <4>1
      <4> QED BY <1>2, <1>3, <1>4, <1>5, <3>1, <4>2
    <3>2. CASE i # n + 1
      <4>1. i \in 1..n /\ rank2[i] = rank[i] /\ dups[i] = d.dups[i]
        BY <1>2, <1>4, <3>2
      <4>2. d.dups[i].dup \in 0..n /\ (d.dups[i].dup # 0 => rank2[d.dups[i].dup] = rank[d.dups[i].dup])
        <5>1. d.dups[i].dup \in 0..n
          BY <2>1, <4>1
        <5>2. \A j \in 1..n : rank2[j] = rank[j]
          BY <1>2
        <5> QED BY <5>1, <5>2
      <4> HIDE DEF rank2
      <4> QED BY <1>2, <2>1, <4>1, <4>2
    <3> QED BY <3>1, <3>2
  <2>3. \A x \in Nodes(e) : Rec(e, x).dup \in 0..n + 1
    <3>1. \A x \in Nodes(d) : Rec(d, x).dup \in 0..n
      BY <1>1 DEF DupsLinked
    <3> QED BY <1>2, <1>14, <3>1
  <2>4. Len(e.dups) = n + 1
    BY <1>4, <1>14
  <2> HIDE DEF rank2
  <2> QED BY <1>14, <2>2, <2>3, <2>4 DEF DupsLinked
<1>17. Good(e)
  <2>1. FileSorted(e)
    BY <1>1, <1>14, FileSortedKept
  <2>2. e.index = <<>> => e.aux = <<>>
    <3>1. /\ e.index \in Seq(Entry) /\ e.aux \in Seq(Entry)
          /\ d.index \in Seq(Entry) /\ d.aux \in Seq(Entry)
      BY <1>1, <1>13, DiskTyped
    <3>2. \A s \in Seq(Entry) : s = <<>> <=> Len(s) = 0
      OBVIOUS
    <3> QED BY <1>1, <1>14, <3>1, <3>2
  <2>3. \A q \in Nodes(e) : Rec(e, q).data \in Key
    BY <1>1, <1>14
  <2> QED BY <1>13, <1>15, <1>16, <2>1, <2>2, <2>3 DEF Good, Linked
<1>18. n <= Len(e.dups) /\ \A i \in 1..n : e.dups[i] = d.dups[i]
  BY <1>2, <1>4, <1>14
<1>19. \A x \in Nodes(d) : x # p => AllRaw(e, x) = AllRaw(d, x)
  BY <1>1, <1>13, <1>14, <1>16, <1>18, AllRawKept
<1>20. AllRaw(e, p) = AllRaw(d, p) \union {raw}
  <2>1. n + 1 \in 0..Len(e.dups) /\ n + 1 # 0 /\ e.dups[n + 1] = first
    BY <1>2, <1>4, <1>14
  <2>2. ToSet(Duplicates(e, n + 1)) = {raw} \union ToSet(Duplicates(e, dup))
    BY <1>5, <1>13, <1>16, <2>1, DuplicatesAre
  <2>3. Duplicates(e, dup) = Duplicates(d, dup)
    BY <1>1, <1>3, <1>13, <1>16, <1>18, DuplicatesKept
  <2>4. Rec(e, p).raw = Rec(d, p).raw /\ Rec(e, p).dup = n + 1
    BY <1>14
  <2>5. AllRaw(e, p) = {Rec(d, p).raw} \union ({raw} \union ToSet(Duplicates(d, dup)))
    BY <2>2, <2>3, <2>4 DEF AllRaw
  <2> QED BY <2>5 DEF AllRaw
<1>21. \A q \in Nodes(d) : Rec(d, q).data = key => q = p
  BY <1>1 DEF Ordered
<1>22. Content(d, Nodes(d), key) = AllRaw(d, p)
  <2>1. {q \in Nodes(d) : Rec(d, q).data = key} = {p}
    BY <1>21
  <2> QED BY <2>1 DEF Content
<1>23. Content(e, Nodes(e), key) = AllRaw(e, p)
  <2>1. {q \in Nodes(e) : Rec(e, q).data = key} = {p}
    BY <1>14, <1>21
  <2> QED BY <2>1 DEF Content
<1>24. ASSUME NEW k \in Int, k # key
       PROVE  Content(e, Nodes(e), k) = Content(d, Nodes(d), k)
  <2>1. {q \in Nodes(e) : Rec(e, q).data = k} = {q \in Nodes(d) : Rec(d, q).data = k}
    BY <1>14
  <2>2. \A q \in {r \in Nodes(d) : Rec(d, r).data = k} : AllRaw(e, q) = AllRaw(d, q)
    BY <1>19, <1>24
  <2> QED BY <2>1, <2>2 DEF Content
<1>25. AllRaw(d, p) # {}
  BY DEF AllRaw
<1>26. /\ ContentSet(e, Nodes(e), d, Nodes(d), key, Content(d, Nodes(d), key) \union {raw})
       /\ raw \in Content(e, Nodes(e), key) /\ Content(d, Nodes(d), key) # {}
  BY <1>20, <1>22, <1>23, <1>24, <1>25 DEF ContentSet
<1> QED BY <1>14, <1>17, <1>26 DEF e

\* A record that is unlinked takes all the positions of its key along.
LEMMA UnlinkKeeps ==
  ASSUME NEW d, Good(d), NEW p \in Nodes(d) \union {Header}, NEW q \in Nodes(d), NextOf(d, p) = q
  PROVE  LET e == SetNext(d, p, Rec(d, q).next)
             key == Rec(d, q).data
         IN  /\ Linked(e, Nodes(d) \ {q}) /\ Content(d, Nodes(d), key) # {}
             /\ ContentSet(e, Nodes(d) \ {q}, d, Nodes(d), key, {})
<1> DEFINE e == SetNext(d, p, Rec(d, q).next)
           key == Rec(d, q).data
           rest == Nodes(d) \ {q}
<1>1. /\ d \in Disk /\ Ordered(d, Nodes(d)) /\ DupsLinked(d)
      /\ \A x \in Nodes(d) : Rec(d, x).data \in Key
  BY DEF Good, Linked
<1>2. \A x \in Nodes(d) : /\ x # Nil /\ x # Header /\ Rec(d, x).next \in Pointer
                          /\ Rec(d, x).data \in Int /\ NextOf(d, x) = Rec(d, x).next
  BY <1>1, NodeTyped
<1>3. /\ e \in Disk /\ e.dups = d.dups /\ Nodes(e) = Nodes(d)
      /\ \A x \in Nodes(d) : /\ Rec(e, x).data = Rec(d, x).data
                             /\ Rec(e, x).raw = Rec(d, x).raw
                             /\ Rec(e, x).dup = Rec(d, x).dup
      /\ \A x \in Nodes(d) \union {Header} :
           NextOf(e, x) = IF x = p THEN Rec(d, q).next ELSE NextOf(d, x)
  BY <1>1, <1>2, SetNextFacts
<1> HIDE DEF e
<1>4. Ordered(e, rest)
  <2>1. NextOf(d, p) # Nil /\ Nil \notin Nodes(d) /\ Header \notin Nodes(d)
    BY <1>2
  <2>2. \A x \in Nodes(d) \union {Header} :
          NextOf(e, x) = IF x = p THEN NextOf(d, NextOf(d, p)) ELSE NextOf(d, x)
    BY <1>2, <1>3
  <2>3. \A x \in Nodes(d) : Rec(d, x).data \in Int /\ Rec(e, x).data = Rec(d, x).data
    BY <1>2, <1>3
  <2>4. Unlinked(d, e, Nodes(d), p)
    BY <1>1, <2>1, <2>2, <2>3 DEF Unlinked
  <2> QED BY <2>4, OrderedUnlink
<1>5. DupsLinked(e)
  <2>1. \A x \in Nodes(e) : Rec(e, x).dup \in 0..Len(d.dups)
    BY <1>1, <1>3 DEF DupsLinked
  <2> QED BY <1>1, <1>3, <2>1, DupsLinkedKept
<1>6. Linked(e, rest)
  BY <1>1, <1>3, <1>4, <1>5 DEF Linked
<1>7. \A x \in Nodes(d) : AllRaw(e, x) = AllRaw(d, x)
  <2>1. Len(d.dups) <= Len(e.dups)
    BY <1>1, <1>3, DiskTyped
  <2> QED BY <1>1, <1>3, <1>5, <2>1, AllRawKept
<1>8. Content(d, Nodes(d), key) # {}
  <2>1. q \in {x \in Nodes(d) : Rec(d, x).data = key} /\ AllRaw(d, q) # {}
    BY DEF AllRaw
  <2> QED BY <2>1 DEF Content
<1>9. ASSUME NEW k \in Int
      PROVE  Content(e, rest, k) = IF k = key THEN {} ELSE Content(d, Nodes(d), k)
  <2>1. CASE k = key
    <3>1. {x \in rest : Rec(e, x).data = k} = {}
      BY <1>1, <1>3, <2>1 DEF Ordered
    <3> QED BY <2>1, <3>1 DEF Content
  <2>2. CASE k # key
    <3>1. {x \in rest : Rec(e, x).data = k} = {x \in Nodes(d) : Rec(d, x).data = k}
      BY <1>3, <2>2
    <3> QED BY <1>7, <2>2, <3>1 DEF Content
  <2> QED BY <2>1, <2>2
<1> QED BY <1>6, <1>8, <1>9 DEF ContentSet, e

-----------------------------------------------------------------------------
(* rebuild.                                                                 *)

\* An index file alone, linked in its own order, is in order.
LEMMA FileOrder ==
  ASSUME NEW e \in Disk, e.aux = <<>>, FileSorted(e), NEW n, n = Len(e.index),
         e.hdr = IF n = 0 THEN Nil ELSE InIndex(1),
         \A i \in 1..n : e.index[i].next = IF i = n THEN Nil ELSE InIndex(i + 1)
  PROVE  Ordered(e, Nodes(e)) /\ Nodes(e) = {InIndex(i) : i \in 1..n}
<1>1. n \in Nat /\ \A i \in 1..n : e.index[i] \in Entry
  <2>1. e.index \in Seq(Entry) /\ n \in Nat
    BY DiskTyped
  <2> QED BY <2>1, ElementOfSeq
<1>2. Nodes(e) = {InIndex(i) : i \in 1..n}
  <2>1. Len(e.aux) = 0
    OBVIOUS
  <2>2. AuxNodes(e) = {}
    BY <2>1 DEF AuxNodes
  <2> QED BY <2>2 DEF Nodes, IndexNodes
<1>3. \A i \in 1..n : /\ Rec(e, InIndex(i)) = e.index[i] /\ e.index[i].data \in Int
                      /\ NextOf(e, InIndex(i)) = IF i = n THEN Nil ELSE InIndex(i + 1)
                      /\ InIndex(i) # Nil /\ InIndex(i) # Header
  <2> TAKE i \in 1..n
  <2>1. InIndex(i) # Nil /\ InIndex(i) # Header
    BY <1>1 DEF InIndex, Nil, Header
  <2>2. Rec(e, InIndex(i)) = e.index[i]
    BY DEF Rec, InIndex
  <2>3. NextOf(e, InIndex(i)) = e.index[i].next
    BY <2>1, <2>2 DEF NextOf
  <2>4. e.index[i].data \in Int
    BY <1>1 DEF Entry
  <2> QED BY <2>1, <2>2, <2>3, <2>4
<1>4. NextOf(e, Header) = IF n = 0 THEN Nil ELSE InIndex(1)
  BY DEF NextOf
<1>5. \A i, j \in 1..n : i < j => e.index[i].data < e.index[j].data
  BY DEF FileSorted
<1>6. \A i, j \in 1..n : e.index[i].data = e.index[j].data => i = j
  <2> SUFFICES ASSUME NEW i \in 1..n, NEW j \in 1..n, e.index[i].data = e.index[j].data, i # j
               PROVE  FALSE
    OBVIOUS
  <2>1. i < j \/ j < i
    BY <1>1
  <2>2. e.index[i].data < e.index[j].data \/ e.index[j].data < e.index[i].data
    BY <1>5, <2>1
  <2>3. e.index[i].data \in Int
    BY <1>3
  <2> QED BY <2>2, <2>3
<1>7. \A p, q \in Nodes(e) : Rec(e, p).data = Rec(e, q).data => p = q
  <2> SUFFICES ASSUME NEW i \in 1..n, NEW j \in 1..n,
                      Rec(e, InIndex(i)).data = Rec(e, InIndex(j)).data
               PROVE  InIndex(i) = InIndex(j)
    BY <1>2
  <2>1. e.index[i].data = e.index[j].data
    BY <1>3
  <2> QED BY <1>6, <2>1
<1>8. \A p \in Nodes(e) \union {Header} : NextOf(e, p) \in Nodes(e) \union {Nil}
  <2>1. ASSUME NEW i \in 1..n
        PROVE  NextOf(e, InIndex(i)) \in Nodes(e) \union {Nil}
    <3>1. i # n => i + 1 \in 1..n
      BY <1>1
    <3> QED BY <1>2, <1>3, <3>1
  <2>2. NextOf(e, Header) \in Nodes(e) \union {Nil}
    <3>1. n # 0 => 1 \in 1..n
      BY <1>1
    <3> QED BY <1>2, <1>4, <3>1
  <2> QED BY <1>2, <2>1, <2>2
<1>9. ASSUME NEW p \in Nodes(e) \union {Header}, NextOf(e, p) # Nil
      PROVE  Precedes(e, p, NextOf(e, p))
  <2>1. CASE p = Header
    BY <2>1 DEF Precedes
  <2>2. CASE p \in Nodes(e)
    <3>1. PICK i \in 1..n : p = InIndex(i)
      BY <1>2, <2>2
    <3>2. i # n /\ NextOf(e, p) = InIndex(i + 1)
      BY <1>3, <1>9, <3>1
    <3>3. i + 1 \in 1..n /\ i < i + 1
      BY <1>1, <3>2
    <3>4. e.index[i].data < e.index[i + 1].data
      BY <1>5, <3>3
    <3> QED BY <1>3, <3>1, <3>2, <3>3, <3>4 DEF Precedes
  <2> QED BY <2>1, <2>2
<1>10. ASSUME NEW p \in Nodes(e) \union {Header}, NEW q \in Nodes(e), Precedes(e, p, q)
       PROVE  NextOf(e, p) # Nil /\ Rec(e, NextOf(e, p)).data <= Rec(e, q).data
  <2>1. PICK j \in 1..n : q = InIndex(j)
    BY <1>2
  <2>2. CASE p = Header
    <3>1. n # 0 /\ 1 \in 1..n /\ (j = 1 \/ 1 < j)
      BY <1>1
    <3>2. NextOf(e, p) = InIndex(1) /\ Rec(e, InIndex(1)) = e.index[1] /\ Rec(e, q) = e.index[j]
      BY <1>3, <1>4, <2>1, <2>2, <3>1
    <3>3. e.index[1].data = e.index[j].data \/ e.index[1].data < e.index[j].data
      BY <1>5, <3>1
    <3>4. e.index[1].data \in Int /\ e.index[j].data \in Int /\ InIndex(1) # Nil
      BY <1>3, <3>1
    <3> QED BY <3>2, <3>3, <3>4
  <2>3. CASE p \in Nodes(e)
    <3>1. PICK i \in 1..n : p = InIndex(i)
      BY <1>2, <2>3
    <3>2. e.index[i].data < e.index[j].data
      BY <1>3, <1>10, <2>1, <3>1 DEF Precedes
    <3>3. ~ (j < i) /\ i # j
      BY <1>3, <1>5, <3>2
    <3>4. i # n /\ i + 1 \in 1..n /\ (i + 1 = j \/ i + 1 < j)
      BY <1>1, <3>3
    <3>5. NextOf(e, p) = InIndex(i + 1) /\ Rec(e, InIndex(i + 1)) = e.index[i + 1]
          /\ Rec(e, q) = e.index[j] /\ InIndex(i + 1) # Nil
      BY <1>3, <2>1, <3>1, <3>4
    <3>6. e.index[i + 1].data = e.index[j].data \/ e.index[i + 1].data < e.index[j].data
      BY <1>5, <3>4
    <3>7. e.index[i + 1].data \in Int /\ e.index[j].data \in Int
      BY <1>3, <3>4
    <3> QED BY <3>5, <3>6, <3>7
  <2> QED BY <2>2, <2>3
<1>11. Ordered(e, Nodes(e))
  BY <1>7, <1>8, <1>9, <1>10 DEF Ordered
<1> QED BY <1>2, <1>11

\* One turn of the loop of rebuild.
LEMMA CopyRecordKeeps ==
  ASSUME NEW d \in Disk, DupsLinked(d), NEW p \in Nodes(d),
         NEW f \in Disk, f.aux = <<>>, DupsLinked(f), NEW m, m = Len(f.index)
  PROVE  LET e == CopyRecord(d, f, p)
         IN  /\ e \in Disk /\ e.hdr = f.hdr /\ e.aux = <<>> /\ Len(e.index) = m + 1
             /\ DupsLinked(e)
             /\ \A i \in 1..m : e.index[i] = f.index[i] /\ AllRaw(e, InIndex(i)) = AllRaw(f, InIndex(i))
             /\ e.index[m + 1].data = Rec(d, p).data
             /\ e.index[m + 1].next = IF Rec(d, p).next = Nil THEN Nil ELSE InIndex(m + 2)
             /\ AllRaw(e, InIndex(m + 1)) = AllRaw(d, p)
<1> DEFINE rec == Rec(d, p)
           dups == Duplicates(d, rec.dup)
           base == Len(f.dups)
           len == Len(dups)
           copy == [i \in 1..len |-> [raw |-> dups[i],
                                      dup |-> IF i = len THEN 0 ELSE base + i + 1]]
           new == [data |-> rec.data, raw |-> rec.raw,
                   dup  |-> IF dups = <<>> THEN 0 ELSE base + 1,
                   next |-> IF rec.next = Nil THEN Nil ELSE InIndex(m + 2)]
           e == CopyRecord(d, f, p)
           all == f.dups \o copy
           Dup == [raw : Position, dup : Nat]
<1>1. e = [hdr |-> f.hdr, index |-> Append(f.index, new), aux |-> <<>>, dups |-> all]
  BY DEF CopyRecord
<1>2. /\ f.hdr \in Pointer /\ f.index \in Seq(Entry) /\ f.dups \in Seq(Dup)
      /\ base \in Nat /\ m \in Nat
  BY DiskTyped
<1>3. rec \in Entry /\ rec.dup \in 0..Len(d.dups)
  BY NodeTyped DEF DupsLinked
<1>4. dups \in Seq(Position) /\ len \in Nat /\ (dups = <<>> <=> rec.dup = 0) /\ (dups = <<>> <=> len = 0)
  <2>1. dups \in Seq(Position) /\ len \in Nat /\ (dups = <<>> <=> rec.dup = 0)
    BY <1>3, DuplicatesAre
  <2> HIDE DEF dups
  <2> QED BY <2>1
<1> HIDE DEF e, dups, base
<1>5. copy \in Seq(Dup) /\ Len(copy) = len /\ \A i \in 1..len :
        copy[i].raw = dups[i] /\ copy[i].dup = IF i = len THEN 0 ELSE base + i + 1
  <2> HIDE DEF len
  <2>1. ASSUME NEW i \in 1..len
        PROVE  [raw |-> dups[i], dup |-> IF i = len THEN 0 ELSE base + i + 1] \in Dup
    <3>1. dups[i] \in Position
      BY <1>4 DEF len
    <3>2. base + i + 1 \in Nat
      BY <1>2, <1>4
    <3> QED BY <3>1, <3>2
  <2>2. copy \in [1..len -> Dup]
    BY <2>1
  <2>3. copy \in Seq(Dup) /\ Len(copy) = len
    <3> HIDE DEF copy, Dup
    <3> QED BY <1>4, <2>2
  <2> QED BY <2>3
<1>6. new \in Entry /\ new.data = rec.data /\ new.raw = rec.raw
      /\ new.dup = (IF len = 0 THEN 0 ELSE base + 1)
      /\ new.next = IF rec.next = Nil THEN Nil ELSE InIndex(m + 2)
  <2>1. base + 1 \in Nat /\ m + 2 \in Nat
    BY <1>2
  <2>2. Nil \in Pointer /\ InIndex(m + 2) \in Pointer
    BY <2>1 DEF Nil, InIndex, Pointer
  <2> QED BY <1>3, <1>4, <2>1, <2>2 DEF Entry
<1> HIDE DEF copy, new, len
<1>7. /\ all \in Seq(Dup) /\ Len(all) = base + len
      /\ \A i \in 1..base : all[i] = f.dups[i]
      /\ \A i \in 1..len : all[base + i] = copy[i]
  <2> HIDE DEF Dup
  <2>1. \A s, t \in Seq(Dup) :
          /\ s \o t \in Seq(Dup) /\ Len(s \o t) = Len(s) + Len(t)
          /\ \A i \in 1..Len(s) : (s \o t)[i] = s[i]
          /\ \A i \in 1..Len(t) : (s \o t)[Len(s) + i] = t[i]
    OBVIOUS
  <2> QED BY <1>2, <1>5, <2>1 DEF base
<1> HIDE DEF all
<1>8. /\ Append(f.index, new) \in Seq(Entry) /\ Len(Append(f.index, new)) = m + 1
      /\ Append(f.index, new)[m + 1] = new
      /\ \A i \in 1..m : Append(f.index, new)[i] = f.index[i]
  BY <1>2, <1>6, AppendProperties
<1>9. e \in Disk
  BY <1>1, <1>2, <1>7, <1>8 DEF Disk
<1>10. /\ e.hdr = f.hdr /\ e.aux = <<>> /\ Len(e.index) = m + 1 /\ e.dups = all
       /\ e.index[m + 1] = new
       /\ \A i \in 1..m : e.index[i] = f.index[i]
  BY <1>1, <1>8
<1>11. /\ \A g, i : Rec(g, InIndex(i)) = g.index[i]
       /\ Nodes(e) = {InIndex(i) : i \in 1..m + 1} /\ Nodes(f) = {InIndex(i) : i \in 1..m}
  <2>1. AuxNodes(e) = {} /\ AuxNodes(f) = {}
    BY <1>10 DEF AuxNodes
  <2> QED BY <1>10, <2>1 DEF Nodes, IndexNodes, InIndex, Rec
<1>12. DupsLinked(e)
  <2>1. PICK rank : \A i \in 1..base : /\ rank[i] \in Int /\ f.dups[i].dup \in 0..base
                                       /\ f.dups[i].dup # 0 => rank[i] < rank[f.dups[i].dup]
    BY DEF DupsLinked, base
  <2> DEFINE rank2 == [i \in 1..base + len |-> IF i <= base THEN rank[i] ELSE i]
  <2>2. ASSUME NEW i \in 1..base + len
        PROVE  /\ rank2[i] \in Int /\ all[i].dup \in 0..base + len
               /\ all[i].dup # 0 => rank2[i] < rank2[all[i].dup]
    <3>1. CASE i <= base
      <4>1. i \in 1..base /\ rank2[i] = rank[i] /\ all[i] = f.dups[i]
        BY <1>2, <1>7, <3>1
      <4>2. \A j \in 1..base : rank2[j] = rank[j]
        BY <1>2, <1>4
      <4>3. f.dups[i].dup \in 0..base /\ (f.dups[i].dup # 0 => rank2[f.dups[i].dup] = rank[f.dups[i].dup])
        BY <2>1, <4>1, <4>2
      <4> HIDE DEF rank2
      <4> QED BY <1>2, <1>4, <2>1, <4>1, <4>3
    <3>2. CASE ~ (i <= base)
      <4>1. i - base \in 1..len /\ base + (i - base) = i /\ rank2[i] = i
        BY <1>2, <1>4, <3>2
      <4>2. all[i].dup = IF i - base = len THEN 0 ELSE i + 1
        <5>1. all[i] = copy[i - base]
          BY <1>7, <4>1
        <5>2. base + (i - base) + 1 = i + 1
          BY <1>2
        <5> QED BY <1>5, <4>1, <5>1, <5>2
      <4>3. i - base # len => i + 1 \in 1..base + len /\ rank2[i + 1] = i + 1
        BY <1>2, <1>4, <3>2
      <4> HIDE DEF rank2
      <4> QED BY <1>2, <1>4, <4>1, <4>2, <4>3
    <3> QED BY <3>1, <3>2
  <2>3. \A x \in Nodes(e) : Rec(e, x).dup \in 0..base + len
    <3> SUFFICES ASSUME NEW i \in 1..m + 1
                 PROVE  e.index[i].dup \in 0..base + len
      BY <1>11
    <3>1. CASE i = m + 1
      BY <1>2, <1>4, <1>6, <1>10, <3>1
    <3>2. CASE i # m + 1
      <4>1. i \in 1..m /\ e.index[i] = f.index[i] /\ InIndex(i) \in Nodes(f)
        BY <1>2, <1>10, <1>11, <3>2
      <4>2. f.index[i].dup \in 0..base
        BY <1>11, <4>1 DEF DupsLinked, base
      <4> QED BY <1>2, <1>4, <4>1, <4>2
    <3> QED BY <3>1, <3>2
  <2> HIDE DEF rank2
  <2> QED BY <1>7, <1>10, <2>2, <2>3 DEF DupsLinked
<1>13. ASSUME NEW i \in 1..m
       PROVE  AllRaw(e, InIndex(i)) = AllRaw(f, InIndex(i))
  <2>1. Len(f.dups) <= Len(e.dups) /\ \A j \in 1..Len(f.dups) : e.dups[j] = f.dups[j]
    <3>1. Len(e.dups) = base + len /\ base <= base + len
      BY <1>2, <1>4, <1>7, <1>10
    <3> QED BY <1>7, <1>10, <3>1 DEF base
  <2>2. InIndex(i) \in Nodes(f) /\ Rec(e, InIndex(i)) = Rec(f, InIndex(i))
    BY <1>10, <1>11
  <2> QED BY <1>9, <1>12, <2>1, <2>2, AllRawKept
<1>14. \A j \in 1..len : ToSet(Duplicates(e, base + j)) = {dups[x] : x \in j..len}
  <2> DEFINE T == {n \in Nat : \A j \in 1..len : len - j < n =>
                     ToSet(Duplicates(e, base + j)) = {dups[x] : x \in j..len}}
  <2>1. 0 \in T
    BY <1>4
  <2>2. ASSUME NEW n \in Nat, n \in T
        PROVE  n + 1 \in T
    <3> SUFFICES ASSUME NEW j \in 1..len, len - j < n + 1
                 PROVE  ToSet(Duplicates(e, base + j)) = {dups[x] : x \in j..len}
      OBVIOUS
    <3>1. base + j \in 0..Len(e.dups) /\ base + j # 0
      BY <1>2, <1>4, <1>7, <1>10
    <3>2. e.dups[base + j].raw = dups[j] /\ e.dups[base + j].dup = IF j = len THEN 0 ELSE base + j + 1
      BY <1>5, <1>7, <1>10
    <3>3. ToSet(Duplicates(e, base + j)) = {dups[j]} \union ToSet(Duplicates(e, e.dups[base + j].dup))
      BY <1>9, <1>12, <3>1, <3>2, DuplicatesAre
    <3>4. CASE j = len
      <4>1. Duplicates(e, 0) = <<>>
        <5>1. 0 \in 0..Len(e.dups)
          BY <1>9, DiskTyped
        <5> QED BY <1>9, <1>12, <5>1, DuplicatesAre
      <4>2. ToSet(Duplicates(e, e.dups[base + j].dup)) = {}
        <5>1. ToSet(<<>>) = {}
          BY DEF ToSet
        <5> QED BY <3>2, <3>4, <4>1, <5>1
      <4>3. \A x : x \in j..len <=> x = j
        BY <1>4, <3>4
      <4> QED BY <3>3, <4>2, <4>3
    <3>5. CASE j # len
      <4>1. j + 1 \in 1..len /\ len - (j + 1) < n /\ base + (j + 1) = base + j + 1
        BY <1>2, <1>4, <3>5
      <4>2. ToSet(Duplicates(e, base + (j + 1))) = {dups[x] : x \in j + 1..len}
        BY <2>2, <4>1
      <4>3. \A x : x \in j..len <=> x = j \/ x \in j + 1..len
        BY <1>4
      <4>4. ToSet(Duplicates(e, base + j)) = {dups[j]} \union {dups[x] : x \in j + 1..len}
        BY <3>2, <3>3, <3>5, <4>1, <4>2
      <4> QED BY <4>3, <4>4
    <3> QED BY <3>4, <3>5
  <2>3. len \in T
    <3> HIDE DEF T
    <3> QED BY <1>4, <2>1, <2>2, SetInduction
  <2>4. \A j \in 1..len : len - j < len
    BY <1>4
  <2> QED BY <2>3, <2>4
<1>15. ToSet(Duplicates(e, new.dup)) = ToSet(dups)
  <2>1. CASE len = 0
    <3>1. 0 \in 0..Len(e.dups)
      BY <1>9, DiskTyped
    <3>2. Duplicates(e, 0) = <<>>
      BY <1>9, <1>12, <3>1, DuplicatesAre
    <3> QED BY <1>4, <1>6, <2>1, <3>2
  <2>2. CASE len # 0
    <3>1. 1 \in 1..len /\ DOMAIN dups = 1..len
      BY <1>4, <2>2 DEF len
    <3>2. ToSet(dups) = {dups[x] : x \in 1..len}
      BY <3>1 DEF ToSet
    <3> QED BY <1>6, <1>14, <2>2, <3>1, <3>2
  <2> QED BY <2>1, <2>2
<1>16. AllRaw(e, InIndex(m + 1)) = AllRaw(d, p)
  BY <1>6, <1>10, <1>11, <1>15 DEF AllRaw, dups
<1> QED BY <1>6, <1>9, <1>10, <1>12, <1>13, <1>16 DEF e

\* The loop of rebuild, unfolded.
Copies(files, d) ==
  LET chain == Chain(d, d.hdr)
  IN  /\ Rebuilt(d) = files[Len(chain)]
      /\ files[0] = [hdr |-> IF d.hdr = Nil THEN Nil ELSE InIndex(1),
                     index |-> <<>>, aux |-> <<>>, dups |-> <<>>]
      /\ \A i \in 1..Len(chain) : files[i] = CopyRecord(d, files[i - 1], chain[i])

LEMMA CopyUnfolds ==
  ASSUME NEW d, Len(Chain(d, d.hdr)) \in Nat
  PROVE  \E files : Copies(files, d)
<1> DEFINE chain == Chain(d, d.hdr)
           n == Len(chain)
           Start == [hdr |-> IF d.hdr = Nil THEN Nil ELSE InIndex(1),
                     index |-> <<>>, aux |-> <<>>, dups |-> <<>>]
           Copy(f, i) == CopyRecord(d, f, chain[i])
           Solves(w) == w = [i \in 0..n |-> IF i = 0 THEN Start ELSE Copy(w[i - 1], i)]
           files == CHOOSE w : Solves(w)
           S == {m \in Nat : \E w : \A i \in 0..m : w[i] = IF i = 0 THEN Start ELSE Copy(w[i - 1], i)}
<1>1. Rebuilt(d) = files[n]
  BY DEF Rebuilt, CopiedBehind
<1> HIDE DEF Start, Copy
<1>2. 0 \in S
  <2> DEFINE w == [i \in 0..0 |-> Start]
  <2>1. w[0] = Start
    OBVIOUS
  <2>2. \A i \in 0..0 : i = 0
    OBVIOUS
  <2> HIDE DEF w
  <2> QED BY <2>1, <2>2
<1>3. ASSUME NEW m \in Nat, m \in S
      PROVE  m + 1 \in S
  <2>1. PICK w : \A i \in 0..m : w[i] = IF i = 0 THEN Start ELSE Copy(w[i - 1], i)
    BY <1>3
  <2> DEFINE v == [i \in 0..m + 1 |-> IF i = m + 1 THEN Copy(w[m], m + 1) ELSE w[i]]
  <2>2. ASSUME NEW i \in 0..m + 1
        PROVE  v[i] = IF i = 0 THEN Start ELSE Copy(v[i - 1], i)
    <3>1. CASE i = m + 1
      <4>1. i # 0 /\ i - 1 = m /\ v[i] = Copy(w[m], m + 1) /\ v[m] = w[m]
        BY <3>1
      <4> HIDE DEF v
      <4> QED BY <3>1, <4>1
    <3>2. CASE i \in 0..m
      <4>1. v[i] = w[i] /\ (i # 0 => v[i - 1] = w[i - 1])
        BY <3>2
      <4> HIDE DEF v
      <4> QED BY <2>1, <3>2, <4>1
    <3> QED BY <3>1, <3>2
  <2> HIDE DEF v
  <2> QED BY <2>2
<1>4. n \in S
  <2> HIDE DEF S, n
  <2>1. n \in Nat
    BY DEF n
  <2> QED BY <1>2, <1>3, <2>1, SetInduction
<1>5. Solves(files)
  <2>1. PICK w : \A i \in 0..n : w[i] = IF i = 0 THEN Start ELSE Copy(w[i - 1], i)
    BY <1>4
  <2> DEFINE v == [i \in 0..n |-> w[i]]
  <2>2. \A i \in 0..n : w[i] = IF i = 0 THEN Start ELSE Copy(v[i - 1], i)
    <3> SUFFICES ASSUME NEW i \in 0..n, i # 0
                 PROVE  v[i - 1] = w[i - 1]
      <4> HIDE DEF v
      <4> QED BY <2>1
    <3>1. i - 1 \in 0..n
      OBVIOUS
    <3> QED BY <3>1
  <2>3. Solves(v)
    <3>1. v = [i \in 0..n |-> w[i]]
      OBVIOUS
    <3> HIDE DEF v
    <3> QED BY <2>2, <3>1
  <2> HIDE DEF v, Solves
  <2> QED BY <2>3
<1> HIDE DEF files
<1>6. \A i \in 0..n : files[i] = IF i = 0 THEN Start ELSE Copy(files[i - 1], i)
  BY <1>5
<1>7. files[0] = Start
  <2>1. 0 \in 0..n
    OBVIOUS
  <2> QED BY <1>6, <2>1
<1>8. \A i \in 1..n : files[i] = Copy(files[i - 1], i)
  <2>1. \A i \in 1..n : i \in 0..n /\ i # 0
    OBVIOUS
  <2> QED BY <1>6, <2>1
<1>9. Copies(files, d)
  BY <1>1, <1>7, <1>8 DEF Copies, Start, Copy
<1> QED BY <1>9

\* rebuild makes an index file in order of the records in the chain, and loses
\* nothing of what they hold.
LEMMA RebuiltKeeps ==
  ASSUME NEW d, NEW linked, Linked(d, linked)
  PROVE  LET e == Rebuilt(d)
         IN  Good(e) /\ \A k \in Int : Content(e, Nodes(e), k) = Content(d, linked, k)
<1> DEFINE chain == Chain(d, d.hdr)
           n == Len(chain)
           e == Rebuilt(d)
<1>1. /\ d \in Disk /\ linked \subseteq Nodes(d) /\ Ordered(d, linked) /\ DupsLinked(d)
      /\ \A q \in linked : Rec(d, q).data \in Key
  BY DEF Linked
<1>2. d.hdr \in linked \union {Nil} /\ NextOf(d, Header) = d.hdr
  BY <1>1 DEF Ordered, NextOf
<1>3. /\ chain \in Seq(linked) /\ n \in Nat
      /\ chain = <<>> <=> d.hdr = Nil
      /\ chain # <<>> => chain[1] = d.hdr /\ Rec(d, chain[n]).next = Nil
      /\ \A i \in 1..n - 1 : chain[i + 1] = Rec(d, chain[i]).next
      /\ \A i, j \in 1..n : i < j => Rec(d, chain[i]).data < Rec(d, chain[j]).data
      /\ \A q \in linked : d.hdr # Nil /\ Rec(d, d.hdr).data <= Rec(d, q).data =>
           \E i \in 1..n : chain[i] = q
  BY <1>1, <1>2, ChainIs
<1>4. PICK files : Copies(files, d)
  BY <1>3, CopyUnfolds
<1>5. /\ e = files[n]
      /\ files[0] = [hdr |-> IF d.hdr = Nil THEN Nil ELSE InIndex(1),
                     index |-> <<>>, aux |-> <<>>, dups |-> <<>>]
      /\ \A i \in 1..n : files[i] = CopyRecord(d, files[i - 1], chain[i])
  BY <1>4 DEF Copies
<1> HIDE DEF chain, n, e
<1>6. /\ \A i \in 1..n : chain[i] \in linked /\ chain[i] \in Nodes(d)
      /\ chain = <<>> <=> n = 0
  BY <1>1, <1>3 DEF n
<1>7. \A q \in linked : q # Nil /\ Rec(d, q).data \in Int
  BY <1>1, NodeTyped
<1>8. ASSUME NEW i \in 1..n
      PROVE  Rec(d, chain[i]).next = Nil <=> i = n
  <2>1. CASE i = n
    BY <1>3, <1>6, <2>1
  <2>2. CASE i # n
    <3>1. i \in 1..n - 1 /\ i + 1 \in 1..n
      BY <1>3, <2>2
    <3> QED BY <1>3, <1>6, <1>7, <2>2, <3>1
  <2> QED BY <2>1, <2>2
<1> DEFINE Copied(f, m) ==
             /\ f \in Disk /\ f.aux = <<>> /\ Len(f.index) = m /\ DupsLinked(f)
             /\ f.hdr = IF n = 0 THEN Nil ELSE InIndex(1)
             /\ \A i \in 1..m : /\ f.index[i].data = Rec(d, chain[i]).data
                                /\ f.index[i].next = IF i = n THEN Nil ELSE InIndex(i + 1)
                                /\ AllRaw(f, InIndex(i)) = AllRaw(d, chain[i])
           S == {m \in Nat : m \in 0..n => Copied(files[m], m)}
<1>9. 0 \in S
  <2> DEFINE f == files[0]
  <2>1. f = [hdr |-> IF n = 0 THEN Nil ELSE InIndex(1), index |-> <<>>, aux |-> <<>>, dups |-> <<>>]
    BY <1>3, <1>5, <1>6
  <2>2. Nil \in Pointer /\ InIndex(1) \in Pointer
    BY DEF Nil, InIndex, Pointer
  <2> HIDE DEF f
  <2>3. f \in Disk
    BY <2>1, <2>2 DEF Disk
  <2>4. f.index = <<>> /\ f.aux = <<>> /\ f.dups = <<>> /\ f.hdr = IF n = 0 THEN Nil ELSE InIndex(1)
    BY <2>1
  <2>5. Len(f.index) = 0 /\ Len(f.aux) = 0 /\ Len(f.dups) = 0
    BY <2>4
  <2>6. DupsLinked(f)
    <3>1. Nodes(f) = {} /\ 1..Len(f.dups) = {}
      BY <2>5 DEF Nodes, IndexNodes, AuxNodes
    <3> QED BY <3>1 DEF DupsLinked
  <2>7. Copied(f, 0)
    BY <2>3, <2>4, <2>5, <2>6
  <2> HIDE DEF Copied
  <2> QED BY <2>7 DEF f
<1>10. ASSUME NEW m \in Nat, m \in S
       PROVE  m + 1 \in S
  <2> SUFFICES ASSUME m + 1 \in 0..n
               PROVE  Copied(files[m + 1], m + 1)
    OBVIOUS
  <2> DEFINE f == files[m]
             p == chain[m + 1]
             g == files[m + 1]
  <2>1. m \in 0..n /\ m + 1 \in 1..n /\ (m + 1) - 1 = m /\ (m + 1) + 1 = m + 2
    BY <1>3
  <2>2. Copied(f, m)
    BY <1>10, <2>1
  <2>3. g = CopyRecord(d, f, p) /\ p \in Nodes(d)
    BY <1>5, <1>6, <2>1
  <2>4. /\ f \in Disk /\ f.aux = <<>> /\ Len(f.index) = m /\ DupsLinked(f)
        /\ f.hdr = IF n = 0 THEN Nil ELSE InIndex(1)
        /\ \A i \in 1..m : /\ f.index[i].data = Rec(d, chain[i]).data
                           /\ f.index[i].next = IF i = n THEN Nil ELSE InIndex(i + 1)
                           /\ AllRaw(f, InIndex(i)) = AllRaw(d, chain[i])
    BY <2>2
  <2> HIDE DEF f, g
  <2>5. /\ g \in Disk /\ g.hdr = f.hdr /\ g.aux = <<>> /\ Len(g.index) = m + 1
        /\ DupsLinked(g)
        /\ \A i \in 1..m : g.index[i] = f.index[i] /\ AllRaw(g, InIndex(i)) = AllRaw(f, InIndex(i))
        /\ g.index[m + 1].data = Rec(d, p).data
        /\ g.index[m + 1].next = IF Rec(d, p).next = Nil THEN Nil ELSE InIndex(m + 2)
        /\ AllRaw(g, InIndex(m + 1)) = AllRaw(d, p)
    <3> HIDE DEF p
    <3> QED BY <1>1, <2>3, <2>4, CopyRecordKeeps
  <2>6. g.index[m + 1].next = IF m + 1 = n THEN Nil ELSE InIndex((m + 1) + 1)
    BY <1>8, <2>1, <2>5
  <2>7. ASSUME NEW i \in 1..m + 1
        PROVE  /\ g.index[i].data = Rec(d, chain[i]).data
               /\ g.index[i].next = IF i = n THEN Nil ELSE InIndex(i + 1)
               /\ AllRaw(g, InIndex(i)) = AllRaw(d, chain[i])
    <3>1. CASE i = m + 1
      BY <2>5, <2>6, <3>1
    <3>2. CASE i \in 1..m
      BY <2>4, <2>5, <3>2
    <3> QED BY <3>1, <3>2
  <2>8. Copied(g, m + 1)
    BY <2>4, <2>5, <2>7
  <2> HIDE DEF Copied
  <2> QED BY <2>8 DEF g
<1>11. Copied(e, n)
  <2>1. n \in S
    <3> HIDE DEF S
    <3> QED BY <1>3, <1>9, <1>10, SetInduction
  <2>2. n \in 0..n
    BY <1>3
  <2> HIDE DEF Copied
  <2> QED BY <1>5, <2>1, <2>2
<1>12. /\ e \in Disk /\ e.aux = <<>> /\ n = Len(e.index) /\ DupsLinked(e)
       /\ e.hdr = IF n = 0 THEN Nil ELSE InIndex(1)
       /\ \A i \in 1..n : /\ e.index[i].data = Rec(d, chain[i]).data
                          /\ e.index[i].next = IF i = n THEN Nil ELSE InIndex(i + 1)
                          /\ AllRaw(e, InIndex(i)) = AllRaw(d, chain[i])
  BY <1>11
<1>13. FileSorted(e)
  BY <1>3, <1>12 DEF FileSorted
<1>14. Ordered(e, Nodes(e)) /\ Nodes(e) = {InIndex(i) : i \in 1..n}
  <2>1. \A i \in 1..n : e.index[i].next = IF i = n THEN Nil ELSE InIndex(i + 1)
    BY <1>12
  <2> QED BY <1>12, <1>13, <2>1, FileOrder
<1>15. \A i \in 1..n : Rec(e, InIndex(i)) = e.index[i]
  BY DEF Rec, InIndex
<1>16. Good(e)
  <2>1. \A q \in Nodes(e) : Rec(e, q).data \in Key
    BY <1>1, <1>6, <1>12, <1>14, <1>15
  <2> QED BY <1>12, <1>13, <1>14, <2>1 DEF Good, Linked
<1>17. linked = {chain[i] : i \in 1..n}
  <2>1. ASSUME NEW q \in linked
        PROVE  \E i \in 1..n : chain[i] = q
    <3>1. d.hdr # Nil /\ Rec(d, d.hdr).data <= Rec(d, q).data
      <4>1. Precedes(d, Header, q)
        BY DEF Precedes
      <4> QED BY <1>1, <1>2, <4>1 DEF Ordered
    <3> QED BY <1>3, <3>1
  <2> QED BY <1>6, <2>1
<1>18. ASSUME NEW k \in Int
       PROVE  Content(e, Nodes(e), k) = Content(d, linked, k)
  <2> DEFINE I == {i \in 1..n : Rec(d, chain[i]).data = k}
  <2>1. {q \in Nodes(e) : Rec(e, q).data = k} = {InIndex(i) : i \in I}
    BY <1>12, <1>14, <1>15
  <2>2. {q \in linked : Rec(d, q).data = k} = {chain[i] : i \in I}
    BY <1>17
  <2>3. {AllRaw(e, q) : q \in {InIndex(i) : i \in I}} = {AllRaw(d, q) : q \in {chain[i] : i \in I}}
    <3>1. \A i \in I : AllRaw(e, InIndex(i)) = AllRaw(d, chain[i])
      BY <1>12
    <3> HIDE DEF I
    <3> QED BY <3>1
  <2> QED BY <2>1, <2>2, <2>3 DEF Content
<1> QED BY <1>16, <1>18 DEF e

-----------------------------------------------------------------------------
(* add.                                                                     *)

\* What add answers and leaves, as its caller may rely on.
AddPromised(d, key, raw, a) ==
  \/ /\ a.outcome = "duplicate" /\ a.disk = d
     /\ PK /\ Content(d, Nodes(d), key) # {}
  \/ /\ a.outcome = "ok" /\ Good(a.disk)
     /\ ~ (PK /\ Content(d, Nodes(d), key) # {})
     /\ ContentSet(a.disk, Nodes(a.disk), d, Nodes(d), key, Content(d, Nodes(d), key) \union {raw})

\* The first record.
LEMMA FirstRecordKeeps ==
  ASSUME NEW d, Good(d), Len(d.index) = 0, NEW key \in Key, NEW raw \in Position
  PROVE  AddPromised(d, key, raw,
           Result([hdr |-> InIndex(1), index |-> <<NewRecord(key, raw, Nil)>>,
                   aux |-> d.aux, dups |-> d.dups], "ok"))
<1> DEFINE rec == NewRecord(key, raw, Nil)
           e == [hdr |-> InIndex(1), index |-> <<rec>>, aux |-> d.aux, dups |-> d.dups]
<1>1. /\ d \in Disk /\ DupsLinked(d) /\ d.aux = <<>>
  BY EmptyFile DEF Good, Linked
<1>2. rec \in Entry /\ rec.data = key /\ rec.raw = raw /\ rec.dup = 0 /\ rec.next = Nil
  BY SeqIndexAssumption DEF NewRecord, Entry, Nil, InIndex, Pointer
<1> HIDE DEF rec
<1>3. InIndex(1) \in Pointer
  BY DEF InIndex, Pointer
<1>4. <<rec>> \in Seq(Entry) /\ Len(<<rec>>) = 1 /\ <<rec>>[1] = rec
  BY <1>2
<1>5. e \in Disk
  BY <1>1, <1>3, <1>4, DiskTyped DEF Disk
<1>6. /\ e.hdr = InIndex(1) /\ Len(e.index) = 1 /\ e.index[1] = rec /\ e.aux = <<>>
      /\ e.dups = d.dups /\ e.index # <<>>
  BY <1>1, <1>4
<1> HIDE DEF e
<1>7. FileSorted(e)
  BY <1>6 DEF FileSorted
<1>8. Ordered(e, Nodes(e)) /\ Nodes(e) = {InIndex(1)}
  <2>1. \A i \in 1..1 : i = 1
    OBVIOUS
  <2>2. \A i \in 1..1 : e.index[i].next = IF i = 1 THEN Nil ELSE InIndex(i + 1)
    BY <1>2, <1>6, <2>1
  <2>3. Ordered(e, Nodes(e)) /\ Nodes(e) = {InIndex(i) : i \in 1..1}
    <3>1. 1 = Len(e.index) /\ e.hdr = IF 1 = 0 THEN Nil ELSE InIndex(1)
      BY <1>6
    <3>2. \A n : n = 1 => Ordered(e, Nodes(e)) /\ Nodes(e) = {InIndex(i) : i \in 1..n}
      <4> SUFFICES ASSUME NEW n, n = 1
                   PROVE  Ordered(e, Nodes(e)) /\ Nodes(e) = {InIndex(i) : i \in 1..n}
        OBVIOUS
      <4>1. n = Len(e.index) /\ e.hdr = IF n = 0 THEN Nil ELSE InIndex(1)
        BY <3>1
      <4>2. \A i \in 1..n : e.index[i].next = IF i = n THEN Nil ELSE InIndex(i + 1)
        BY <2>2
      <4> QED BY <1>5, <1>6, <1>7, <4>1, <4>2, FileOrder
    <3> QED BY <3>2
  <2> QED BY <2>1, <2>3
<1>9. Rec(e, InIndex(1)) = rec
  BY <1>6 DEF Rec, InIndex
<1>10. DupsLinked(e)
  <2>1. 0 \in 0..Len(d.dups)
    BY <1>1, DiskTyped
  <2> QED BY <1>1, <1>2, <1>6, <1>8, <1>9, <2>1, DupsLinkedKept
<1>11. Good(e)
  BY <1>2, <1>5, <1>6, <1>7, <1>8, <1>9, <1>10 DEF Good, Linked
<1>12. \A k : Content(d, Nodes(d), k) = {}
  <2>1. Len(d.aux) = 0
    BY <1>1
  <2>2. Nodes(d) = {}
    BY <2>1 DEF Nodes, IndexNodes, AuxNodes
  <2> QED BY <2>2 DEF Content
<1>13. AllRaw(e, InIndex(1)) = {raw}
  <2>1. 0 \in 0..Len(e.dups)
    BY <1>5, DiskTyped
  <2>2. Duplicates(e, 0) = <<>>
    BY <1>5, <1>10, <2>1, DuplicatesAre
  <2> QED BY <1>2, <1>9, <2>2 DEF AllRaw, ToSet
<1>14. ASSUME NEW k \in Int
       PROVE  Content(e, Nodes(e), k) = IF k = key THEN {raw} ELSE {}
  <2>1. {q \in Nodes(e) : Rec(e, q).data = k} = IF k = key THEN {InIndex(1)} ELSE {}
    BY <1>2, <1>8, <1>9
  <2> QED BY <1>13, <2>1 DEF Content
<1>15. ContentSet(e, Nodes(e), d, Nodes(d), key, Content(d, Nodes(d), key) \union {raw})
  BY <1>12, <1>14 DEF ContentSet
<1> QED BY <1>11, <1>12, <1>15 DEF AddPromised, Result, e, rec

LEMMA InsertDuplicateKeeps ==
  ASSUME NEW d, Good(d), PK \in BOOLEAN, NEW p \in Nodes(d), NEW raw \in Position
  PROVE  AddPromised(d, Rec(d, p).data, raw, InsertDuplicate(d, p, raw))
<1> DEFINE key == Rec(d, p).data
           e == WithDuplicate(d, p, raw)
<1>1. /\ Good(e) /\ Content(d, Nodes(d), key) # {}
      /\ ContentSet(e, Nodes(e), d, Nodes(d), key, Content(d, Nodes(d), key) \union {raw})
  BY DuplicateKeeps
<1> HIDE DEF e, key
<1>2. CASE PK
  BY <1>1, <1>2 DEF AddPromised, InsertDuplicate, Result, key
<1>3. CASE ~ PK
  BY <1>1, <1>3 DEF AddPromised, InsertDuplicate, Result, key, e
<1> QED BY <1>2, <1>3

\* A key the binary search has not found hangs from the record of its gap.
LEMMA HangsFromGap ==
  ASSUME NEW d \in Disk, NEW key, NEW b, Finds(d, key, b), b.location # "REC_CUR"
  PROVE  /\ b.location # "EMPTY_FILE" /\ b.location \in {"REC_PREV", "REC_NEXT"}
         /\ \E i \in 0..Len(d.index) : /\ HangsFrom(b) = At(i) /\ InGap(d, i, key)
                                       /\ b.header <=> i = 0
                                       /\ i = 0 => b.at = 1
<1>1. PICK at \in 1..Len(d.index) :
        \/ b = Response("REC_PREV", at) /\ InGap(d, at - 1, key)
        \/ b = Response("REC_NEXT", at) /\ InGap(d, at, key)
  BY DEF Finds, Response
<1>2. Len(d.index) \in Nat
  BY DiskTyped
<1>3. at \in 0..Len(d.index) /\ at - 1 \in 0..Len(d.index) /\ (at - 1 = 0 <=> at = 1) /\ at # 0
  BY <1>2
<1>4. CASE b = Response("REC_PREV", at) /\ InGap(d, at - 1, key)
  <2>1. b.location = "REC_PREV" /\ b.at = at /\ (b.header <=> at = 1)
    BY <1>4 DEF Response
  <2>2. HangsFrom(b) = At(at - 1)
    BY <1>3, <2>1 DEF HangsFrom, At
  <2> QED BY <1>3, <1>4, <2>1, <2>2
<1>5. CASE b = Response("REC_NEXT", at) /\ InGap(d, at, key)
  <2>1. b.location = "REC_NEXT" /\ b.at = at /\ ~ b.header
    BY <1>5 DEF Response
  <2>2. HangsFrom(b) = At(at)
    BY <1>3, <2>1 DEF HangsFrom, At
  <2> QED BY <1>3, <1>5, <2>1, <2>2
<1> QED BY <1>1, <1>4, <1>5

\* A key goes between the overflow records of its gap, unless it comes before the
\* first one of the header.
LEMMA InsertOverflowKeeps ==
  ASSUME NEW d, Good(d), PK \in BOOLEAN, d.index # <<>>, NEW key \in Key, NEW raw \in Position,
         NEW i \in 0..Len(d.index), InGap(d, i, key), Overflow(d, At(i)) # <<>>,
         i = 0 => Rec(d, Overflow(d, At(i))[1]).data <= key
  PROVE  AddPromised(d, key, raw, InsertOverflow(d, At(i), key, raw))
<1> DEFINE over == Overflow(d, At(i))
           len == Len(over)
           below == {j \in DOMAIN over : Rec(d, over[j]).data < key}
           same == {p \in ToSet(over) : Rec(d, p).data = key}
           last == IF below = {} THEN At(i) ELSE over[Max(below)]
           a == InsertOverflow(d, At(i), key, raw)
<1>1. d \in Disk /\ (\A q \in AuxNodes(d) : q \in Nodes(d)) /\ key \in Int
  BY SeqIndexAssumption DEF Good, Linked, Nodes
<1>2. /\ over \in Seq(AuxNodes(d)) /\ len \in Nat
      /\ \A j \in 1..len : NextOf(d, Pred(d, i, j)) = over[j]
      /\ NextOf(d, Pred(d, i, len + 1)) = Above(d, i)
  BY OverflowOfFile
<1>3. /\ At(i) \in Nodes(d) \union {Header}
      /\ i = 0 <=> At(i) = Header
      /\ i # 0 => Rec(d, At(i)) = d.index[i]
      /\ i # Len(d.index) => Rec(d, InIndex(i + 1)) = d.index[i + 1]
  BY <1>1, AtIsNode
<1>4. a = IF same # {} THEN InsertDuplicate(d, CHOOSE p \in same : TRUE, raw)
          ELSE IF At(i) = Header /\ below = {} THEN InsertBeforeFirstOverflow(d, key, raw)
          ELSE InsertAfter(d, last, key, raw)
  BY DEF InsertOverflow
<1>5. len # 0 /\ DOMAIN over = 1..len /\ (\A j \in 1..len : over[j] \in Nodes(d))
      /\ (\A j \in 1..len : Rec(d, over[j]).data \in Int)
      /\ ToSet(over) = {over[j] : j \in 1..len}
  <2>1. len # 0 /\ DOMAIN over = 1..len /\ (\A j \in 1..len : over[j] \in Nodes(d))
    BY <1>1, <1>2
  <2>2. \A q \in Nodes(d) : Rec(d, q).data \in Int
    BY <1>1, NodeTyped
  <2> QED BY <2>1, <2>2 DEF ToSet
<1> HIDE DEF over, len, a
<1>6. CASE same # {}
  <2> DEFINE p == CHOOSE q \in same : TRUE
  <2>1. p \in same
    BY <1>6
  <2>2. p \in Nodes(d) /\ Rec(d, p).data = key
    BY <1>5, <2>1
  <2>3. a = InsertDuplicate(d, p, raw)
    BY <1>4, <1>6
  <2> HIDE DEF p
  <2> QED BY <2>2, <2>3, InsertDuplicateKeeps DEF a
<1>7. CASE same = {}
  <2>1. \A j \in 1..len : Rec(d, over[j]).data # key
    BY <1>5, <1>7
  <2>2. below # {} \/ At(i) # Header
    <3> SUFFICES ASSUME i = 0
                 PROVE  1 \in below
      BY <1>3
    <3>1. 1 \in 1..len
      BY <1>2, <1>5
    <3>2. Rec(d, over[1]).data < key
      BY <1>1, <1>5, <2>1, <3>1 DEF over
    <3> QED BY <1>5, <3>1, <3>2
  <2>3. a = InsertAfter(d, last, key, raw)
    BY <1>4, <1>7, <2>2
  <2> DEFINE x == IF below = {} THEN 0 ELSE Max(below)
  <2>4. below # {} => Max(below) \in below /\ \A j \in below : j <= Max(below)
    <3>1. below \subseteq 0..len
      BY <1>2, <1>5
    <3> HIDE DEF below
    <3> QED BY <1>2, <3>1, MaxIsGreatest
  <2>5. /\ x \in 0..len /\ (\A j \in 1..len : j > x => key < Rec(d, over[j]).data)
        /\ x # 0 => Rec(d, over[x]).data < key /\ last = over[x]
        /\ x = 0 => last = At(i)
    <3>1. CASE below = {}
      <4>1. \A j \in 1..len : key < Rec(d, over[j]).data
        BY <1>1, <1>5, <2>1, <3>1
      <4> QED BY <1>2, <3>1, <4>1
    <3>2. CASE below # {}
      <4>1. x = Max(below) /\ x \in below /\ \A j \in below : j <= x
        BY <2>4, <3>2
      <4> HIDE DEF x
      <4>2. x \in 1..len /\ Rec(d, over[x]).data < key /\ last = over[x]
        BY <1>5, <3>2, <4>1
      <4>3. ASSUME NEW j \in 1..len, j > x
            PROVE  key < Rec(d, over[j]).data
        <5>1. j \notin below
          <6> HIDE DEF below
          <6>1. x \in Nat /\ ~ (j <= x)
            BY <1>2, <4>2, <4>3
          <6> QED BY <4>1, <6>1
        <5> QED BY <1>1, <1>5, <2>1, <5>1
      <4> QED BY <1>2, <4>2, <4>3
    <3> QED BY <3>1, <3>2
  <2> HIDE DEF x, last
  <2>6. last = Pred(d, i, x + 1)
    <3>1. (x + 1 = 1 <=> x = 0) /\ (x + 1) - 1 = x
      BY <1>2, <2>5
    <3> QED BY <2>5, <3>1 DEF Pred, over
  <2>7. last \in Nodes(d) \union {Header} /\ (last = Header \/ Rec(d, last).data < key)
    <3>1. CASE x = 0
      BY <1>3, <2>5, <3>1 DEF InGap
    <3>2. CASE x # 0
      <4>1. x \in 1..len
        BY <1>2, <2>5, <3>2
      <4> QED BY <1>5, <2>5, <3>2, <4>1
    <3> QED BY <3>1, <3>2
  <2>8. NextOf(d, last) = Nil \/ key < Rec(d, NextOf(d, last)).data
    <3>1. CASE x = len
      <4>1. NextOf(d, last) = Above(d, i)
        BY <1>2, <2>6, <3>1
      <4> QED BY <1>3, <4>1 DEF Above, InGap
    <3>2. CASE x # len
      <4>1. x + 1 \in 1..len /\ x + 1 > x
        BY <1>2, <2>5, <3>2
      <4>2. NextOf(d, last) = over[x + 1]
        BY <1>2, <2>6, <4>1
      <4> QED BY <2>5, <4>1, <4>2
    <3> QED BY <3>1, <3>2
  <2>9. /\ a.outcome = "ok" /\ Good(a.disk) /\ Content(d, Nodes(d), key) = {}
        /\ ContentSet(a.disk, Nodes(a.disk), d, Nodes(d), key, {raw})
    BY <2>3, <2>7, <2>8, InsertAfterKeeps
  <2>10. {raw} = Content(d, Nodes(d), key) \union {raw}
    BY <2>9
  <2> QED BY <2>9, <2>10 DEF AddPromised, a
<1> QED BY <1>6, <1>7

LEMMA AddedKeeps ==
  ASSUME NEW d, Good(d), PK \in BOOLEAN, NEW key \in Key, NEW raw \in Position,
         d.hdr.file = "aux" => d.index[1].data <= key \/ Rec(d, d.hdr).data <= key
  PROVE  AddPromised(d, key, raw, Added(d, key, raw))
<1> DEFINE b == BinarySearch(d, key)
           n == Len(d.index)
           a == Added(d, key, raw)
<1>1. d \in Disk /\ FileSorted(d) /\ key \in Int /\ n \in Nat
  BY DiskTyped, SeqIndexAssumption DEF Good, Linked
<1>2. IF n = 0 THEN b = Response("EMPTY_FILE", 0) ELSE Finds(d, key, b)
  BY <1>1, BinarySearchIs
<1>3. /\ b.location = "EMPTY_FILE" =>
           a = Result([hdr |-> InIndex(1), index |-> <<NewRecord(key, raw, Nil)>>,
                       aux |-> d.aux, dups |-> d.dups], "ok")
      /\ b.location = "REC_CUR" => a = InsertDuplicate(d, InIndex(b.at), raw)
      /\ b.location \notin {"EMPTY_FILE", "REC_CUR"} =>
           a = IF Overflow(d, HangsFrom(b)) = <<>> THEN InsertAfter(d, HangsFrom(b), key, raw)
               ELSE InsertOverflow(d, HangsFrom(b), key, raw)
  BY DEF Added
<1> HIDE DEF b, a
<1>4. CASE n = 0
  <2>1. b.location = "EMPTY_FILE"
    BY <1>2, <1>4 DEF Response
  <2> QED BY <1>3, <1>4, <2>1, FirstRecordKeeps DEF a
<1>5. CASE n # 0 /\ b.location = "REC_CUR"
  <2>1. PICK at \in 1..n : b = Response("REC_CUR", at) /\ d.index[at].data = key
    BY <1>2, <1>5 DEF Finds, Response
  <2>2. b.at = at /\ b.location # "EMPTY_FILE"
    BY <2>1 DEF Response
  <2>3. InIndex(at) \in Nodes(d) /\ Rec(d, InIndex(at)).data = key
    BY <2>1 DEF Nodes, IndexNodes, InIndex, Rec
  <2> QED BY <1>3, <1>5, <2>2, <2>3, InsertDuplicateKeeps DEF a
<1>6. CASE n # 0 /\ b.location # "REC_CUR"
  <2>1. b.location \notin {"EMPTY_FILE", "REC_CUR"} /\ \E i \in 0..n : HangsFrom(b) = At(i) /\ InGap(d, i, key)
    BY <1>1, <1>2, <1>6, HangsFromGap
  <2>2. PICK i \in 0..n : HangsFrom(b) = At(i) /\ InGap(d, i, key)
    BY <2>1
  <2> DEFINE over == Overflow(d, At(i))
  <2>3. a = IF over = <<>> THEN InsertAfter(d, At(i), key, raw) ELSE InsertOverflow(d, At(i), key, raw)
    BY <1>3, <2>1, <2>2
  <2>4. d.index # <<>>
    BY <1>1, <1>6, EmptyFile
  <2>5. /\ over \in Seq(AuxNodes(d)) /\ Len(over) \in Nat
        /\ \A j \in 1..Len(over) : NextOf(d, Pred(d, i, j)) = over[j]
        /\ NextOf(d, Pred(d, i, Len(over) + 1)) = Above(d, i)
    BY OverflowOfFile
  <2>6. /\ At(i) \in Nodes(d) \union {Header}
        /\ i = 0 <=> At(i) = Header
        /\ i # 0 => Rec(d, At(i)) = d.index[i]
        /\ i # n => Rec(d, InIndex(i + 1)) = d.index[i + 1]
    BY <1>1, AtIsNode
  <2>7. CASE over = <<>>
    <3>1. NextOf(d, At(i)) = Above(d, i)
      <4>1. Len(over) = 0
        BY <2>7
      <4>2. Pred(d, i, 0 + 1) = At(i)
        BY DEF Pred
      <4> HIDE DEF over
      <4> QED BY <2>5, <4>1, <4>2
    <3>2. At(i) = Header \/ Rec(d, At(i)).data < key
      BY <2>2, <2>6 DEF InGap
    <3>3. NextOf(d, At(i)) = Nil \/ key < Rec(d, NextOf(d, At(i))).data
      BY <2>2, <2>6, <3>1 DEF InGap, Above
    <3>4. /\ a.outcome = "ok" /\ Good(a.disk) /\ Content(d, Nodes(d), key) = {}
          /\ ContentSet(a.disk, Nodes(a.disk), d, Nodes(d), key, {raw})
      <4>1. a = InsertAfter(d, At(i), key, raw)
        BY <2>3, <2>7
      <4> QED BY <2>4, <2>6, <3>2, <3>3, <4>1, InsertAfterKeeps
    <3>5. {raw} = Content(d, Nodes(d), key) \union {raw}
      BY <3>4
    <3> QED BY <3>4, <3>5 DEF AddPromised, a
  <2>8. CASE over # <<>>
    <3>1. ASSUME i = 0
          PROVE  Rec(d, over[1]).data <= key
      <4> HIDE DEF over
      <4>1. Len(over) # 0 /\ 1 \in 1..Len(over)
        BY <2>5, <2>8
      <4>2. over[1] = d.hdr /\ over[1] \in AuxNodes(d)
        <5>1. Pred(d, i, 1) = Header
          BY <2>6, <3>1 DEF Pred
        <5> QED BY <2>5, <4>1, <5>1 DEF NextOf
      <4>3. d.hdr.file = "aux"
        BY <4>2 DEF AuxNodes, InAux
      <4>4. key < d.index[1].data /\ d.index[1].data \in Int
        <5>1. 0 # n /\ 1 \in 1..n /\ d.index \in Seq(Entry)
          BY <1>1, <1>6, DiskTyped
        <5>2. d.index[1] \in Entry
          BY <5>1, ElementOfSeq
        <5> QED BY <2>2, <3>1, <5>1, <5>2 DEF InGap, Entry
      <4> QED BY <1>1, <4>2, <4>3, <4>4
    <3> QED BY <2>2, <2>3, <2>4, <2>8, <3>1, InsertOverflowKeeps DEF a
  <2> QED BY <2>7, <2>8
<1> QED BY <1>4, <1>5, <1>6

-----------------------------------------------------------------------------
(* remove.                                                                  *)

\* A record with a key of the gap is among the overflow records there.
LEMMA GapContent ==
  ASSUME NEW d, Good(d), NEW key \in Int, NEW i \in 0..Len(d.index), InGap(d, i, key),
         NEW q \in Nodes(d), Rec(d, q).data = key
  PROVE  \E j \in 1..Len(Overflow(d, At(i))) : Overflow(d, At(i))[j] = q
<1> DEFINE n == Len(d.index)
           data(j) == d.index[j].data
<1>1. d \in Disk /\ n \in Nat /\ i \in 0..n
  BY DiskTyped DEF Good, Linked
<1>2. q \notin IndexNodes(d)
  <2> SUFFICES ASSUME q \in IndexNodes(d)
               PROVE  FALSE
    OBVIOUS
  <2>1. PICK j \in 1..n : q = InIndex(j)
    BY DEF IndexNodes
  <2>2. data(j) = key
    BY <2>1 DEF InIndex, Rec
  <2>3. /\ \A k, l \in 1..n : k < l => data(k) < data(l)
        /\ i # 0 => data(i) < key
        /\ i # n => key < data(i + 1)
    BY DEF Good, FileSorted, InGap
  <2>4. \A k \in 1..n : data(k) \in Int
    <3>1. \A k \in 1..n : d.index[k] \in Entry
      <4>1. d.index \in Seq(Entry)
        BY <1>1, DiskTyped
      <4> QED BY <4>1, ElementOfSeq
    <3> QED BY <3>1 DEF Entry
  <2> HIDE DEF n, data
  <2>5. CASE j <= i
    <3>1. i \in 1..n /\ (j = i \/ j < i)
      BY <1>1, <2>5
    <3>2. data(j) = data(i) \/ data(j) < data(i)
      BY <2>3, <3>1
    <3> QED BY <2>2, <2>3, <2>4, <3>1, <3>2
  <2>6. CASE ~ (j <= i)
    <3>1. i # n /\ i + 1 \in 1..n /\ (j = i + 1 \/ i + 1 < j)
      BY <1>1, <2>6
    <3>2. data(j) = data(i + 1) \/ data(i + 1) < data(j)
      BY <2>3, <3>1
    <3> QED BY <2>2, <2>3, <2>4, <3>1, <3>2
  <2> QED BY <2>5, <2>6
<1>3. q \in AuxNodes(d) /\ InGap(d, i, Rec(d, q).data)
  BY <1>2 DEF Nodes
<1> QED BY <1>3, OverflowOfFile

\* What remove answers and leaves for rebuild.
RemovePromised(d, key, e) ==
  \/ e.outcome = "absent" /\ e.disk = d /\ Content(d, Nodes(d), key) = {}
  \/ /\ e.outcome = "ok" /\ Content(d, Nodes(d), key) # {}
     /\ \E linked : Linked(e.disk, linked) /\ ContentSet(e.disk, linked, d, Nodes(d), key, {})

LEMMA NoRecordNoContent ==
  ASSUME NEW d, NEW key, \A q \in Nodes(d) : Rec(d, q).data # key
  PROVE  Content(d, Nodes(d), key) = {}
BY DEF Content

LEMMA UnlinkPromised ==
  ASSUME NEW d, Good(d), NEW p \in Nodes(d) \union {Header}, NEW q \in Nodes(d), NextOf(d, p) = q
  PROVE  RemovePromised(d, Rec(d, q).data, Result(SetNext(d, p, Rec(d, q).next), "ok"))
<1> DEFINE e == SetNext(d, p, Rec(d, q).next)
           key == Rec(d, q).data
<1>1. /\ Linked(e, Nodes(d) \ {q}) /\ Content(d, Nodes(d), key) # {}
      /\ ContentSet(e, Nodes(d) \ {q}, d, Nodes(d), key, {})
  BY UnlinkKeeps
<1> HIDE DEF e, key
<1>2. RemovePromised(d, key, Result(e, "ok"))
  BY <1>1 DEF RemovePromised, Result
<1> QED BY <1>2 DEF e, key

\* Where nothing was misread, the key is said to be absent.
LEMMA BelowFirstAbsent ==
  ASSUME NEW d, NEW key, ErasedBelowFirst(d, key).outcome # "misread"
  PROVE  ErasedBelowFirst(d, key) = Result(d, "absent")
BY DEF ErasedBelowFirst, Result

LEMMA ErasedKeeps ==
  ASSUME NEW d, Good(d), NEW key \in Key, Erased(d, key).outcome # "misread",
         \A p \in ToSet(Overflow(d, Header)) : Rec(d, p).data # key
  PROVE  RemovePromised(d, key, Erased(d, key))
<1> DEFINE b == BinarySearch(d, key)
           n == Len(d.index)
           e == Erased(d, key)
           absent == Result(d, "absent")
<1>1. d \in Disk /\ FileSorted(d) /\ key \in Int /\ n \in Nat
  BY DiskTyped, SeqIndexAssumption DEF Good, Linked
<1>2. IF n = 0 THEN b = Response("EMPTY_FILE", 0) ELSE Finds(d, key, b)
  BY <1>1, BinarySearchIs
<1>3. /\ b.location = "EMPTY_FILE" => e = absent
      /\ b.location = "REC_CUR" =>
           e = Result(UnlinkAfter(d, IF b.at = 1 THEN Header ELSE InIndex(b.at - 1), InIndex(b.at)), "ok")
      /\ b.location \notin {"EMPTY_FILE", "REC_CUR"} =>
           e = IF b.header THEN absent ELSE UnlinkOverflow(d, HangsFrom(b), key)
  <2>1. /\ b.location = "EMPTY_FILE" => e = absent
        /\ b.location = "REC_CUR" =>
             e = Result(UnlinkAfter(d, IF b.at = 1 THEN Header ELSE InIndex(b.at - 1), InIndex(b.at)), "ok")
        /\ b.location \notin {"EMPTY_FILE", "REC_CUR"} =>
             e = IF b.header THEN ErasedBelowFirst(d, key) ELSE UnlinkOverflow(d, HangsFrom(b), key)
    BY DEF Erased
  <2> HIDE DEF b
  <2> QED BY <2>1, BelowFirstAbsent
<1>4. \A i \in 0..n : LET over == Overflow(d, At(i)) IN
        /\ over \in Seq(AuxNodes(d)) /\ Len(over) \in Nat
        /\ \A j \in 1..Len(over) : NextOf(d, Pred(d, i, j)) = over[j] /\ over[j] \in Nodes(d)
        /\ NextOf(d, Pred(d, i, Len(over) + 1)) = Above(d, i)
        /\ At(i) \in Nodes(d) \union {Header}
        /\ \A j \in 1..Len(over) + 1 : Pred(d, i, j) \in Nodes(d) \union {Header}
  <2> SUFFICES ASSUME NEW i \in 0..n
               PROVE  LET over == Overflow(d, At(i)) IN
        /\ over \in Seq(AuxNodes(d)) /\ Len(over) \in Nat
        /\ \A j \in 1..Len(over) : NextOf(d, Pred(d, i, j)) = over[j] /\ over[j] \in Nodes(d)
        /\ NextOf(d, Pred(d, i, Len(over) + 1)) = Above(d, i)
        /\ At(i) \in Nodes(d) \union {Header}
        /\ \A j \in 1..Len(over) + 1 : Pred(d, i, j) \in Nodes(d) \union {Header}
    OBVIOUS
  <2> DEFINE over == Overflow(d, At(i))
  <2>1. /\ over \in Seq(AuxNodes(d)) /\ Len(over) \in Nat
        /\ \A j \in 1..Len(over) : NextOf(d, Pred(d, i, j)) = over[j]
        /\ NextOf(d, Pred(d, i, Len(over) + 1)) = Above(d, i)
    BY OverflowOfFile
  <2>2. At(i) \in Nodes(d) \union {Header}
    BY <1>1, AtIsNode
  <2>3. \A j \in 1..Len(over) : over[j] \in Nodes(d)
    BY <2>1, ElementOfSeq DEF Nodes
  <2>4. ASSUME NEW j \in 1..Len(over) + 1
        PROVE  Pred(d, i, j) \in Nodes(d) \union {Header}
    <3>1. j # 1 => j - 1 \in 1..Len(over)
      BY <2>1
    <3> QED BY <2>2, <2>3, <3>1 DEF Pred
  <2> QED BY <2>1, <2>2, <2>3, <2>4
<1> HIDE DEF b, e
<1>5. CASE n = 0
  <2>1. e = absent
    BY <1>2, <1>3, <1>5 DEF Response
  <2>2. Nodes(d) = {}
    <3>1. d.aux = <<>>
      BY <1>1, <1>5, EmptyFile DEF Good
    <3>2. Len(d.aux) = 0
      BY <3>1
    <3> QED BY <1>5, <3>2 DEF Nodes, IndexNodes, AuxNodes
  <2> QED BY <2>1, <2>2, NoRecordNoContent DEF RemovePromised, Result, e
<1>6. CASE n # 0 /\ b.location = "REC_CUR"
  <2>1. PICK at \in 1..n : b = Response("REC_CUR", at) /\ d.index[at].data = key
    BY <1>2, <1>6 DEF Finds, Response
  <2> DEFINE i == at - 1
             over == Overflow(d, At(i))
             q == InIndex(at)
             p == IF over = <<>> THEN At(i) ELSE Last(over)
  <2>2. i \in 0..n /\ i # n /\ i + 1 = at /\ (at = 1 <=> i = 0)
    BY <1>1
  <2>3. e = Result(SetNext(d, p, Rec(d, q).next), "ok")
    <3>1. b.at = at /\ At(i) = IF b.at = 1 THEN Header ELSE InIndex(b.at - 1)
      BY <2>1, <2>2 DEF Response, At
    <3>2. e = Result(UnlinkAfter(d, At(i), q), "ok")
      BY <1>3, <1>6, <3>1
    <3> QED BY <3>2 DEF UnlinkAfter
  <2>4. q \in Nodes(d) /\ Rec(d, q).data = key
    BY <2>1 DEF Nodes, IndexNodes, InIndex, Rec
  <2>5. p = Pred(d, i, Len(over) + 1)
    <3>1. Len(over) \in Nat /\ over \in Seq(AuxNodes(d))
      BY <1>4, <2>2
    <3>2. (over = <<>> <=> Len(over) + 1 = 1) /\ (Len(over) + 1) - 1 = Len(over)
      BY <3>1
    <3> QED BY <3>2 DEF Pred, Last
  <2>6. NextOf(d, p) = q /\ p \in Nodes(d) \union {Header}
    <3>1. /\ Len(over) \in Nat
          /\ NextOf(d, Pred(d, i, Len(over) + 1)) = Above(d, i)
          /\ \A j \in 1..Len(over) + 1 : Pred(d, i, j) \in Nodes(d) \union {Header}
      BY <1>4, <2>2
    <3>2. Len(over) + 1 \in 1..Len(over) + 1
      BY <3>1
    <3> HIDE DEF p, over
    <3> QED BY <2>2, <2>5, <3>1, <3>2 DEF Above
  <2> HIDE DEF p, q
  <2> QED BY <2>3, <2>4, <2>6, UnlinkPromised DEF e
<1>7. CASE n # 0 /\ b.location # "REC_CUR"
  <2>1. /\ b.location \notin {"EMPTY_FILE", "REC_CUR"}
        /\ \E i \in 0..n : HangsFrom(b) = At(i) /\ InGap(d, i, key) /\ (b.header <=> i = 0)
    BY <1>1, <1>2, <1>7, HangsFromGap
  <2>2. PICK i \in 0..n : HangsFrom(b) = At(i) /\ InGap(d, i, key) /\ (b.header <=> i = 0)
    BY <2>1
  <2> DEFINE over == Overflow(d, At(i))
             len == Len(over)
  <2>3. e = IF i = 0 THEN absent ELSE UnlinkOverflow(d, At(i), key)
    BY <1>3, <2>1, <2>2
  <2>4. /\ over \in Seq(AuxNodes(d)) /\ len \in Nat
        /\ \A j \in 1..len : NextOf(d, Pred(d, i, j)) = over[j] /\ over[j] \in Nodes(d)
        /\ \A j \in 1..len + 1 : Pred(d, i, j) \in Nodes(d) \union {Header}
    BY <1>4
  <2>5. ASSUME \A j \in 1..len : Rec(d, over[j]).data # key
        PROVE  Content(d, Nodes(d), key) = {}
    <3>1. \A q \in Nodes(d) : Rec(d, q).data # key
      BY <1>1, <2>2, <2>5, GapContent
    <3> QED BY <3>1, NoRecordNoContent
  <2>6. CASE i = 0
    <3>1. over = Overflow(d, Header)
      BY <2>6 DEF At
    <3>2. \A j \in 1..len : over[j] \in ToSet(over)
      BY <2>4 DEF ToSet
    <3>3. Content(d, Nodes(d), key) = {}
      BY <2>5, <3>1, <3>2
    <3> QED BY <2>3, <2>6, <3>3 DEF RemovePromised, Result, e
  <2>7. CASE i # 0
    <3> DEFINE path == <<At(i)>> \o over
               at == {j \in 2..Len(path) : Rec(d, path[j]).data = key}
               j == CHOOSE k \in at : TRUE
    <3>1. e = IF at = {} THEN absent
              ELSE Result(SetNext(d, path[j - 1], Rec(d, path[j]).next), "ok")
      BY <2>3, <2>7 DEF UnlinkOverflow
    <3>2. /\ Len(path) = len + 1 /\ path[1] = At(i) /\ \A k \in 1..len : path[k + 1] = over[k]
      <4>1. \A x : \A s \in Seq(AuxNodes(d)) :
              /\ Len(<<x>> \o s) = Len(s) + 1 /\ (<<x>> \o s)[1] = x
              /\ \A k \in 1..Len(s) : (<<x>> \o s)[k + 1] = s[k]
        OBVIOUS
      <4> HIDE DEF over
      <4> QED BY <2>4, <4>1
    <3> HIDE DEF path, over, len
    <3>3. CASE at = {}
      <4>1. ASSUME NEW k \in 1..len
            PROVE  Rec(d, over[k]).data # key
        <5>1. k + 1 \in 2..Len(path) /\ path[k + 1] = over[k]
          BY <2>4, <3>2
        <5> QED BY <3>3, <5>1
      <4> QED BY <2>5, <3>1, <3>3, <4>1 DEF RemovePromised, Result, e
    <3>4. CASE at # {}
      <4>1. j \in at
        BY <3>4
      <4> DEFINE p == path[j - 1]
                 q == path[j]
      <4>2. j \in 2..len + 1 /\ Rec(d, q).data = key
        BY <3>2, <4>1
      <4> HIDE DEF j
      <4>3. /\ j - 1 \in 1..len /\ (j - 1) + 1 = j
            /\ j - 1 # 1 => j - 2 \in 1..len /\ (j - 2) + 1 = j - 1 /\ (j - 1) - 1 = j - 2
        BY <2>4, <4>2
      <4>4. q = over[j - 1] /\ q \in Nodes(d)
        BY <2>4, <3>2, <4>3
      <4>5. p = Pred(d, i, j - 1)
        BY <3>2, <4>3 DEF Pred, over
      <4>6. NextOf(d, p) = q /\ p \in Nodes(d) \union {Header}
        <5>1. j - 1 \in 1..len + 1
          BY <2>4, <4>3
        <5> QED BY <2>4, <4>3, <4>4, <4>5, <5>1
      <4>7. e = Result(SetNext(d, p, Rec(d, q).next), "ok")
        BY <3>1, <3>4
      <4> HIDE DEF p, q
      <4> QED BY <4>2, <4>4, <4>6, <4>7, UnlinkPromised DEF e
    <3> QED BY <3>3, <3>4
  <2> QED BY <2>6, <2>7
<1> QED BY <1>5, <1>6, <1>7

-----------------------------------------------------------------------------
(* bulk_insert.                                                             *)

\* A record at the end of the index file.
LEMMA IndexAppended ==
  ASSUME NEW d \in Disk, NEW rec \in Entry, NEW n, n = Len(d.index),
         NEW new, new = InIndex(n + 1), NEW e, e = [d EXCEPT !.index = Append(@, rec)]
  PROVE  /\ e \in Disk /\ e.hdr = d.hdr /\ e.aux = d.aux /\ e.dups = d.dups
         /\ Len(e.index) = n + 1 /\ e.index[n + 1] = rec
         /\ \A i \in 1..n : e.index[i] = d.index[i]
         /\ new \in Pointer /\ new # Nil /\ new # Header /\ new \notin Nodes(d)
         /\ Nodes(e) = Nodes(d) \union {new} /\ Rec(e, new) = rec
         /\ \A x \in Nodes(d) : Rec(e, x) = Rec(d, x)
         /\ \A x \in Nodes(d) \union {Header} : NextOf(e, x) = NextOf(d, x)
<1> DEFINE index == Append(d.index, rec)
<1>1. /\ d.hdr \in Pointer /\ d.index \in Seq(Entry) /\ d.aux \in Seq(Entry)
      /\ d.dups \in Seq([raw : Position, dup : Nat])
      /\ d = [hdr |-> d.hdr, index |-> d.index, aux |-> d.aux, dups |-> d.dups] /\ n \in Nat
  BY DiskTyped DEF Disk
<1>2. e = [hdr |-> d.hdr, index |-> index, aux |-> d.aux, dups |-> d.dups]
  <2>1. e = [d EXCEPT !.index = index]
    OBVIOUS
  <2> HIDE DEF index
  <2> QED BY <1>1, <2>1
<1>3. /\ index \in Seq(Entry) /\ Len(index) = n + 1 /\ index[n + 1] = rec
      /\ \A j \in 1..n : index[j] = d.index[j]
  BY <1>1, AppendProperties
<1> HIDE DEF index
<1>4. e \in Disk
  BY ONLY <1>1, <1>2, <1>3 DEF Disk
<1>5. e.hdr = d.hdr /\ e.index = index /\ e.aux = d.aux /\ e.dups = d.dups
  BY <1>2
<1>6. new \in Pointer /\ new # Nil /\ new # Header /\ new.file = "index" /\ new.pos = n + 1
  BY <1>1 DEF InIndex, Pointer, Nil, Header
<1>7. /\ AuxNodes(e) = AuxNodes(d) /\ IndexNodes(e) = {InIndex(j) : j \in 1..n + 1}
      /\ IndexNodes(d) = {InIndex(j) : j \in 1..n}
  BY <1>3, <1>5 DEF IndexNodes, AuxNodes
<1>8. Nodes(e) = Nodes(d) \union {new}
  <2>1. \A j : j \in 1..n + 1 <=> j \in 1..n \/ j = n + 1
    BY <1>1
  <2> QED BY <1>7, <2>1 DEF Nodes
<1>9. \A x \in Nodes(d) : \/ x.file = "aux"
                          \/ x.file = "index" /\ x.pos \in 1..n
  BY NodeTyped
<1>10. new \notin Nodes(d)
  BY <1>1, <1>6, <1>9
<1>11. Rec(e, new) = rec
  BY <1>3, <1>5, <1>6 DEF Rec
<1>12. \A x \in Nodes(d) : Rec(e, x) = Rec(d, x)
  <2> TAKE x \in Nodes(d)
  <2>1. CASE x.file = "aux"
    BY ONLY <1>5, <2>1 DEF Rec
  <2>2. CASE x.file = "index" /\ x.pos \in 1..n
    BY ONLY <1>3, <1>5, <2>2 DEF Rec
  <2> QED BY <1>9, <2>1, <2>2
<1>13. \A x \in Nodes(d) \union {Header} : NextOf(e, x) = NextOf(d, x)
  BY ONLY <1>5, <1>12 DEF NextOf
<1> QED BY <1>3, <1>4, <1>5, <1>6, <1>8, <1>10, <1>11, <1>12, <1>13

\* The files of createFile.
NoFiles == [hdr |-> Nil, index |-> <<>>, aux |-> <<>>, dups |-> <<>>]

LEMMA NoFilesGood ==
  /\ Good(NoFiles) /\ NoFiles.index = <<>> /\ Len(NoFiles.index) = 0
  /\ \A k : Content(NoFiles, Nodes(NoFiles), k) = {}
<1>1. NoFiles \in Disk
  BY DEF NoFiles, Disk, Nil, InIndex, Pointer
<1>2. /\ NoFiles.hdr = Nil /\ NoFiles.index = <<>> /\ NoFiles.aux = <<>> /\ NoFiles.dups = <<>>
      /\ Len(NoFiles.index) = 0 /\ Len(NoFiles.aux) = 0 /\ Len(NoFiles.dups) = 0
  BY DEF NoFiles
<1>3. Nodes(NoFiles) = {} /\ 1..Len(NoFiles.dups) = {} /\ 1..Len(NoFiles.index) = {}
  BY <1>2 DEF Nodes, IndexNodes, AuxNodes
<1>4. DupsLinked(NoFiles) /\ FileSorted(NoFiles)
  BY <1>3 DEF DupsLinked, FileSorted
<1>5. NextOf(NoFiles, Header) = Nil
  BY <1>2 DEF NextOf
<1>6. Ordered(NoFiles, Nodes(NoFiles))
  BY <1>3, <1>5 DEF Ordered
<1> QED BY <1>1, <1>2, <1>3, <1>4, <1>6 DEF Good, Linked, Content

\* Files of a batch in the making.
Loading(f, key) == /\ Good(f) /\ f.aux = <<>> /\ Len(f.index) # 0
                   /\ f.index[Len(f.index)].data = key

LEMMA LoadKeeps ==
  ASSUME NEW f, NEW last, Loading(f, last), NEW raw \in Position, last <= raw[1]
  PROVE  /\ Loading(Load(f, raw), raw[1])
         /\ ContentSet(Load(f, raw), Nodes(Load(f, raw)), f, Nodes(f), raw[1],
                       Content(f, Nodes(f), raw[1]) \union {raw})
<1> DEFINE n == Len(f.index)
           p == InIndex(n)
           key == raw[1]
           e == Load(f, raw)
<1>1. /\ Good(f) /\ f \in Disk /\ f.aux = <<>> /\ n # 0 /\ n \in Nat /\ f.index[n].data = last
      /\ Ordered(f, Nodes(f)) /\ DupsLinked(f) /\ FileSorted(f)
      /\ \A q \in Nodes(f) : Rec(f, q).data \in Key
  BY DiskTyped DEF Loading, Good, Linked
<1>2. key \in Key /\ key \in Int
  BY SeqIndexAssumption DEF Position
<1>3. p \in Nodes(f) /\ Rec(f, p) = f.index[n] /\ Rec(f, p).data = last /\ last \in Int
  <2>1. n \in 1..n
    BY <1>1
  <2>2. p \in Nodes(f) /\ Rec(f, p) = f.index[n]
    BY <2>1 DEF Nodes, IndexNodes, InIndex, Rec
  <2> QED BY <1>1, <2>2, NodeTyped
<1>4. CASE last = key
  <2>1. e = WithDuplicate(f, p, raw)
    BY <1>1, <1>4 DEF Load
  <2>2. /\ Good(e) /\ Len(e.index) = n /\ Len(e.aux) = Len(f.aux)
        /\ \A x \in Nodes(f) : Rec(e, x).data = Rec(f, x).data
        /\ ContentSet(e, Nodes(e), f, Nodes(f), key, Content(f, Nodes(f), key) \union {raw})
    <3> HIDE DEF e, key, p, n
    <3>1. Rec(f, p).data = key /\ Len(f.index) = n
      BY <1>3, <1>4 DEF n
    <3> QED BY <1>1, <1>3, <2>1, <3>1, DuplicateKeeps
  <2> HIDE DEF e
  <2>3. e.index[n].data = key
    <3>1. Rec(e, p) = e.index[n]
      BY DEF Rec, InIndex
    <3> QED BY <1>3, <1>4, <2>2, <3>1
  <2>4. e.aux = <<>>
    <3>1. Len(e.aux) = 0 /\ e \in Disk
      BY <1>1, <2>2 DEF Good, Linked
    <3>2. e.aux \in Seq(Entry)
      BY <3>1, DiskTyped
    <3> QED BY <3>1, <3>2
  <2> QED BY <1>1, <2>2, <2>3, <2>4 DEF Loading, e
<1>5. CASE last # key
  <2> DEFINE new == InIndex(n + 1)
             rec == NewRecord(key, raw, Nil)
             d1 == SetNext(f, p, new)
  <2>1. e = [d1 EXCEPT !.index = Append(@, rec)]
    BY <1>1, <1>5 DEF Load
  <2>2. rec \in Entry /\ rec.data = key /\ rec.raw = raw /\ rec.dup = 0 /\ rec.next = Nil
    BY <1>2 DEF NewRecord, Entry, Nil, InIndex, Pointer
  <2>3. new \in Pointer
    BY <1>1 DEF InIndex, Pointer
  <2> HIDE DEF rec
  <2>4. /\ d1 \in Disk /\ d1.dups = f.dups
        /\ Len(d1.index) = n /\ Len(d1.aux) = Len(f.aux) /\ Nodes(d1) = Nodes(f)
        /\ \A x \in Nodes(f) : /\ Rec(d1, x).data = Rec(f, x).data
                               /\ Rec(d1, x).raw = Rec(f, x).raw
                               /\ Rec(d1, x).dup = Rec(f, x).dup
        /\ \A x \in Nodes(f) \union {Header} :
             NextOf(d1, x) = IF x = p THEN new ELSE NextOf(f, x)
    BY <1>1, <1>3, <2>3, SetNextFacts
  <2> HIDE DEF d1
  <2>5. /\ e \in Disk /\ e.aux = d1.aux /\ e.dups = d1.dups
        /\ Len(e.index) = n + 1 /\ e.index[n + 1] = rec
        /\ \A i \in 1..n : e.index[i] = d1.index[i]
        /\ new # Nil /\ new # Header /\ new \notin Nodes(d1)
        /\ Nodes(e) = Nodes(d1) \union {new} /\ Rec(e, new) = rec
        /\ \A x \in Nodes(d1) : Rec(e, x) = Rec(d1, x)
        /\ \A x \in Nodes(d1) \union {Header} : NextOf(e, x) = NextOf(d1, x)
    <3> HIDE DEF e, n, new
    <3>1. d1 \in Disk /\ rec \in Entry /\ n = Len(d1.index) /\ new = InIndex(n + 1)
      BY <2>2, <2>4 DEF new
    <3> QED BY ONLY <2>1, <3>1, IndexAppended
  <2> HIDE DEF e, new
  <2>6. NextOf(f, p) = Nil
    <3>1. /\ Overflow(f, At(n)) \in Seq(AuxNodes(f))
          /\ NextOf(f, Pred(f, n, Len(Overflow(f, At(n))) + 1)) = Above(f, n)
      <4>1. n \in 0..Len(f.index)
        BY <1>1
      <4> QED BY <1>1, <4>1, OverflowOfFile
    <3>2. AuxNodes(f) = {}
      <4>1. Len(f.aux) = 0
        BY <1>1
      <4> QED BY <4>1 DEF AuxNodes
    <3>3. Len(Overflow(f, At(n))) = 0
      BY <3>1, <3>2
    <3>4. Pred(f, n, 0 + 1) = p
      BY <1>1 DEF Pred, At
    <3> QED BY <3>1, <3>3, <3>4 DEF Above
  <2>7. \A x \in Nodes(f) : /\ x # Nil /\ x # Header /\ Rec(f, x).data \in Int
                            /\ Rec(e, x).data = Rec(f, x).data
                            /\ Rec(e, x).dup = Rec(f, x).dup
    BY <1>1, <2>4, <2>5, NodeTyped
  <2>8. Ordered(e, Nodes(e))
    <3>1. NextOf(e, new) = Nil
      BY <2>2, <2>5 DEF NextOf
    <3>2. \A x \in Nodes(f) \union {Header} : NextOf(e, x) = IF x = p THEN new ELSE NextOf(f, x)
      BY <2>4, <2>5
    <3>3. last < key
      BY <1>2, <1>3, <1>5
    <3>4. Inserted(f, e, Nodes(f), p, new)
      <4>1. /\ Nil \notin Nodes(f) /\ Header \notin Nodes(f) /\ new \notin Nodes(f)
            /\ new # Nil /\ new # Header
        BY <2>4, <2>5, <2>7
      <4>2. \A q \in Nodes(f) : Rec(f, q).data \in Int /\ Rec(e, q).data = Rec(f, q).data
        BY <2>7
      <4>3. /\ NextOf(e, new) = NextOf(f, p) /\ Rec(e, new).data \in Int
            /\ Rec(f, p).data < Rec(e, new).data /\ NextOf(f, p) = Nil
        BY <1>2, <1>3, <2>2, <2>5, <2>6, <3>1, <3>3
      <4> QED BY <1>1, <1>3, <3>2, <4>1, <4>2, <4>3 DEF Inserted
    <3>5. Ordered(e, Nodes(f) \union {new})
      BY <3>4, OrderedInsert
    <3> QED BY <2>4, <2>5, <3>5
  <2>9. DupsLinked(e)
    <3>1. 0 \in 0..Len(f.dups) /\ \A x \in Nodes(f) : Rec(f, x).dup \in 0..Len(f.dups)
      BY <1>1, DiskTyped DEF DupsLinked
    <3>2. \A x \in Nodes(e) : Rec(e, x).dup \in 0..Len(f.dups)
      BY <2>2, <2>4, <2>5, <2>7, <3>1
    <3> QED BY <1>1, <2>4, <2>5, <3>2, DupsLinkedKept
  <2>10. FileSorted(e)
    <3>1. \A i \in 1..n : e.index[i].data = f.index[i].data /\ f.index[i].data \in Int
      <4> TAKE i \in 1..n
      <4>1. InIndex(i) \in Nodes(f) /\ \A g : Rec(g, InIndex(i)) = g.index[i]
        BY DEF Nodes, IndexNodes, InIndex, Rec
      <4> QED BY <2>7, <4>1
    <3>2. \A i, j \in 1..n : i < j => f.index[i].data < f.index[j].data
      BY <1>1 DEF FileSorted
    <3>3. \A i \in 1..n : f.index[i].data <= last
      <4> TAKE i \in 1..n
      <4>1. n \in 1..n /\ (i = n \/ i < n)
        BY <1>1
      <4> QED BY <1>1, <1>3, <3>1, <3>2, <4>1
    <3>4. \A i \in 1..n : f.index[i].data < key
      BY <1>2, <1>3, <1>5, <3>1, <3>3
    <3>5. ASSUME NEW i \in 1..n + 1, NEW j \in 1..n + 1, i < j
          PROVE  e.index[i].data < e.index[j].data
      <4>1. i \in 1..n /\ (j \in 1..n \/ j = n + 1)
        BY <1>1, <3>5
      <4>2. CASE j \in 1..n
        BY <3>1, <3>2, <3>5, <4>1, <4>2
      <4>3. CASE j = n + 1
        BY <2>2, <2>5, <3>1, <3>4, <4>1, <4>3
      <4> QED BY <4>1, <4>2, <4>3
    <3> QED BY <2>5, <3>5 DEF FileSorted
  <2>11. e.aux = <<>>
    <3>1. Len(e.aux) = 0
      BY <1>1, <2>4, <2>5
    <3>2. e.aux \in Seq(Entry)
      BY <2>5, DiskTyped
    <3> QED BY <3>1, <3>2
  <2>12. \A q \in Nodes(e) : Rec(e, q).data \in Key
    BY <1>1, <1>2, <2>2, <2>4, <2>5, <2>7
  <2>13. Good(e)
    BY <2>5, <2>8, <2>9, <2>10, <2>11, <2>12 DEF Good, Linked
  <2>14. Len(e.index) = n + 1 /\ n + 1 # 0 /\ e.index[n + 1].data = key
    BY <1>1, <2>2, <2>5
  <2>15. ASSUME NEW q \in Nodes(f)
         PROVE  Rec(f, q).data # key
    <3>1. AuxNodes(f) = {}
      <4>1. Len(f.aux) = 0
        BY <1>1
      <4> QED BY <4>1 DEF AuxNodes
    <3>2. PICK i \in 1..n : q = InIndex(i)
      BY <3>1 DEF Nodes, IndexNodes
    <3>3. Rec(f, q) = f.index[i] /\ Rec(f, q).data \in Int
      BY <2>7, <3>2 DEF InIndex, Rec
    <3>4. n \in 1..n /\ (i = n \/ f.index[i].data < f.index[n].data)
      BY <1>1, <3>2 DEF FileSorted
    <3> QED BY <1>1, <1>2, <1>3, <1>5, <3>3, <3>4
  <2>16. ContentSet(e, Nodes(e), f, Nodes(f), key, Content(f, Nodes(f), key) \union {raw})
    <3>1. /\ Nodes(e) = Nodes(f) \union {new} /\ e.dups = f.dups /\ DupsLinked(f)
          /\ Rec(e, new).data = key /\ Rec(e, new).raw = raw /\ Rec(e, new).dup = 0
      BY <1>1, <2>2, <2>4, <2>5
    <3>2. \A x \in Nodes(f) : /\ Rec(e, x).data = Rec(f, x).data
                              /\ Rec(e, x).raw = Rec(f, x).raw /\ Rec(e, x).dup = Rec(f, x).dup
      BY <2>4, <2>5
    <3>3. f \in Disk /\ e \in Disk /\ DupsLinked(e)
      BY <1>1, <2>5, <2>9
    <3> HIDE DEF key
    <3>4. /\ Content(f, Nodes(f), key) = {}
          /\ ContentSet(e, Nodes(e), f, Nodes(f), key, {raw})
      BY <2>15, <3>1, <3>2, <3>3, NewRecordContent
    <3> QED BY <3>4
  <2> QED BY <2>11, <2>13, <2>14, <2>16 DEF Loading, e
<1> QED BY <1>4, <1>5

\* The loop of Loaded, unfolded.
Loads(files, bulk) ==
  /\ Loaded(bulk) = files[Len(bulk)]
  /\ files[0] = [hdr |-> InIndex(1), index |-> <<>>, aux |-> <<>>, dups |-> <<>>]
  /\ \A i \in 1..Len(bulk) : files[i] = Load(files[i - 1], bulk[i])

LEMMA LoadUnfolds ==
  ASSUME NEW bulk, Len(bulk) \in Nat
  PROVE  \E files : Loads(files, bulk)
<1> DEFINE n == Len(bulk)
           Start == [hdr |-> InIndex(1), index |-> <<>>, aux |-> <<>>, dups |-> <<>>]
           Step(f, i) == Load(f, bulk[i])
           Solves(w) == w = [i \in 0..n |-> IF i = 0 THEN Start ELSE Step(w[i - 1], i)]
           files == CHOOSE w : Solves(w)
           S == {m \in Nat : \E w : \A i \in 0..m : w[i] = IF i = 0 THEN Start ELSE Step(w[i - 1], i)}
<1>1. Loaded(bulk) = files[n]
  BY DEF Loaded
<1> HIDE DEF Start, Step
<1>2. 0 \in S
  <2> DEFINE w == [i \in 0..0 |-> Start]
  <2>1. w[0] = Start
    OBVIOUS
  <2>2. \A i \in 0..0 : i = 0
    OBVIOUS
  <2> HIDE DEF w
  <2> QED BY <2>1, <2>2
<1>3. ASSUME NEW m \in Nat, m \in S
      PROVE  m + 1 \in S
  <2>1. PICK w : \A i \in 0..m : w[i] = IF i = 0 THEN Start ELSE Step(w[i - 1], i)
    BY <1>3
  <2> DEFINE v == [i \in 0..m + 1 |-> IF i = m + 1 THEN Step(w[m], m + 1) ELSE w[i]]
  <2>2. ASSUME NEW i \in 0..m + 1
        PROVE  v[i] = IF i = 0 THEN Start ELSE Step(v[i - 1], i)
    <3>1. CASE i = m + 1
      <4>1. i # 0 /\ i - 1 = m /\ v[i] = Step(w[m], m + 1) /\ v[m] = w[m]
        BY <3>1
      <4> HIDE DEF v
      <4> QED BY <3>1, <4>1
    <3>2. CASE i \in 0..m
      <4>1. v[i] = w[i] /\ (i # 0 => v[i - 1] = w[i - 1])
        BY <3>2
      <4> HIDE DEF v
      <4> QED BY <2>1, <3>2, <4>1
    <3> QED BY <3>1, <3>2
  <2> HIDE DEF v
  <2> QED BY <2>2
<1>4. n \in S
  <2> HIDE DEF S, n
  <2>1. n \in Nat
    BY DEF n
  <2> QED BY <1>2, <1>3, <2>1, SetInduction
<1>5. Solves(files)
  <2>1. PICK w : \A i \in 0..n : w[i] = IF i = 0 THEN Start ELSE Step(w[i - 1], i)
    BY <1>4
  <2> DEFINE v == [i \in 0..n |-> w[i]]
  <2>2. \A i \in 0..n : w[i] = IF i = 0 THEN Start ELSE Step(v[i - 1], i)
    <3> SUFFICES ASSUME NEW i \in 0..n, i # 0
                 PROVE  v[i - 1] = w[i - 1]
      <4> HIDE DEF v
      <4> QED BY <2>1
    <3>1. i - 1 \in 0..n
      OBVIOUS
    <3> QED BY <3>1
  <2>3. Solves(v)
    <3>1. v = [i \in 0..n |-> w[i]]
      OBVIOUS
    <3> HIDE DEF v
    <3> QED BY <2>2, <3>1
  <2> HIDE DEF v, Solves
  <2> QED BY <2>3
<1> HIDE DEF files
<1>6. \A i \in 0..n : files[i] = IF i = 0 THEN Start ELSE Step(files[i - 1], i)
  BY <1>5
<1>7. files[0] = Start
  <2>1. 0 \in 0..n
    OBVIOUS
  <2> QED BY <1>6, <2>1
<1>8. \A i \in 1..n : files[i] = Step(files[i - 1], i)
  <2>1. \A i \in 1..n : i \in 0..n /\ i # 0
    OBVIOUS
  <2> QED BY <1>6, <2>1
<1>9. Loads(files, bulk)
  BY <1>1, <1>7, <1>8 DEF Loads, Start, Step
<1> QED BY <1>9

\* The positions of a key among the first m records of a batch.
OfKey(bulk, m, k) == {bulk[i] : i \in {j \in 1..m : bulk[j][1] = k}}

\* Files that hold the first m records of a batch.
Holds(f, bulk, m) == \A k \in Int : Content(f, Nodes(f), k) = OfKey(bulk, m, k)

LEMMA OneMore ==
  ASSUME NEW bulk, NEW m \in Nat, NEW f, NEW e, Holds(f, bulk, m),
         ContentSet(e, Nodes(e), f, Nodes(f), bulk[m + 1][1],
                    Content(f, Nodes(f), bulk[m + 1][1]) \union {bulk[m + 1]}),
         bulk[m + 1][1] \in Int
  PROVE  Holds(e, bulk, m + 1)
<1> SUFFICES ASSUME NEW k \in Int
             PROVE  Content(e, Nodes(e), k) = OfKey(bulk, m + 1, k)
  BY DEF Holds
<1>1. 1..m + 1 = (1..m) \union {m + 1}
  OBVIOUS
<1>2. CASE k = bulk[m + 1][1]
  <2>1. OfKey(bulk, m + 1, k) = OfKey(bulk, m, k) \union {bulk[m + 1]}
    BY <1>1, <1>2 DEF OfKey
  <2> QED BY <1>2, <2>1 DEF ContentSet, Holds
<1>3. CASE k # bulk[m + 1][1]
  <2>1. OfKey(bulk, m + 1, k) = OfKey(bulk, m, k)
    BY <1>1, <1>3 DEF OfKey
  <2> QED BY <1>3, <2>1 DEF ContentSet, Holds
<1> QED BY <1>2, <1>3

\* bulk_insert makes good files of a sorted batch, which hold the batch.
LEMMA LoadedKeeps ==
  ASSUME NEW bulk \in Seq(Position), bulk # <<>>,
         \A i, j \in 1..Len(bulk) : i < j => bulk[i][1] <= bulk[j][1]
  PROVE  /\ Good(Loaded(bulk)) /\ Loaded(bulk).index # <<>>
         /\ Holds(Loaded(bulk), bulk, Len(bulk))
<1> DEFINE n == Len(bulk)
<1>1. n \in Nat /\ n # 0 /\ \A i \in 1..n : bulk[i] \in Position
  BY ElementOfSeq
<1>2. PICK files : Loads(files, bulk)
  BY <1>1, LoadUnfolds
<1>3. /\ Loaded(bulk) = files[n]
      /\ files[0] = [hdr |-> InIndex(1), index |-> <<>>, aux |-> <<>>, dups |-> <<>>]
      /\ \A i \in 1..n : files[i] = Load(files[i - 1], bulk[i])
  BY <1>2 DEF Loads
<1> DEFINE S == {m \in Nat : m + 1 \in 1..n => /\ Loading(files[m + 1], bulk[m + 1][1])
                                             /\ Holds(files[m + 1], bulk, m + 1)}
<1>4. 0 \in S
  <2> DEFINE raw == bulk[1]
             key == raw[1]
             rec == NewRecord(key, raw, Nil)
             f == files[0]
             e == files[1]
             first == [hdr |-> InIndex(1), index |-> <<rec>>,
                       aux |-> NoFiles.aux, dups |-> NoFiles.dups]
  <2>1. raw \in Position /\ key \in Key /\ 1 \in 1..n /\ e = Load(f, raw)
    <3>1. 1 \in 1..n /\ 1 - 1 = 0
      BY <1>1
    <3>2. raw \in Position /\ e = Load(f, raw)
      BY <1>1, <1>3, <3>1
    <3> QED BY <3>1, <3>2 DEF Position
  <2>2. f.index = <<>> /\ Len(f.index) = 0
    BY <1>3
  <2>3. e = [f EXCEPT !.index = Append(@, rec)]
    <3> HIDE DEF e, f, raw
    <3> QED BY <2>1, <2>2 DEF Load
  <2>4. NoFiles.aux = <<>> /\ NoFiles.dups = <<>>
    BY DEF NoFiles
  <2>5. e = first
    <3> HIDE DEF rec, e
    <3>1. Append(<<>>, rec) = <<rec>>
      OBVIOUS
    <3>2. [f EXCEPT !.index = Append(@, rec)] = [f EXCEPT !.index = <<rec>>]
      <4> HIDE DEF f
      <4> QED BY <2>2, <3>1
    <3> QED BY <1>3, <2>3, <2>4, <3>2
  <2>6. Good(first) /\ ContentSet(first, Nodes(first), NoFiles, Nodes(NoFiles), key, {raw})
    <3>1. AddPromised(NoFiles, key, raw, Result(first, "ok"))
      BY <2>1, NoFilesGood, FirstRecordKeeps
    <3>2. Result(first, "ok").outcome = "ok" /\ Result(first, "ok").disk = first
      BY DEF Result
    <3> HIDE DEF first
    <3>3. Content(NoFiles, Nodes(NoFiles), key) = {}
      BY NoFilesGood
    <3> HIDE DEF key, raw
    <3> QED BY <3>1, <3>2, <3>3 DEF AddPromised
  <2>7. first.aux = <<>> /\ Len(first.index) = 1 /\ first.index[1].data = key
    <3>1. rec.data = key
      BY DEF NewRecord
    <3> HIDE DEF rec
    <3> QED BY <2>4, <3>1
  <2> HIDE DEF e, first
  <2>8. Loading(e, key)
    BY <2>5, <2>6, <2>7 DEF Loading
  <2>9. Holds(e, bulk, 1)
    <3>1. Holds(NoFiles, bulk, 0)
      <4>1. \A k : OfKey(bulk, 0, k) = {}
        BY DEF OfKey
      <4> QED BY <4>1, NoFilesGood DEF Holds
    <3>2. Content(NoFiles, Nodes(NoFiles), key) = {} /\ key \in Int
      BY <2>1, NoFilesGood, SeqIndexAssumption
    <3>3. ContentSet(e, Nodes(e), NoFiles, Nodes(NoFiles), bulk[0 + 1][1],
                     Content(NoFiles, Nodes(NoFiles), bulk[0 + 1][1]) \union {bulk[0 + 1]})
      <4>1. bulk[0 + 1] = raw /\ bulk[0 + 1][1] = key
        OBVIOUS
      <4>2. ContentSet(e, Nodes(e), NoFiles, Nodes(NoFiles), key,
                       Content(NoFiles, Nodes(NoFiles), key) \union {raw})
        <5> HIDE DEF key, raw
        <5> QED BY <2>5, <2>6, <3>2
      <4> HIDE DEF key, raw
      <4> QED BY <4>1, <4>2
    <3>4. Holds(e, bulk, 0 + 1)
      <4>1. bulk[0 + 1][1] \in Int /\ 0 \in Nat
        BY <3>2
      <4> QED BY ONLY <3>1, <3>3, <4>1, OneMore
    <3> QED BY <3>4
  <2> QED BY <2>8, <2>9 DEF e
<1>5. ASSUME NEW m \in Nat, m \in S
      PROVE  m + 1 \in S
  <2> SUFFICES ASSUME (m + 1) + 1 \in 1..n
               PROVE  /\ Loading(files[(m + 1) + 1], bulk[(m + 1) + 1][1])
                      /\ Holds(files[(m + 1) + 1], bulk, (m + 1) + 1)
    OBVIOUS
  <2> DEFINE i == (m + 1) + 1
  <2>1. m + 1 \in 1..n /\ i \in 1..n /\ i - 1 = m + 1 /\ m + 1 < i
    BY <1>1
  <2>2. Loading(files[m + 1], bulk[m + 1][1]) /\ Holds(files[m + 1], bulk, m + 1)
    BY <1>5, <2>1
  <2> HIDE DEF i
  <2>3. bulk[i] \in Position /\ bulk[m + 1][1] <= bulk[i][1] /\ files[i] = Load(files[m + 1], bulk[i])
    BY <1>1, <1>3, <2>1
  <2>4. /\ Loading(files[i], bulk[i][1])
        /\ ContentSet(files[i], Nodes(files[i]), files[m + 1], Nodes(files[m + 1]), bulk[i][1],
                      Content(files[m + 1], Nodes(files[m + 1]), bulk[i][1]) \union {bulk[i]})
    BY <2>2, <2>3, LoadKeeps
  <2>5. Holds(files[i], bulk, i)
    <3>1. bulk[i][1] \in Int /\ m + 1 \in Nat
      <4>1. \A raw \in Position : raw[1] \in Int
        BY SeqIndexAssumption DEF Position
      <4> QED BY <2>3, <4>1
    <3> DEFINE j == m + 1
    <3>2. i = j + 1
      BY DEF i
    <3>3. /\ j \in Nat /\ bulk[j + 1][1] \in Int /\ Holds(files[j], bulk, j)
          /\ ContentSet(files[i], Nodes(files[i]), files[j], Nodes(files[j]), bulk[j + 1][1],
                        Content(files[j], Nodes(files[j]), bulk[j + 1][1]) \union {bulk[j + 1]})
      BY <2>2, <2>4, <3>1, <3>2
    <3> HIDE DEF j
    <3>4. Holds(files[i], bulk, j + 1)
      BY ONLY <3>3, OneMore
    <3> QED BY <3>2, <3>4
  <2> QED BY <2>4, <2>5 DEF i
<1>6. Loading(files[n], bulk[n][1]) /\ Holds(files[n], bulk, n)
  <2>1. n - 1 \in Nat /\ (n - 1) + 1 = n /\ n \in 1..n
    BY <1>1
  <2>2. n - 1 \in S
    <3> HIDE DEF S
    <3> QED BY <1>4, <1>5, <2>1, SetInduction
  <2> QED BY <2>1, <2>2
<1>7. \A f : Len(f.index) # 0 => f.index # <<>>
  OBVIOUS
<1> QED BY <1>3, <1>6, <1>7 DEF Loading

\* What the files hold are positions.
LEMMA ContentTyped ==
  ASSUME NEW d, NEW linked, Linked(d, linked), NEW key
  PROVE  Content(d, linked, key) \subseteq Position
<1>1. ASSUME NEW p \in linked
      PROVE  AllRaw(d, p) \subseteq Position
  <2>1. d \in Disk /\ DupsLinked(d) /\ p \in Nodes(d)
    BY DEF Linked
  <2>2. Rec(d, p).raw \in Position /\ Rec(d, p).dup \in 0..Len(d.dups)
    BY <2>1, NodeTyped DEF DupsLinked
  <2> DEFINE dups == Duplicates(d, Rec(d, p).dup)
  <2>3. dups \in Seq(Position)
    BY <2>1, <2>2, DuplicatesAre
  <2>4. AllRaw(d, p) = {Rec(d, p).raw} \union ToSet(dups)
    BY DEF AllRaw
  <2> HIDE DEF dups
  <2>5. ToSet(dups) \subseteq Position
    BY <2>3, ElementOfSeq DEF ToSet
  <2> QED BY <2>2, <2>4, <2>5
<1> QED BY <1>1 DEF Content

-----------------------------------------------------------------------------
(* The invariant.                                                           *)

IInv == TypeOK /\ Good(disk)

\* The chain from the header goes through every record, in key order.
LEMMA ChainOfFile ==
  ASSUME NEW d, Good(d)
  PROVE  LET c == Chain(d, d.hdr)
         IN  /\ c \in Seq(Nodes(d)) /\ Len(c) \in Nat /\ ToSet(c) = Nodes(d)
             /\ \A i, j \in 1..Len(c) : i < j => Rec(d, c[i]).data < Rec(d, c[j]).data
<1> DEFINE c == Chain(d, d.hdr)
<1>1. d \in Disk /\ Ordered(d, Nodes(d)) /\ NextOf(d, Header) = d.hdr
  BY DEF Good, Linked, NextOf
<1>2. d.hdr \in Nodes(d) \union {Nil}
  BY <1>1 DEF Ordered
<1>3. /\ c \in Seq(Nodes(d)) /\ Len(c) \in Nat
      /\ \A i, j \in 1..Len(c) : i < j => Rec(d, c[i]).data < Rec(d, c[j]).data
      /\ \A q \in Nodes(d) : d.hdr # Nil /\ Rec(d, d.hdr).data <= Rec(d, q).data =>
           \E i \in 1..Len(c) : c[i] = q
  BY <1>1, <1>2, ChainIs
<1> HIDE DEF c
<1>4. ASSUME NEW q \in Nodes(d)
      PROVE  \E i \in 1..Len(c) : c[i] = q
  <2>1. Precedes(d, Header, q)
    BY DEF Precedes
  <2>2. d.hdr # Nil /\ Rec(d, d.hdr).data <= Rec(d, q).data
    BY <1>1, <2>1 DEF Ordered
  <2> QED BY <1>3, <2>2
<1>5. ToSet(c) = Nodes(d)
  <2>1. ToSet(c) = {c[i] : i \in 1..Len(c)}
    BY <1>3 DEF ToSet
  <2>2. \A i \in 1..Len(c) : c[i] \in Nodes(d)
    BY <1>3, ElementOfSeq
  <2> QED BY <1>4, <2>1, <2>2
<1> QED BY <1>3, <1>5 DEF c

\* A position that add is called with is new.
LEMMA RawIsNew ==
  ASSUME Good(disk), NEW key \in Key, NEW raw \in NewRaws(key)
  PROVE  raw \in Position /\ \A k : raw \notin Content(disk, Nodes(disk), k)
<1>1. raw \in Position /\ raw \notin RawInUse
  <2> DEFINE free == {j \in 1..MaxPerKey : <<key, j>> \notin RawInUse}
  <2>1. PICK j \in free : raw = <<key, j>>
    BY DEF NewRaws
  <2> QED BY <2>1 DEF Position
<1>2. RawInUse = UNION {AllRaw(disk, p) : p \in Nodes(disk)}
  BY ChainOfFile DEF RawInUse
<1> QED BY <1>1, <1>2 DEF Content

\* What an accepted add does: the key has one more position, new to the index.
Adds(d, e, key, raw) ==
  /\ ~ (PK /\ Content(d, Nodes(d), key) # {})
  /\ raw \in Position /\ \A k : raw \notin Content(d, Nodes(d), k)
  /\ ContentSet(e, Nodes(e), d, Nodes(d), key, Content(d, Nodes(d), key) \union {raw})

LEMMA AddStep ==
  ASSUME IInv, NEW key \in Key, NEW raw \in NewRaws(key), KeepsHeaderOverflow(key),
         Add(key, raw) \/ AddNotRebuild(key, raw)
  PROVE  /\ IInv' /\ PK' = PK
         /\ \/ reply' = "duplicate" /\ PK /\ Content(disk, Nodes(disk), key) # {} /\ disk' = disk
            \/ reply' = "ok" /\ Adds(disk, disk', key, raw)
<1> DEFINE a == Added(disk, key, raw)
<1>1. Good(disk) /\ PK \in BOOLEAN /\ disk \in Disk
  BY DEF IInv, TypeOK
<1>2. raw \in Position /\ \A k : raw \notin Content(disk, Nodes(disk), k)
  BY <1>1, RawIsNew
<1>3. AddPromised(disk, key, raw, a)
  BY <1>1, <1>2, AddedKeeps DEF KeepsHeaderOverflow
<1>4. /\ reply' = a.outcome /\ PK' = PK
      /\ \/ disk' = a.disk
         \/ a.outcome = "ok" /\ disk' = Rebuilt(a.disk)
  <2>1. CASE Add(key, raw)
    <3>1. /\ disk' = IF a.outcome = "ok" /\ ~ ValidNumberRecords(a.disk)
                     THEN Rebuilt(a.disk) ELSE a.disk
          /\ reply' = a.outcome /\ PK' = PK
      BY <2>1 DEF Add
    <3> HIDE DEF a
    <3>2. CASE a.outcome = "ok" /\ ~ ValidNumberRecords(a.disk)
      BY <3>1, <3>2
    <3>3. CASE ~ (a.outcome = "ok" /\ ~ ValidNumberRecords(a.disk))
      BY <3>1, <3>3
    <3> QED BY <3>2, <3>3
  <2>2. CASE AddNotRebuild(key, raw)
    BY <2>2 DEF AddNotRebuild
  <2> HIDE DEF a
  <2> QED BY <2>1, <2>2
<1> HIDE DEF a
<1>5. CASE a.outcome = "duplicate" /\ a.disk = disk /\ PK /\ Content(disk, Nodes(disk), key) # {}
  BY <1>1, <1>4, <1>5 DEF IInv, TypeOK
<1>6. CASE /\ a.outcome = "ok" /\ Good(a.disk)
           /\ ~ (PK /\ Content(disk, Nodes(disk), key) # {})
           /\ ContentSet(a.disk, Nodes(a.disk), disk, Nodes(disk), key,
                         Content(disk, Nodes(disk), key) \union {raw})
  <2>1. Good(disk') /\ \A k \in Int : Content(disk', Nodes(disk'), k) = Content(a.disk, Nodes(a.disk), k)
    <3>1. Linked(a.disk, Nodes(a.disk))
      BY <1>6 DEF Good
    <3>2. CASE disk' = a.disk
      BY <1>6, <3>2
    <3>3. CASE disk' = Rebuilt(a.disk)
      BY <3>1, <3>3, RebuiltKeeps
    <3> QED BY <1>4, <3>2, <3>3
  <2>2. disk' \in Disk
    BY <2>1 DEF Good, Linked
  <2>3. Adds(disk, disk', key, raw)
    BY <1>2, <1>6, <2>1 DEF Adds, ContentSet
  <2>4. IInv'
    BY <1>1, <1>4, <1>6, <2>1, <2>2 DEF IInv, TypeOK
  <2> QED BY <1>4, <1>6, <2>3, <2>4
<1> QED BY <1>3, <1>5, <1>6 DEF AddPromised

LEMMA RemoveStep ==
  ASSUME IInv, NEW key \in Key, NotInHeaderOverflow(key), NotMisread(key), RemoveKey(key)
  PROVE  /\ IInv' /\ PK' = PK
         /\ \/ reply' = "absent" /\ disk' = disk /\ Content(disk, Nodes(disk), key) = {}
            \/ /\ reply' = "ok" /\ Content(disk, Nodes(disk), key) # {}
               /\ ContentSet(disk', Nodes(disk'), disk, Nodes(disk), key, {})
<1> DEFINE e == Erased(disk, key)
<1>1. Good(disk) /\ PK \in BOOLEAN /\ disk \in Disk
  BY DEF IInv, TypeOK
<1>2. RemovePromised(disk, key, e)
  BY <1>1, ErasedKeeps DEF NotInHeaderOverflow, NotMisread
<1>3. /\ reply' = e.outcome /\ PK' = PK
      /\ disk' = IF e.outcome = "ok" THEN Rebuilt(e.disk) ELSE e.disk
  BY DEF RemoveKey
<1> HIDE DEF e
<1>4. CASE e.outcome = "absent" /\ e.disk = disk /\ Content(disk, Nodes(disk), key) = {}
  BY <1>1, <1>3, <1>4 DEF IInv, TypeOK
<1>5. CASE /\ e.outcome = "ok" /\ Content(disk, Nodes(disk), key) # {}
           /\ \E linked : Linked(e.disk, linked)
                          /\ ContentSet(e.disk, linked, disk, Nodes(disk), key, {})
  <2>1. PICK linked : /\ Linked(e.disk, linked)
                      /\ ContentSet(e.disk, linked, disk, Nodes(disk), key, {})
    BY <1>5
  <2>2. disk' = Rebuilt(e.disk)
    BY <1>3, <1>5
  <2>3. Good(disk') /\ \A k \in Int : Content(disk', Nodes(disk'), k) = Content(e.disk, linked, k)
    BY <2>1, <2>2, RebuiltKeeps
  <2>4. disk' \in Disk
    BY <2>3 DEF Good, Linked
  <2>5. ContentSet(disk', Nodes(disk'), disk, Nodes(disk), key, {})
    BY <2>1, <2>3 DEF ContentSet
  <2>6. IInv'
    BY <1>1, <1>3, <1>5, <2>3, <2>4 DEF IInv, TypeOK
  <2> QED BY <1>3, <1>5, <2>5, <2>6
<1> QED BY <1>2, <1>4, <1>5 DEF RemovePromised

LEMMA BulkInsertStep ==
  ASSUME IInv, NEW bulk \in Bulks, BulkInsert(bulk)
  PROVE  /\ IInv' /\ PK' = PK /\ ~ PK
         /\ reply' = "loaded" /\ disk.index = <<>> /\ Holds(disk', bulk, Len(bulk))
<1>1. /\ Good(disk) /\ PK \in BOOLEAN /\ PK' = PK /\ ~ PK
      /\ disk.index = <<>> /\ disk' = Loaded(bulk) /\ reply' = "loaded"
  BY DEF IInv, TypeOK, BulkInsert
<1>2. bulk \in Seq(Position) /\ bulk # <<>> /\ DOMAIN bulk = 1..Len(bulk)
  BY SeqIndexAssumption
<1>3. \A i, j \in 1..Len(bulk) : i < j => bulk[i][1] <= bulk[j][1]
  BY <1>2, SeqIndexAssumption
<1>4. Good(disk') /\ Holds(disk', bulk, Len(bulk))
  BY <1>1, <1>2, <1>3, LoadedKeeps
<1>5. disk' \in Disk
  BY <1>4 DEF Good, Linked
<1> QED BY <1>1, <1>4, <1>5 DEF IInv, TypeOK

LEMMA RebuildStep ==
  ASSUME IInv, Rebuild
  PROVE  /\ IInv' /\ PK' = PK /\ reply' = reply
         /\ \A k \in Int : Content(disk', Nodes(disk'), k) = Content(disk, Nodes(disk), k)
<1>1. Good(disk) /\ PK' = PK /\ reply' = reply /\ disk' = Rebuilt(disk)
  BY DEF IInv, Rebuild
<1>2. Good(disk') /\ \A k \in Int : Content(disk', Nodes(disk'), k) = Content(disk, Nodes(disk), k)
  BY <1>1, RebuiltKeeps DEF Good
<1>3. disk' \in Disk
  BY <1>2 DEF Good, Linked
<1> QED BY <1>1, <1>2, <1>3 DEF IInv, TypeOK

LEMMA InitGood == Init => IInv
<1> SUFFICES ASSUME Init PROVE IInv
  OBVIOUS
<1>1. disk = NoFiles
  BY DEF Init, NoFiles
<1>2. Good(disk) /\ disk \in Disk
  BY <1>1, NoFilesGood DEF Good, Linked
<1> QED BY <1>2 DEF IInv, TypeOK, Init

LEMMA StepGood == IInv /\ [CarefulNext]_vars => IInv'
<1> SUFFICES ASSUME IInv, [CarefulNext]_vars PROVE IInv'
  OBVIOUS
<1>1. CASE \E key \in Key : \E raw \in NewRaws(key) : KeepsHeaderOverflow(key) /\ Add(key, raw)
  BY <1>1, AddStep
<1>2. CASE \E key \in Key : \E raw \in NewRaws(key) :
             KeepsHeaderOverflow(key) /\ AddNotRebuild(key, raw)
  BY <1>2, AddStep
<1>3. CASE \E key \in Key : NotInHeaderOverflow(key) /\ NotMisread(key) /\ RemoveKey(key)
  BY <1>3, RemoveStep
<1>4. CASE \E bulk \in Bulks : BulkInsert(bulk)
  BY <1>4, BulkInsertStep
<1>5. CASE BulkIgnored
  BY <1>5 DEF IInv, TypeOK, BulkIgnored
<1>6. CASE Rebuild
  BY <1>6, RebuildStep
<1>7. CASE UNCHANGED vars
  BY <1>7 DEF IInv, TypeOK, vars
<1> QED BY <1>1, <1>2, <1>3, <1>4, <1>5, <1>6, <1>7 DEF CarefulNext

\* Under every sequence of calls that keep away from the defects, the files stay
\* good: the records of both files, and none else, are linked in key order, the index
\* file is sorted by itself, and no chain of duplicates runs in a circle.
THEOREM FilesStayGood == CarefulSpec => []IInv
<1> QED BY InitGood, StepGood, PTL DEF CarefulSpec

\* The files only ever have what their formats allow (SequentialIndexRecord,
\* SequentialIndexHeader): add, remove, rebuild and bulk_insert write no pointer and no
\* position that is not one.
THEOREM CarefulTypeOK == CarefulSpec => []TypeOK
<1>1. IInv => TypeOK
  BY DEF IInv
<1> QED BY <1>1, FilesStayGood, PTL

\* The chain that search, range_search and rebuild follow has each record of both files
\* once, in strict key order, and the index file is sorted for the binary search.
THEOREM ChainStaysOrdered == CarefulSpec => []ChainOrdered
<1>1. IInv => ChainOrdered
  <2> SUFFICES ASSUME Good(disk) PROVE ChainOrdered
    BY DEF IInv
  <2> DEFINE c == Chain(disk, disk.hdr)
  <2>1. /\ c \in Seq(Nodes(disk)) /\ Len(c) \in Nat /\ ToSet(c) = Nodes(disk)
        /\ \A i, j \in 1..Len(c) : i < j => Rec(disk, c[i]).data < Rec(disk, c[j]).data
    BY ChainOfFile
  <2>2. disk \in Disk /\ FileSorted(disk)
    BY DEF Good, Linked
  <2>3. Nodes(disk) = {InIndex(i) : i \in 1..Len(disk.index)} \union {InAux(i) : i \in 1..Len(disk.aux)}
    BY DEF Nodes, IndexNodes, AuxNodes
  <2>4. Sorted([i \in 1..Len(disk.index) |-> disk.index[i].data])
    <3>1. Len(disk.index) \in Nat
      BY <2>2, DiskTyped
    <3> QED BY <2>2, <3>1 DEF FileSorted, Sorted
  <2> HIDE DEF c
  <2>5. Sorted([i \in 1..Len(c) |-> Rec(disk, c[i]).data])
    BY <2>1 DEF Sorted
  <2> QED BY <2>1, <2>3, <2>4, <2>5 DEF ChainOrdered, c
<1> QED BY <1>1, FilesStayGood, PTL

-----------------------------------------------------------------------------
(* The promise.                                                             *)

EntriesIn(d) == [key \in Key |-> Content(d, Nodes(d), key)]

LEMMA EntriesAre ==
  /\ Good(disk) => Entries = EntriesIn(disk)
  /\ Good(disk') => Entries' = EntriesIn(disk')
<1>1. ASSUME NEW d, Good(d)
      PROVE  ToSet(Chain(d, d.hdr)) = Nodes(d)
  BY <1>1, ChainOfFile
<1>2. Good(disk) => Entries = EntriesIn(disk)
  BY <1>1 DEF Entries, EntriesIn, Content
<1>3. Good(disk') => Entries' = EntriesIn(disk')
  BY <1>1 DEF Entries, EntriesIn, Content
<1> QED BY <1>2, <1>3

LEMMA EntriesTyped ==
  ASSUME NEW d, Good(d)
  PROVE  EntriesIn(d) \in [Key -> SUBSET Position]
BY ContentTyped DEF EntriesIn, Good

\* Files without records hold nothing.
LEMMA NoRecordNoEntries ==
  ASSUME NEW d, Good(d), d.index = <<>>
  PROVE  \A k \in Key : EntriesIn(d)[k] = {}
<1>1. d \in Disk /\ Len(d.index) = 0 /\ Len(d.aux) = 0
  BY DEF Good, Linked
<1>2. Nodes(d) = {}
  BY <1>1 DEF Nodes, IndexNodes, AuxNodes
<1> QED BY <1>2 DEF EntriesIn, Content

\* Files with records hold something.
LEMMA RecordHasEntry ==
  ASSUME NEW d, Good(d), d.index # <<>>
  PROVE  \E k \in Key : EntriesIn(d)[k] # {}
<1> DEFINE p == InIndex(1)
<1>1. /\ d \in Disk /\ Len(d.index) \in Nat /\ Len(d.index) # 0
      /\ \A q \in Nodes(d) : Rec(d, q).data \in Key
  BY EmptyFile, DiskTyped DEF Good, Linked
<1>2. p \in Nodes(d)
  <2>1. 1 \in 1..Len(d.index)
    BY <1>1
  <2> QED BY <2>1 DEF Nodes, IndexNodes
<1>3. Rec(d, p).raw \in AllRaw(d, p) /\ Rec(d, p).data \in Key
  BY <1>1, <1>2 DEF AllRaw
<1> HIDE DEF p
<1>4. Rec(d, p).raw \in Content(d, Nodes(d), Rec(d, p).data)
  BY <1>2, <1>3 DEF Content
<1> QED BY <1>3, <1>4 DEF EntriesIn

LEMMA PromiseInit == Init => Promise!Init
<1> SUFFICES ASSUME Init PROVE Promise!Init
  OBVIOUS
<1>1. disk = NoFiles /\ PK \in BOOLEAN /\ reply = "none"
  BY DEF Init, NoFiles
<1>2. Entries = EntriesIn(disk)
  BY <1>1, NoFilesGood, EntriesAre
<1>3. EntriesIn(disk) = [k \in Key |-> {}]
  BY <1>1, NoFilesGood DEF EntriesIn
<1> QED BY <1>1, <1>2, <1>3 DEF Promise!Init

LEMMA AddPromise ==
  ASSUME IInv, NEW key \in Key, NEW raw \in NewRaws(key), KeepsHeaderOverflow(key),
         Add(key, raw) \/ AddNotRebuild(key, raw)
  PROVE  Promise!Add(key, raw)
<1>1. Good(disk) /\ Good(disk') /\ PK' = PK
  BY AddStep DEF IInv
<1>2. Entries = EntriesIn(disk) /\ Entries' = EntriesIn(disk')
  BY <1>1, EntriesAre
<1>3. CASE reply' = "duplicate" /\ PK /\ Content(disk, Nodes(disk), key) # {} /\ disk' = disk
  <2>1. Entries[key] # {} /\ Entries' = Entries
    BY <1>2, <1>3 DEF EntriesIn
  <2> QED BY <1>1, <1>3, <2>1 DEF Promise!Add, Promise!Refused
<1>4. CASE reply' = "ok" /\ Adds(disk, disk', key, raw)
  <2> DEFINE old == EntriesIn(disk)
             now == EntriesIn(disk')
  <2>1. /\ ~ (PK /\ old[key] # {})
        /\ now = [old EXCEPT ![key] = @ \union {raw}]
    <3>1. \A k \in Key : k \in Int
      BY SeqIndexAssumption
    <3>2. \A k \in Key : old[k] = Content(disk, Nodes(disk), k)
      BY DEF EntriesIn
    <3>3. \A k \in Key : Content(disk', Nodes(disk'), k) =
                           IF k = key THEN old[key] \union {raw} ELSE old[k]
      BY <1>4, <3>1, <3>2 DEF Adds, ContentSet
    <3>4. now = [old EXCEPT ![key] = @ \union {raw}]
      <4>1. now = [k \in Key |-> IF k = key THEN old[key] \union {raw} ELSE old[k]]
        BY <3>3 DEF EntriesIn
      <4>2. old = [k \in Key |-> old[k]]
        BY DEF EntriesIn
      <4> HIDE DEF old, now
      <4> QED BY <4>1, <4>2
    <3> HIDE DEF old, now
    <3> QED BY <1>4, <3>2, <3>4 DEF Adds
  <2> HIDE DEF old, now
  <2>2. Entries = old /\ Entries' = now
    BY <1>2 DEF old, now
  <2> QED BY <1>1, <1>4, <2>1, <2>2 DEF Promise!Add, Promise!Refused
<1> QED BY <1>1, <1>3, <1>4, AddStep

LEMMA RemovePromise ==
  ASSUME IInv, NEW key \in Key, NotInHeaderOverflow(key), NotMisread(key), RemoveKey(key)
  PROVE  Promise!Remove(key)
<1>1. Good(disk) /\ Good(disk') /\ PK' = PK
  BY RemoveStep DEF IInv
<1>2. Entries = EntriesIn(disk) /\ Entries' = EntriesIn(disk')
  BY <1>1, EntriesAre
<1> DEFINE old == EntriesIn(disk)
           now == EntriesIn(disk')
<1>3. /\ reply' = IF old[key] = {} THEN "absent" ELSE "ok"
      /\ \A k \in Key : now[k] = IF k = key THEN {} ELSE old[k]
  <2>1. /\ \A k \in Key : k \in Int
        /\ \A k \in Key : old[k] = Content(disk, Nodes(disk), k)
        /\ \A k \in Key : now[k] = Content(disk', Nodes(disk'), k)
    BY SeqIndexAssumption DEF EntriesIn
  <2> HIDE DEF old, now
  <2>2. CASE reply' = "absent" /\ disk' = disk /\ Content(disk, Nodes(disk), key) = {}
    BY <2>1, <2>2
  <2>3. CASE /\ reply' = "ok" /\ Content(disk, Nodes(disk), key) # {}
             /\ ContentSet(disk', Nodes(disk'), disk, Nodes(disk), key, {})
    BY <2>1, <2>3 DEF ContentSet
  <2> QED BY <2>2, <2>3, RemoveStep
<1>4. now = [old EXCEPT ![key] = {}]
  <2>1. now = [k \in Key |-> now[k]] /\ old = [k \in Key |-> old[k]]
    BY DEF EntriesIn
  <2> HIDE DEF old, now
  <2> QED BY <1>3, <2>1
<1> QED BY <1>1, <1>2, <1>3, <1>4 DEF Promise!Remove

LEMMA BulkInsertPromise ==
  ASSUME IInv, NEW bulk \in Bulks, BulkInsert(bulk)
  PROVE  Promise!BulkInsert(Batch(bulk))
<1> DEFINE batch == Batch(bulk)
           n == Len(bulk)
<1>1. /\ Good(disk) /\ Good(disk') /\ PK' = PK /\ ~ PK
      /\ reply' = "loaded" /\ disk.index = <<>> /\ Holds(disk', bulk, n)
  BY BulkInsertStep DEF IInv
<1>2. Entries = EntriesIn(disk) /\ Entries' = EntriesIn(disk')
  BY <1>1, EntriesAre
<1>3. bulk \in Seq(Position) /\ n \in Nat /\ DOMAIN bulk = 1..n
  BY SeqIndexAssumption
<1>4. /\ Len(batch) = n /\ DOMAIN batch = 1..n
      /\ \A i \in 1..n : batch[i][1] = bulk[i][1] /\ batch[i][2] = bulk[i]
  <2>1. batch = [i \in 1..n |-> <<bulk[i][1], bulk[i]>>]
    BY <1>3 DEF Batch
  <2> HIDE DEF batch
  <2> QED BY <1>3, <2>1
<1> HIDE DEF batch, n
<1>5. \A k \in Key : Entries[k] = {}
  BY <1>1, <1>2, NoRecordNoEntries
<1>6. Entries' = Promise!With(batch, n)
  <2>1. \A k \in Key : EntriesIn(disk')[k] = OfKey(bulk, n, k)
    BY <1>1, SeqIndexAssumption DEF EntriesIn, Holds
  <2>2. \A k \in Key : OfKey(bulk, n, k) = {batch[i][2] : i \in {j \in 1..n : batch[j][1] = k}}
    BY <1>4 DEF OfKey
  <2>3. EntriesIn(disk') = [k \in Key |-> EntriesIn(disk')[k]]
    BY DEF EntriesIn
  <2>4. EntriesIn(disk') =
          [k \in Key |-> Entries[k] \union {batch[i][2] : i \in {j \in 1..n : batch[j][1] = k}}]
    BY <1>5, <2>1, <2>2, <2>3
  <2> QED BY <1>2, <2>4 DEF Promise!With
<1>7. {i \in DOMAIN batch : Promise!Refused(Promise!With(batch, i - 1), batch[i][1])} = {}
  BY <1>1 DEF Promise!Refused
<1> QED BY <1>1, <1>4, <1>6, <1>7 DEF Promise!BulkInsert, batch

LEMMA BulkIgnoredPromise ==
  ASSUME IInv, BulkIgnored
  PROVE  Promise!BulkIgnored
<1>1. Good(disk) /\ PK' = PK /\ reply' = "ignored" /\ disk.index # <<>> /\ disk' = disk
  BY DEF IInv, BulkIgnored
<1>2. Entries = EntriesIn(disk) /\ Entries' = EntriesIn(disk')
  BY <1>1, EntriesAre
<1>3. \E k \in Key : Entries[k] # {}
  BY <1>1, <1>2, RecordHasEntry
<1> QED BY <1>1, <1>2, <1>3 DEF Promise!BulkIgnored

LEMMA RebuildPromise ==
  ASSUME IInv, Rebuild
  PROVE  PK' = PK /\ reply' = reply /\ Entries' = Entries
<1>1. /\ Good(disk) /\ Good(disk') /\ PK' = PK /\ reply' = reply
      /\ \A k \in Int : Content(disk', Nodes(disk'), k) = Content(disk, Nodes(disk), k)
  BY RebuildStep DEF IInv
<1>2. EntriesIn(disk') = EntriesIn(disk)
  <2>1. \A k \in Key : Content(disk', Nodes(disk'), k) = Content(disk, Nodes(disk), k)
    BY <1>1, SeqIndexAssumption
  <2> QED BY <2>1 DEF EntriesIn
<1> QED BY <1>1, <1>2, EntriesAre

LEMMA PromiseStep ==
  ASSUME IInv
  PROVE  CallsKeepPromise
<1>1. ASSUME NEW key \in Key, NEW raw \in NewRaws(key), KeepsHeaderOverflow(key),
             Add(key, raw) \/ AddNotRebuild(key, raw)
      PROVE  Promise!Add(key, raw)
  BY <1>1, AddPromise
<1>2. ASSUME NEW key \in Key, NotInHeaderOverflow(key), NotMisread(key), RemoveKey(key)
      PROVE  Promise!Remove(key)
  BY <1>2, RemovePromise
<1>3. ASSUME NEW bulk \in Bulks, BulkInsert(bulk)
      PROVE  Promise!BulkInsert(Batch(bulk))
  BY <1>3, BulkInsertPromise
<1>4. BulkIgnored => Promise!BulkIgnored
  BY BulkIgnoredPromise
<1>5. Rebuild => UNCHANGED <<PK, Entries, reply>>
  BY RebuildPromise
<1> QED BY ONLY <1>1, <1>2, <1>3, <1>4, <1>5 DEF CallsKeepPromise

\* Away from its defects the index does what KeyIndex prescribes for the call that was
\* made: add puts the new position with its key and refuses a second one for a primary
\* key, remove takes all positions of its key, bulk_insert loads exactly its batch, and
\* only into an index without records, no call touches another key, and no rebuild
\* changes what the index holds.
THEOREM PromiseKept == CarefulSpec => KeepsPromise
<1>1. IInv => CallsKeepPromise
  BY PromiseStep
<1> QED BY <1>1, PromiseInit, FilesStayGood, PTL DEF CarefulSpec, KeepsPromise

-----------------------------------------------------------------------------
(* search and range_search.                                                 *)

\* Where the first phase of a search ends: at the greatest record that is not above the
\* key, or at the least one that is above it, and then no record has the key.
EndsAt(d, key, p) ==
  LET Of(q) == Rec(d, q).data
  IN  /\ p \in Nodes(d)
      /\ \/ Of(p) <= key /\ \A q \in Nodes(d) : Of(q) <= key => Of(q) <= Of(p)
         \/ key < Of(p) /\ \A q \in Nodes(d) : key <= Of(q) => Of(p) <= Of(q)

\* The records of a gap in the index file, in the order of their keys.
LEMMA GapIs ==
  ASSUME NEW d, Good(d), NEW i \in 0..Len(d.index)
  PROVE  LET over == Overflow(d, At(i))
         IN  /\ over \in Seq(Nodes(d)) /\ Len(over) \in Nat
             /\ \A j, k \in 1..Len(over) : j < k => Rec(d, over[j]).data < Rec(d, over[k]).data
             /\ \A j \in 1..Len(over) : over[j] \in Nodes(d) /\ InGap(d, i, Rec(d, over[j]).data)
             /\ \A q \in Nodes(d) : InGap(d, i, Rec(d, q).data) =>
                  \E j \in 1..Len(over) : over[j] = q
<1> DEFINE over == Overflow(d, At(i))
<1>1. /\ over \in Seq(AuxNodes(d)) /\ Len(over) \in Nat
      /\ \A j, k \in 1..Len(over) : j < k => Rec(d, over[j]).data < Rec(d, over[k]).data
      /\ \A q \in Nodes(d) : q \in AuxNodes(d) /\ InGap(d, i, Rec(d, q).data)
                               <=> \E j \in 1..Len(over) : over[j] = q
  BY OverflowOfFile
<1>2. \A q \in Nodes(d) : InGap(d, i, Rec(d, q).data) => \E j \in 1..Len(over) : over[j] = q
  <2> SUFFICES ASSUME NEW q \in Nodes(d), InGap(d, i, Rec(d, q).data)
               PROVE  \E j \in 1..Len(over) : over[j] = q
    OBVIOUS
  <2>1. Rec(d, q).data \in Int
    BY NodeTyped DEF Good, Linked
  <2> QED BY <2>1, GapContent
<1> HIDE DEF over
<1>3. \A j \in 1..Len(over) : over[j] \in Nodes(d)
  BY <1>1, ElementOfSeq DEF Nodes
<1>4. over \in Seq(Nodes(d))
  <2>1. AuxNodes(d) \subseteq Nodes(d)
    BY DEF Nodes
  <2> QED BY <1>1, <2>1
<1> QED BY <1>1, <1>2, <1>3, <1>4 DEF over

LEMMA StopsWhere ==
  ASSUME NEW d, Good(d), Len(d.index) # 0, NEW key \in Int
  PROVE  LET b == BinarySearch(d, key)
         IN  b.location # "EMPTY_FILE" /\ EndsAt(d, key, StopAt(d, b, key))
<1> DEFINE n == Len(d.index)
           b == BinarySearch(d, key)
           p == StopAt(d, b, key)
<1>1. d \in Disk /\ n \in Nat /\ n # 0 /\ FileSorted(d)
  BY DiskTyped DEF Good, Linked
<1>2. Finds(d, key, b)
  BY <1>1, BinarySearchIs
<1>3. \A q \in Nodes(d) : Rec(d, q).data \in Int
  BY <1>1, NodeTyped
<1> HIDE DEF b
<1>4. CASE b.location = "REC_CUR"
  <2>1. PICK at \in 1..n : b = Response("REC_CUR", at) /\ d.index[at].data = key
    BY <1>2, <1>4 DEF Finds, Response
  <2>2. p = InIndex(at)
    BY <1>4, <2>1 DEF StopAt, Response
  <2>3. p \in Nodes(d) /\ Rec(d, p).data = key
    BY <2>1, <2>2 DEF Nodes, IndexNodes, InIndex, Rec
  <2> HIDE DEF p
  <2> QED BY <1>4, <2>3 DEF EndsAt, p, b
<1>5. CASE b.location # "REC_CUR"
  <2>1. /\ b.location # "EMPTY_FILE"
        /\ \E i \in 0..n : /\ HangsFrom(b) = At(i) /\ InGap(d, i, key)
                           /\ b.header <=> i = 0
                           /\ i = 0 => b.at = 1
    BY <1>1, <1>2, <1>5, HangsFromGap
  <2>2. PICK i \in 0..n : /\ HangsFrom(b) = At(i) /\ InGap(d, i, key)
                          /\ b.header <=> i = 0
                          /\ i = 0 => b.at = 1
    BY <2>1
  <2> DEFINE over == Overflow(d, At(i))
             len == Len(over)
             data(j) == Rec(d, over[j]).data
             stops == {j \in 1..len : data(j) >= key}
  <2>3. p = IF over = <<>> THEN IF i = 0 THEN InIndex(1) ELSE InIndex(i)
            ELSE IF stops = {} THEN Last(over) ELSE over[Min(stops)]
    BY <1>5, <2>2 DEF StopAt, StopOverflow, At
  <2>4. /\ over \in Seq(Nodes(d)) /\ len \in Nat
        /\ \A j, k \in 1..len : j < k => data(j) < data(k)
        /\ \A j \in 1..len : over[j] \in Nodes(d) /\ InGap(d, i, data(j))
        /\ \A q \in Nodes(d) : InGap(d, i, Rec(d, q).data) => \E j \in 1..len : over[j] = q
    BY GapIs
  <2>5. \A j \in 1..len : data(j) \in Int
    BY <1>3, <2>4
  <2>6. /\ i # 0 => InIndex(i) \in Nodes(d) /\ Rec(d, InIndex(i)) = d.index[i]
        /\ i # n => InIndex(i + 1) \in Nodes(d) /\ Rec(d, InIndex(i + 1)) = d.index[i + 1]
    <3>1. /\ i # 0 => At(i) = InIndex(i) /\ At(i) \in IndexNodes(d) /\ Rec(d, At(i)) = d.index[i]
          /\ i # n => /\ InIndex(i + 1) \in Nodes(d)
                      /\ Rec(d, InIndex(i + 1)) = d.index[i + 1]
      BY <1>1, AtIsNode
    <3> QED BY <3>1 DEF Nodes
  \* A record on the same side of the key as the nearest record of the index file is in
  \* the gap, or beyond that record.
  <2>7. ASSUME NEW q \in Nodes(d), Rec(d, q).data <= key, i # 0 => d.index[i].data < Rec(d, q).data
        PROVE  InGap(d, i, Rec(d, q).data)
    <3>1. i # n => key < d.index[i + 1].data /\ d.index[i + 1].data \in Int
      BY <1>3, <2>2, <2>6 DEF InGap
    <3> QED BY <1>3, <2>7, <3>1 DEF InGap
  <2>8. ASSUME NEW q \in Nodes(d), key <= Rec(d, q).data,
               i # n => Rec(d, q).data < d.index[i + 1].data
        PROVE  InGap(d, i, Rec(d, q).data)
    <3>1. i # 0 => d.index[i].data < key /\ d.index[i].data \in Int
      BY <1>3, <2>2, <2>6 DEF InGap
    <3> QED BY <1>3, <2>8, <3>1 DEF InGap
  <2> HIDE DEF p, over, len
  <2>9. over = <<>> <=> len = 0
    BY <2>4 DEF len
  <2>10. CASE over = <<>> /\ i = 0
    <3>1. p = InIndex(i + 1) /\ i # n
      BY <1>1, <2>3, <2>10
    <3>2. p \in Nodes(d) /\ Rec(d, p) = d.index[i + 1] /\ key < Rec(d, p).data
      BY <2>2, <2>6, <3>1 DEF InGap
    <3>3. ASSUME NEW q \in Nodes(d), key <= Rec(d, q).data
          PROVE  Rec(d, p).data <= Rec(d, q).data
      <4>1. ~ InGap(d, i, Rec(d, q).data)
        BY <2>4, <2>9, <2>10
      <4>2. ~ (Rec(d, q).data < d.index[i + 1].data)
        BY <2>8, <3>3, <4>1
      <4> QED BY <1>3, <3>2, <4>2
    <3> QED BY <2>1, <3>2, <3>3 DEF EndsAt, p, b
  <2>11. CASE over = <<>> /\ i # 0
    <3>1. p = InIndex(i)
      BY <2>3, <2>11
    <3>2. p \in Nodes(d) /\ Rec(d, p) = d.index[i] /\ Rec(d, p).data < key
      BY <2>2, <2>6, <2>11, <3>1 DEF InGap
    <3>3. ASSUME NEW q \in Nodes(d), Rec(d, q).data <= key
          PROVE  Rec(d, q).data <= Rec(d, p).data
      <4>1. ~ InGap(d, i, Rec(d, q).data)
        BY <2>4, <2>9, <2>11
      <4>2. ~ (d.index[i].data < Rec(d, q).data)
        BY <2>7, <3>3, <4>1
      <4> QED BY <1>3, <3>2, <4>2
    <3>4. Rec(d, p).data <= key
      BY <1>3, <3>2
    <3> QED BY <2>1, <3>2, <3>3, <3>4 DEF EndsAt, p, b
  <2>12. CASE over # <<>> /\ stops = {}
    <3>1. p = over[len] /\ len \in 1..len
      <4>1. p = Last(over)
        BY <2>3, <2>12
      <4> QED BY <2>4, <2>9, <2>12, <4>1 DEF Last, len
    <3>2. p \in Nodes(d) /\ Rec(d, p).data < key /\ InGap(d, i, Rec(d, p).data)
      <4>1. p \in Nodes(d) /\ InGap(d, i, Rec(d, p).data)
        BY <2>4, <3>1
      <4>2. len \notin stops
        BY <2>12
      <4>3. ~ (Rec(d, p).data >= key)
        BY <3>1, <4>2
      <4> QED BY <1>3, <4>1, <4>3
    <3>3. ASSUME NEW q \in Nodes(d), Rec(d, q).data <= key
          PROVE  Rec(d, q).data <= Rec(d, p).data
      <4> SUFFICES ASSUME Rec(d, p).data < Rec(d, q).data
                   PROVE  FALSE
        BY <1>3, <3>2
      <4>1. i # 0 => d.index[i].data < Rec(d, q).data
        BY <1>3, <2>6, <3>2 DEF InGap
      <4>2. PICK j \in 1..len : over[j] = q
        BY <2>4, <2>7, <3>3, <4>1
      <4>3. j = len \/ j < len
        BY <2>4
      <4> QED BY <1>3, <2>4, <3>1, <3>2, <4>2, <4>3
    <3>4. Rec(d, p).data <= key
      BY <1>3, <3>2
    <3> QED BY <2>1, <3>2, <3>3, <3>4 DEF EndsAt, p, b
  <2>13. CASE over # <<>> /\ stops # {}
    <3> DEFINE m == Min(stops)
    <3>1. m \in stops /\ \A j \in stops : m <= j
      <4>1. stops \subseteq Nat
        BY <2>4
      <4> HIDE DEF stops
      <4> QED BY <2>13, <4>1, MinIsLeast
    <3>2. p = over[m]
      BY <2>3, <2>13
    <3> HIDE DEF m
    <3>3. /\ m \in 1..len /\ key <= Rec(d, p).data /\ p \in Nodes(d)
          /\ InGap(d, i, Rec(d, p).data)
      BY <1>3, <2>4, <3>1, <3>2
    <3>4. ASSUME NEW q \in Nodes(d), key <= Rec(d, q).data
          PROVE  Rec(d, p).data <= Rec(d, q).data
      <4> SUFFICES ASSUME Rec(d, q).data < Rec(d, p).data
                   PROVE  FALSE
        BY <1>3, <3>3
      <4>1. i # n => Rec(d, q).data < d.index[i + 1].data
        BY <1>3, <2>6, <3>3 DEF InGap
      <4>2. PICK j \in 1..len : over[j] = q
        BY <2>4, <2>8, <3>4, <4>1
      <4>3. j \in stops
        BY <1>3, <3>4, <4>2
      <4>4. m <= j /\ m \in 1..len /\ (m = j \/ m < j)
        BY <3>1, <3>3, <4>3
      <4> QED BY <1>3, <2>4, <3>2, <3>3, <4>2, <4>4
    <3>5. CASE key = Rec(d, p).data
      BY <1>3, <2>1, <3>3, <3>5 DEF EndsAt, p, b
    <3>6. CASE key < Rec(d, p).data
      BY <2>1, <3>3, <3>4, <3>6 DEF EndsAt, p, b
    <3> QED BY <1>3, <3>3, <3>5, <3>6
  <2> QED BY <2>10, <2>11, <2>12, <2>13
<1> QED BY <1>4, <1>5 DEF b

\* A key is that of one record.
LEMMA RecordContent ==
  ASSUME NEW d, Good(d), NEW p \in Nodes(d)
  PROVE  Content(d, Nodes(d), Rec(d, p).data) = AllRaw(d, p)
<1>1. {q \in Nodes(d) : Rec(d, q).data = Rec(d, p).data} = {p}
  BY DEF Good, Linked, Ordered
<1> QED BY <1>1 DEF Content

LEMMA NoIndexNoContent ==
  ASSUME NEW d, Good(d), Len(d.index) = 0, NEW key
  PROVE  Content(d, Nodes(d), key) = {} /\ BinarySearch(d, key).location = "EMPTY_FILE"
<1>1. d \in Disk /\ d.aux = <<>>
  BY EmptyFile DEF Good, Linked
<1>2. Nodes(d) = {}
  BY <1>1 DEF Nodes, IndexNodes, AuxNodes
<1>3. BinarySearch(d, key).location = "EMPTY_FILE"
  BY DEF BinarySearch
<1> QED BY <1>2, <1>3 DEF Content

LEMMA SearchIs ==
  ASSUME NEW d, Good(d), NEW key \in Int
  PROVE  Search(d, key) = Content(d, Nodes(d), key)
<1> DEFINE b == BinarySearch(d, key)
           p == StopAt(d, b, key)
<1>1. Search(d, key) = IF b.location = "EMPTY_FILE" THEN {}
                       ELSE IF Rec(d, p).data = key THEN AllRaw(d, p) ELSE {}
  BY DEF Search
<1>2. CASE Len(d.index) = 0
  BY <1>1, <1>2, NoIndexNoContent
<1>3. CASE Len(d.index) # 0
  <2>1. b.location # "EMPTY_FILE" /\ EndsAt(d, key, p)
    BY <1>3, StopsWhere
  <2>2. \A q \in Nodes(d) : Rec(d, q).data \in Int
    BY NodeTyped DEF Good, Linked
  <2> HIDE DEF b, p
  <2>3. CASE Rec(d, p).data = key
    BY <1>1, <2>1, <2>3, RecordContent DEF EndsAt
  <2>4. CASE Rec(d, p).data # key
    <3>1. ASSUME NEW q \in Nodes(d), Rec(d, q).data = key
          PROVE  FALSE
      BY <2>1, <2>2, <2>4, <3>1 DEF EndsAt, Good, Linked, Ordered
    <3>2. Content(d, Nodes(d), key) = {}
      BY <3>1, NoRecordNoContent
    <3> QED BY <1>1, <2>1, <2>4, <3>2
  <2> QED BY <2>3, <2>4
<1> QED BY <1>2, <1>3

\* The record range_search goes on with is the least one above `begin'.
LEMMA FirstAbove ==
  ASSUME NEW d, Good(d), NEW key \in Int, NEW p, EndsAt(d, key, p),
         NEW first, first = IF Rec(d, p).data <= key THEN Rec(d, p).next ELSE p
  PROVE  /\ first \in Nodes(d) \union {Nil}
         /\ first # Nil => key < Rec(d, first).data
         /\ \A q \in Nodes(d) : key < Rec(d, q).data =>
              first # Nil /\ Rec(d, first).data <= Rec(d, q).data
<1>1. /\ d \in Disk /\ Ordered(d, Nodes(d)) /\ p \in Nodes(d)
      /\ NextOf(d, p) = Rec(d, p).next /\ p # Nil /\ p # Header
      /\ \A q \in Nodes(d) : Rec(d, q).data \in Int
  <2>1. d \in Disk /\ Ordered(d, Nodes(d)) /\ p \in Nodes(d)
    BY DEF Good, Linked, EndsAt
  <2> QED BY <2>1, NodeTyped
<1>2. CASE Rec(d, p).data <= key
  <2>1. first = NextOf(d, p)
    BY <1>1, <1>2
  <2>2. \A q \in Nodes(d) : Rec(d, q).data <= key => Rec(d, q).data <= Rec(d, p).data
    BY <1>1, <1>2 DEF EndsAt
  <2>3. first \in Nodes(d) \union {Nil}
    BY <1>1, <2>1 DEF Ordered
  <2>4. ASSUME first # Nil
        PROVE  key < Rec(d, first).data
    <3>1. Rec(d, p).data < Rec(d, first).data
      BY <1>1, <2>1, <2>4 DEF Ordered, Precedes
    <3> QED BY <1>1, <2>2, <2>3, <2>4, <3>1
  <2>5. ASSUME NEW q \in Nodes(d), key < Rec(d, q).data
        PROVE  first # Nil /\ Rec(d, first).data <= Rec(d, q).data
    <3>1. Precedes(d, p, q)
      BY <1>1, <1>2, <2>5 DEF Precedes
    <3> QED BY <1>1, <2>1, <3>1 DEF Ordered
  <2> QED BY <2>3, <2>4, <2>5
<1>3. CASE ~ (Rec(d, p).data <= key)
  <2>1. first = p /\ key < Rec(d, p).data
    BY <1>1, <1>3
  <2>2. \A q \in Nodes(d) : key <= Rec(d, q).data => Rec(d, p).data <= Rec(d, q).data
    BY <1>1, <1>3 DEF EndsAt
  <2> QED BY <1>1, <2>1, <2>2
<1> QED BY <1>2, <1>3

LEMMA RangeSearchIs ==
  ASSUME NEW d, Good(d), NEW begin \in Int, NEW end \in Int
  PROVE  RangeSearch(d, begin, end) = UNION {Content(d, Nodes(d), k) : k \in begin..end \cap Key}
<1> DEFINE b == BinarySearch(d, begin)
           p == StopAt(d, b, begin)
           first == IF Rec(d, p).data <= begin THEN Rec(d, p).next ELSE p
           rest == Chain(d, first)
           taken == {i \in 1..Len(rest) : \A j \in 1..i : Rec(d, rest[j]).data <= end}
           answer == UNION {Content(d, Nodes(d), k) : k \in begin..end \cap Key}
<1>1. RangeSearch(d, begin, end) =
        IF begin > end \/ b.location = "EMPTY_FILE" THEN {}
        ELSE Search(d, begin) \union UNION {AllRaw(d, rest[i]) : i \in taken}
  BY DEF RangeSearch
<1>2. CASE Len(d.index) = 0
  BY <1>1, <1>2, NoIndexNoContent
<1>3. CASE Len(d.index) # 0 /\ begin > end
  <2>1. begin..end = {}
    BY <1>3
  <2> QED BY <1>1, <1>3, <2>1
<1>4. CASE Len(d.index) # 0 /\ begin <= end
  <2>1. b.location # "EMPTY_FILE" /\ EndsAt(d, begin, p)
    BY <1>4, StopsWhere
  <2>2. /\ d \in Disk /\ Ordered(d, Nodes(d))
        /\ \A q \in Nodes(d) : Rec(d, q).data \in Int /\ Rec(d, q).data \in Key
    BY NodeTyped DEF Good, Linked
  <2> HIDE DEF b, p
  <2>3. /\ first \in Nodes(d) \union {Nil}
        /\ first # Nil => begin < Rec(d, first).data
        /\ \A q \in Nodes(d) : begin < Rec(d, q).data =>
             first # Nil /\ Rec(d, first).data <= Rec(d, q).data
    BY <2>1, FirstAbove
  <2> HIDE DEF first
  <2>4. /\ rest \in Seq(Nodes(d)) /\ Len(rest) \in Nat
        /\ rest = <<>> <=> first = Nil
        /\ rest # <<>> => rest[1] = first
        /\ \A i, j \in 1..Len(rest) : i < j => Rec(d, rest[i]).data < Rec(d, rest[j]).data
        /\ \A q \in Nodes(d) : first # Nil /\ Rec(d, first).data <= Rec(d, q).data =>
             \E i \in 1..Len(rest) : rest[i] = q
    BY <2>2, <2>3, ChainIs
  <2> HIDE DEF rest
  <2>5. \A i \in 1..Len(rest) : rest[i] \in Nodes(d)
    BY <2>4, ElementOfSeq
  <2>6. \A i \in 1..Len(rest) : begin < Rec(d, rest[i]).data
    <3> SUFFICES ASSUME NEW i \in 1..Len(rest)
                 PROVE  begin < Rec(d, rest[i]).data
      OBVIOUS
    <3>1. 1 \in 1..Len(rest) /\ (i = 1 \/ 1 < i)
      BY <2>4
    <3>2. rest # <<>> /\ first # Nil /\ rest[1] = first
      BY <2>4, <3>1
    <3>3. Rec(d, rest[1]).data <= Rec(d, rest[i]).data
      BY <2>2, <2>4, <2>5, <3>1
    <3> QED BY <2>2, <2>3, <2>5, <3>1, <3>2, <3>3
  <2>7. \A i \in 1..Len(rest) : i \in taken <=> Rec(d, rest[i]).data <= end
    <3> SUFFICES ASSUME NEW i \in 1..Len(rest), Rec(d, rest[i]).data <= end, NEW j \in 1..i
                 PROVE  Rec(d, rest[j]).data <= end
      BY <2>4
    <3>1. j \in 1..Len(rest) /\ (j = i \/ j < i)
      BY <2>4
    <3> QED BY <2>2, <2>4, <2>5, <3>1
  <2> HIDE DEF taken
  <2>8. taken \subseteq 1..Len(rest)
    BY DEF taken
  <2>9. \A raw : raw \in UNION {AllRaw(d, rest[i]) : i \in taken} <=>
                 \E q \in Nodes(d) : begin < Rec(d, q).data /\ Rec(d, q).data <= end /\ raw \in AllRaw(d, q)
    <3> TAKE raw
    <3>1. ASSUME NEW i \in taken, raw \in AllRaw(d, rest[i])
          PROVE  \E q \in Nodes(d) : begin < Rec(d, q).data /\ Rec(d, q).data <= end /\ raw \in AllRaw(d, q)
      BY <2>5, <2>6, <2>7, <2>8, <3>1
    <3>2. ASSUME NEW q \in Nodes(d), begin < Rec(d, q).data, Rec(d, q).data <= end, raw \in AllRaw(d, q)
          PROVE  \E i \in taken : raw \in AllRaw(d, rest[i])
      <4>1. PICK i \in 1..Len(rest) : rest[i] = q
        BY <2>3, <2>4, <3>2
      <4> QED BY <2>7, <3>2, <4>1
    <3> QED BY <3>1, <3>2
  <2>10. \A raw : raw \in Content(d, Nodes(d), begin) <=>
                  \E q \in Nodes(d) : Rec(d, q).data = begin /\ raw \in AllRaw(d, q)
    BY DEF Content
  <2>11. \A raw : raw \in answer <=>
                  \E q \in Nodes(d) : begin <= Rec(d, q).data /\ Rec(d, q).data <= end /\ raw \in AllRaw(d, q)
    <3> TAKE raw
    <3>1. ASSUME NEW k \in begin..end \cap Key, NEW q \in Nodes(d), Rec(d, q).data = k, raw \in AllRaw(d, q)
          PROVE  begin <= Rec(d, q).data /\ Rec(d, q).data <= end
      BY <3>1
    <3>2. ASSUME NEW q \in Nodes(d), begin <= Rec(d, q).data, Rec(d, q).data <= end
          PROVE  Rec(d, q).data \in begin..end \cap Key
      BY <2>2, <3>2
    <3> QED BY <3>1, <3>2 DEF Content
  <2>12. Search(d, begin) = Content(d, Nodes(d), begin)
    BY SearchIs
  <2>13. RangeSearch(d, begin, end) =
           Content(d, Nodes(d), begin) \union UNION {AllRaw(d, rest[i]) : i \in taken}
    BY <1>1, <1>4, <2>1, <2>12
  <2> HIDE DEF answer
  <2>14. ASSUME NEW q \in Nodes(d)
         PROVE  begin <= Rec(d, q).data /\ Rec(d, q).data <= end <=>
                  \/ Rec(d, q).data = begin
                  \/ begin < Rec(d, q).data /\ Rec(d, q).data <= end
    BY <1>4, <2>2
  <2>15. \A raw : raw \in RangeSearch(d, begin, end) <=> raw \in answer
    BY <2>9, <2>10, <2>11, <2>13, <2>14
  <2> QED BY <2>15 DEF answer
<1> QED BY <1>2, <1>3, <1>4

\* search answers with every position of the key and range_search with those of every key
\* between the two it is given, wherever the records are: in the index file, among the
\* overflow records, or among the duplicates of either.
THEOREM SearchesAgree == CarefulSpec => []SearchAgrees
<1>1. IInv => SearchAgrees
  <2> SUFFICES ASSUME Good(disk) PROVE SearchAgrees
    BY DEF IInv
  <2>1. \A k \in Key : k \in Int /\ Entries[k] = Content(disk, Nodes(disk), k)
    BY EntriesAre, SeqIndexAssumption DEF EntriesIn
  <2>2. \A key \in Key : Search(disk, key) = Entries[key]
    BY <2>1, SearchIs
  <2>3. ASSUME NEW begin \in Key, NEW end \in Key
        PROVE  RangeSearch(disk, begin, end) = UNION {Entries[key] : key \in begin..end \cap Key}
    <3>1. RangeSearch(disk, begin, end) =
            UNION {Content(disk, Nodes(disk), k) : k \in begin..end \cap Key}
      BY <2>1, RangeSearchIs
    <3>2. {Content(disk, Nodes(disk), k) : k \in begin..end \cap Key} =
            {Entries[key] : key \in begin..end \cap Key}
      BY <2>1
    <3> QED BY <3>1, <3>2
  <2> QED BY <2>2, <2>3 DEF SearchAgrees
<1> QED BY <1>1, FilesStayGood, PTL
==============================================================================
