-------------------------- MODULE NodeTrustProofs --------------------------
(***************************************************************************)
(* What a node records of its own experience and of what peers say is      *)
(* about the Edge it should be about, for any Edges, peers, tags, pools    *)
(* and histories; and what the rules of trust/choose compute, for any      *)
(* candidates.                                                             *)
(***************************************************************************)
EXTENDS NodeTrust, SequenceTheorems, FiniteSetTheorems, WellFoundedInduction, TLAPS

-----------------------------------------------------------------------------
(* Numbers, lists and loops. *)

LessThan == {x \in Nat \X Nat : x[1] < x[2]}

LEMMA NatMin == ASSUME NEW B, B \subseteq Nat, B # {} PROVE \E n \in B : \A m \in B : n <= m
<1>1. IsWellFoundedOn(LessThan, Nat)
  BY NatLessThanWellFounded DEF OpToRel, LessThan
<1>2. PICK n \in B : \A m \in B : ~(<<m, n>> \in LessThan)
  BY <1>1, WFMin
<1>3. \A m \in B : ~(m < n)
  BY <1>2 DEF LessThan
<1> QED
  BY <1>3

LEMMA MinIn == ASSUME NEW B, B \subseteq Nat, B # {} PROVE Min(B) \in B /\ \A m \in B : Min(B) <= m
<1>1. \E n \in B : \A m \in B : n <= m
  BY NatMin
<1> QED
  BY <1>1 DEF Min

(* Induction over a set of numbers, which the provers can instantiate. *)
LEMMA Induct ==
    ASSUME NEW S, 0 \in S, \A n \in Nat : n \in S => n + 1 \in S
    PROVE  Nat \subseteq S
<1> SUFFICES ASSUME NEW bad \in Nat, bad \notin S PROVE FALSE
  OBVIOUS
<1> DEFINE B == {n \in Nat : n \notin S}
<1>1. PICK n \in B : \A m \in B : n <= m
  <2>1. B \subseteq Nat /\ B # {}
    OBVIOUS
  <2> HIDE DEF B
  <2> QED
    BY <2>1, NatMin
<1>2. n # 0 /\ n - 1 \in Nat /\ ~(n <= n - 1)
  OBVIOUS
<1>3. n - 1 \in S
  BY <1>1, <1>2
<1> QED
  BY <1>2, <1>3

(* A loop of N passes that takes x to G[x, i] has a result of its type. *)
Loop(f, X, base, N, G) ==
    f \in [0..N -> X] /\ f[0] = base /\ \A i \in 1..N : f[i] = G[<<f[i - 1], i>>]

LEMMA LoopExists ==
    ASSUME NEW X, NEW base \in X, NEW N \in Nat, NEW G \in [X \X (1..N) -> X]
    PROVE  \E f : Loop(f, X, base, N, G)
<1> DEFINE Upto(n) == \E f \in [0..n -> X] : f[0] = base /\ \A i \in 1..n : f[i] = G[<<f[i - 1], i>>]
           S == {n \in Nat : n <= N => Upto(n)}
<1>1. 0 \in S
  <2>1. [i \in 0..0 |-> base] \in [0..0 -> X]
    OBVIOUS
  <2>2. Upto(0)
    <3> WITNESS [i \in 0..0 |-> base] \in [0..0 -> X]
    <3> QED
      OBVIOUS
  <2> QED
    BY <2>2
<1>2. ASSUME NEW n \in Nat, n \in S PROVE n + 1 \in S
  <2> SUFFICES ASSUME n + 1 <= N PROVE Upto(n + 1)
    OBVIOUS
  <2>1. PICK f \in [0..n -> X] : f[0] = base /\ \A i \in 1..n : f[i] = G[<<f[i - 1], i>>]
    BY <1>2
  <2> DEFINE g == [i \in 0..(n + 1) |-> IF i <= n THEN f[i] ELSE G[<<f[n], n + 1>>]]
  <2>2. n + 1 \in 1..N /\ f[n] \in X
    BY <2>1
  <2>3. G[<<f[n], n + 1>>] \in X
    BY <2>2
  <2>4. g \in [0..(n + 1) -> X]
    BY <2>1, <2>3
  <2>5. g[0] = base
    BY <2>1
  <2>6. ASSUME NEW i \in 1..(n + 1) PROVE g[i] = G[<<g[i - 1], i>>]
    <3>1. CASE i <= n
      <4>1. i \in 1..n /\ i - 1 \in 0..n /\ i - 1 <= n
        BY <3>1
      <4>2. g[i] = f[i] /\ g[i - 1] = f[i - 1]
        BY <3>1, <4>1
      <4> QED
        BY <2>1, <4>1, <4>2
    <3>2. CASE ~(i <= n)
      <4>1. i = n + 1 /\ n \in 0..(n + 1) /\ i - 1 = n
        BY <3>2
      <4>2. g[i] = G[<<f[n], n + 1>>] /\ g[n] = f[n]
        BY <4>1
      <4> QED
        BY <4>1, <4>2
    <3> QED
      BY <3>1, <3>2
  <2> HIDE DEF g
  <2> QED
    BY <2>4, <2>5, <2>6
<1>3. Nat \subseteq S
  <2> HIDE DEF S
  <2> QED
    BY <1>1, <1>2, Induct
<1>4. N \in S
  BY <1>3
<1> HIDE DEF Upto
<1>5. Upto(N)
  BY <1>4
<1> QED
  BY <1>5 DEF Upto, Loop

LEMMA RemoveAtProperties ==
    ASSUME NEW S, NEW s \in Seq(S), NEW i \in 1..Len(s)
    PROVE  /\ RemoveAt(s, i) \in Seq(S)
           /\ Len(RemoveAt(s, i)) = Len(s) - 1
           /\ \A k \in 1..(Len(s) - 1) : RemoveAt(s, i)[k] = IF k < i THEN s[k] ELSE s[k + 1]
<1>1. Len(s) \in Nat /\ \A k \in 1..Len(s) : s[k] \in S
  BY LenProperties
<1> DEFINE l == SubSeq(s, 1, i - 1)
           r == SubSeq(s, i + 1, Len(s))
<1>2. l \in Seq(S) /\ Len(l) = i - 1 /\ \A k \in 1..(i - 1) : l[k] = s[k]
  <2>1. \A k \in 1..(i - 1) : s[k] \in S
    BY <1>1
  <2> QED
    BY <1>1, <2>1, SubSeqProperties
<1>3. r \in Seq(S) /\ Len(r) = Len(s) - i /\ \A k \in 1..(Len(s) - i) : r[k] = s[i + k]
  <2>1. \A k \in (i + 1)..Len(s) : s[k] \in S
    BY <1>1
  <2> QED
    BY <1>1, <2>1, SubSeqProperties
<1> HIDE DEF l, r
<1>0. /\ l \o r \in Seq(S) /\ Len(l \o r) = Len(l) + Len(r)
      /\ \A k \in 1..(Len(l) + Len(r)) : (l \o r)[k] = IF k <= Len(l) THEN l[k] ELSE r[k - Len(l)]
  BY <1>2, <1>3, ConcatProperties
<1>4. /\ l \o r \in Seq(S) /\ Len(l \o r) = Len(s) - 1
      /\ \A k \in 1..(Len(s) - 1) : (l \o r)[k] = IF k <= i - 1 THEN l[k] ELSE r[k - (i - 1)]
  BY <1>0, <1>1, <1>2, <1>3
<1>5. RemoveAt(s, i) = l \o r
  BY DEF RemoveAt, l, r
<1>6. ASSUME NEW k \in 1..(Len(s) - 1) PROVE (l \o r)[k] = IF k < i THEN s[k] ELSE s[k + 1]
  <2>1. CASE k < i
    BY <1>1, <1>2, <1>4, <2>1
  <2>2. CASE ~(k < i)
    <3>1. k - (i - 1) \in 1..(Len(s) - i) /\ i + (k - (i - 1)) = k + 1 /\ ~(k <= i - 1)
      BY <1>1, <2>2
    <3> QED
      BY <1>3, <1>4, <2>2, <3>1
  <2> QED
    BY <2>1, <2>2
<1> QED
  BY <1>4, <1>5, <1>6

(* Taking one place out of a list without repetitions. *)
LEMMA RemoveAtInjective ==
    ASSUME NEW S, NEW s \in Seq(S), IsInjective(s), NEW i \in 1..Len(s)
    PROVE  IsInjective(RemoveAt(s, i)) /\ ToSet(RemoveAt(s, i)) = ToSet(s) \ {s[i]}
<1> DEFINE r == RemoveAt(s, i)
<1>1. /\ r \in Seq(S) /\ Len(r) = Len(s) - 1
      /\ \A k \in 1..(Len(s) - 1) : r[k] = IF k < i THEN s[k] ELSE s[k + 1]
  BY RemoveAtProperties
<1> HIDE DEF r
<1>2. DOMAIN r = 1..(Len(s) - 1) /\ DOMAIN s = 1..Len(s) /\ Len(s) \in Nat
  BY <1>1, LenProperties
<1>3. \A j, k \in 1..Len(s) : s[j] = s[k] => j = k
  BY <1>2 DEF IsInjective
<1>4. IsInjective(r)
  <2> SUFFICES ASSUME NEW j \in 1..(Len(s) - 1), NEW k \in 1..(Len(s) - 1), r[j] = r[k] PROVE j = k
    BY <1>2 DEF IsInjective
  <2> QED
    BY <1>1, <1>2, <1>3
<1>5. ASSUME NEW x \in ToSet(r) PROVE x \in ToSet(s) /\ x # s[i]
  <2>1. PICK k \in 1..(Len(s) - 1) : x = r[k]
    BY <1>2, <1>5 DEF ToSet
  <2>2. PICK j \in 1..Len(s) : x = s[j] /\ j # i
    BY <1>1, <1>2, <2>1
  <2> QED
    BY <1>2, <1>3, <2>2 DEF ToSet
<1>6. ASSUME NEW x \in ToSet(s), x # s[i] PROVE x \in ToSet(r)
  <2>1. PICK j \in 1..Len(s) : x = s[j] /\ j # i
    BY <1>2, <1>6 DEF ToSet
  <2>2. CASE j < i
    <3>1. j \in 1..(Len(s) - 1)
      BY <1>2, <2>2
    <3>2. r[j] = s[j]
      BY <1>1, <2>2, <3>1
    <3> QED
      BY <1>2, <2>1, <3>1, <3>2 DEF ToSet
  <2>3. CASE j > i
    <3>1. j - 1 \in 1..(Len(s) - 1) /\ ~(j - 1 < i) /\ (j - 1) + 1 = j
      BY <1>2, <2>3
    <3>2. r[j - 1] = x
      BY <1>1, <2>1, <3>1
    <3> QED
      BY <1>2, <3>1, <3>2 DEF ToSet
  <2> QED
    BY <2>1, <2>2, <2>3
<1>7. ToSet(r) = ToSet(s) \ {s[i]}
  BY <1>5, <1>6
<1> QED
  BY <1>4, <1>7 DEF r

LEMMA RemoveFirstInjective ==
    ASSUME NEW S, NEW s \in Seq(S), IsInjective(s), NEW x
    PROVE  /\ RemoveFirst(s, x) \in Seq(S)
           /\ IsInjective(RemoveFirst(s, x))
           /\ ToSet(RemoveFirst(s, x)) = ToSet(s) \ {x}
           /\ x \in ToSet(s) => Len(RemoveFirst(s, x)) = Len(s) - 1
<1>0. Len(s) \in Nat /\ DOMAIN s = 1..Len(s)
  BY LenProperties
<1>1. CASE \E i \in 1..Len(s) : s[i] = x
  <2> DEFINE I == {i \in 1..Len(s) : s[i] = x}
  <2>0. I \subseteq Nat /\ I # {}
    BY <1>0, <1>1
  <2>1. Min(I) \in I
    <3> HIDE DEF I
    <3> QED
      BY <2>0, MinIn
  <2>2. RemoveFirst(s, x) = RemoveAt(s, Min(I))
    BY <1>1 DEF RemoveFirst, SelectInSeq
  <2>3. Min(I) \in 1..Len(s) /\ s[Min(I)] = x
    BY <2>1
  <2> HIDE DEF I
  <2> QED
    BY <2>2, <2>3, RemoveAtProperties, RemoveAtInjective
<1>2. CASE ~\E i \in 1..Len(s) : s[i] = x
  <2>1. RemoveFirst(s, x) = s
    BY <1>2 DEF RemoveFirst
  <2>2. x \notin ToSet(s)
    BY <1>0, <1>2 DEF ToSet
  <2> QED
    BY <2>1, <2>2
<1> QED
  BY <1>1, <1>2

LEMMA ConsProperties ==
    ASSUME NEW S, NEW s \in Seq(S), NEW x \in S
    PROVE  /\ <<x>> \o s \in Seq(S)
           /\ Len(<<x>> \o s) = Len(s) + 1
           /\ ToSet(<<x>> \o s) = ToSet(s) \cup {x}
           /\ IsInjective(s) /\ x \notin ToSet(s) => IsInjective(<<x>> \o s)
<1> DEFINE h == <<x>>
           r == h \o s
<1>1. h \in Seq(S) /\ Len(h) = 1 /\ h[1] = x
  OBVIOUS
<1> HIDE DEF h
<1>0. /\ r \in Seq(S) /\ Len(r) = Len(h) + Len(s)
      /\ \A i \in 1..(Len(h) + Len(s)) : r[i] = IF i <= Len(h) THEN h[i] ELSE s[i - Len(h)]
  BY <1>1, ConcatProperties
<1> HIDE DEF r
<1>2. /\ r \in Seq(S) /\ Len(r) = 1 + Len(s)
      /\ \A i \in 1..(1 + Len(s)) : r[i] = IF i <= 1 THEN h[i] ELSE s[i - 1]
  BY <1>0, <1>1
<1>3. DOMAIN r = 1..(1 + Len(s)) /\ DOMAIN s = 1..Len(s) /\ Len(s) \in Nat
  BY <1>2, LenProperties
<1>4. r[1] = x /\ \A i \in 1..Len(s) : i + 1 \in DOMAIN r /\ r[i + 1] = s[i]
  BY <1>1, <1>2, <1>3
<1>5. \A i \in DOMAIN r : r[i] = x \/ (i - 1 \in 1..Len(s) /\ r[i] = s[i - 1])
  BY <1>1, <1>2, <1>3
<1>6. ToSet(r) = ToSet(s) \cup {x}
  <2>1. ToSet(r) = {r[i] : i \in DOMAIN r} /\ ToSet(s) = {s[i] : i \in 1..Len(s)} /\ 1 \in DOMAIN r
    BY <1>3 DEF ToSet
  <2>2. ToSet(r) \subseteq ToSet(s) \cup {x}
    BY <1>5, <2>1
  <2>3. ToSet(s) \cup {x} \subseteq ToSet(r)
    BY <1>4, <2>1
  <2> QED
    BY <2>2, <2>3
<1>7. ASSUME IsInjective(s), x \notin ToSet(s) PROVE IsInjective(r)
  <2>1. \A i \in 1..Len(s) : s[i] # x
    BY <1>3, <1>7 DEF ToSet
  <2>2. \A i, j \in 1..Len(s) : s[i] = s[j] => i = j
    BY <1>3, <1>7 DEF IsInjective
  <2> SUFFICES ASSUME NEW i \in 1..(1 + Len(s)), NEW j \in 1..(1 + Len(s)), r[i] = r[j] PROVE i = j
    BY <1>3 DEF IsInjective
  <2>3. \A k \in 1..(1 + Len(s)) : k # 1 => k - 1 \in 1..Len(s) /\ r[k] = s[k - 1]
    <3> SUFFICES ASSUME NEW k \in 1..(1 + Len(s)), k # 1 PROVE k - 1 \in 1..Len(s) /\ r[k] = s[k - 1]
      OBVIOUS
    <3>1. k - 1 \in 1..Len(s) /\ k - 1 + 1 = k
      BY <1>3
    <3> QED
      BY <1>4, <3>1
  <2>4. CASE i = 1 \/ j = 1
    BY <1>4, <2>1, <2>3, <2>4
  <2>5. CASE i # 1 /\ j # 1
    <3>1. i - 1 = j - 1
      BY <2>2, <2>3, <2>5
    <3> QED
      BY <1>3, <3>1
  <2> QED
    BY <2>4, <2>5
<1> QED
  BY <1>2, <1>6, <1>7 DEF r, h

(* Two lists have no repetitions together if each has none and they share nothing. *)
LEMMA ConcatInjective ==
    ASSUME NEW S, NEW s \in Seq(S), NEW t \in Seq(S)
    PROVE  IsInjective(s \o t) <=> /\ IsInjective(s) /\ IsInjective(t)
                                   /\ ToSet(s) \cap ToSet(t) = {}
<1> DEFINE r == s \o t
<1>1. /\ r \in Seq(S) /\ Len(r) = Len(s) + Len(t)
      /\ \A i \in 1..(Len(s) + Len(t)) : r[i] = IF i <= Len(s) THEN s[i] ELSE t[i - Len(s)]
  BY ConcatProperties
<1> HIDE DEF r
<1>2. /\ DOMAIN r = 1..(Len(s) + Len(t)) /\ DOMAIN s = 1..Len(s) /\ DOMAIN t = 1..Len(t)
      /\ Len(s) \in Nat /\ Len(t) \in Nat
  BY <1>1, LenProperties
<1>3. \A i \in 1..Len(s) : i \in DOMAIN r /\ r[i] = s[i]
  BY <1>1, <1>2
<1>4. \A i \in 1..Len(t) : i + Len(s) \in DOMAIN r /\ r[i + Len(s)] = t[i]
  BY <1>1, <1>2
<1>5. ASSUME IsInjective(r) PROVE IsInjective(s) /\ IsInjective(t) /\ ToSet(s) \cap ToSet(t) = {}
  <2>1. IsInjective(s)
    BY <1>2, <1>3, <1>5 DEF IsInjective
  <2>2. IsInjective(t)
    <3> SUFFICES ASSUME NEW i \in 1..Len(t), NEW j \in 1..Len(t), t[i] = t[j] PROVE i = j
      BY <1>2 DEF IsInjective
    <3>1. i + Len(s) = j + Len(s)
      BY <1>4, <1>5 DEF IsInjective
    <3> QED
      BY <1>2, <3>1
  <2>3. ASSUME NEW i \in 1..Len(s), NEW j \in 1..Len(t), s[i] = t[j] PROVE FALSE
    <3>1. i = j + Len(s)
      BY <1>3, <1>4, <1>5, <2>3 DEF IsInjective
    <3> QED
      BY <1>2, <3>1
  <2>4. ToSet(s) \cap ToSet(t) = {}
    BY <1>2, <2>3 DEF ToSet
  <2> QED
    BY <2>1, <2>2, <2>4
<1>6. ASSUME IsInjective(s), IsInjective(t), ToSet(s) \cap ToSet(t) = {} PROVE IsInjective(r)
  <2>1. \A i \in 1..Len(s), j \in 1..Len(t) : s[i] # t[j]
    BY <1>2, <1>6 DEF ToSet
  <2>2. \A i, j \in 1..Len(s) : s[i] = s[j] => i = j
    BY <1>2, <1>6 DEF IsInjective
  <2>3. \A i, j \in 1..Len(t) : t[i] = t[j] => i = j
    BY <1>2, <1>6 DEF IsInjective
  <2> SUFFICES ASSUME NEW i \in DOMAIN r, NEW j \in DOMAIN r, r[i] = r[j] PROVE i = j
    BY DEF IsInjective
  <2>4. \A k \in DOMAIN r : \/ k \in 1..Len(s) /\ r[k] = s[k]
                            \/ k - Len(s) \in 1..Len(t) /\ r[k] = t[k - Len(s)]
    BY <1>1, <1>2
  <2>5. CASE i \in 1..Len(s) /\ r[i] = s[i]
    BY <2>1, <2>2, <2>4, <2>5
  <2>6. CASE i - Len(s) \in 1..Len(t) /\ r[i] = t[i - Len(s)]
    <3>1. CASE j \in 1..Len(s) /\ r[j] = s[j]
      BY <2>1, <2>6, <3>1
    <3>2. CASE j - Len(s) \in 1..Len(t) /\ r[j] = t[j - Len(s)]
      <4>1. i - Len(s) = j - Len(s)
        BY <2>3, <2>6, <3>2
      <4> QED
        BY <1>2, <4>1
    <3> QED
      BY <2>4, <3>1, <3>2
  <2> QED
    BY <2>4, <2>5, <2>6
<1> QED
  BY <1>5, <1>6 DEF r

LEMMA AppendList ==
    ASSUME NEW S, NEW s \in Seq(S), NEW x \in S
    PROVE  /\ Append(s, x) \in Seq(S)
           /\ ToSet(Append(s, x)) = ToSet(s) \cup {x}
           /\ IsInjective(s) /\ x \notin ToSet(s) => IsInjective(Append(s, x))
<1> DEFINE r == Append(s, x)
<1>1. /\ r \in Seq(S) /\ Len(r) = Len(s) + 1
      /\ \A i \in 1..Len(s) : r[i] = s[i]
      /\ r[Len(s) + 1] = x
  BY AppendProperties
<1> HIDE DEF r
<1>2. DOMAIN r = 1..(Len(s) + 1) /\ DOMAIN s = 1..Len(s) /\ Len(s) \in Nat
  BY <1>1, LenProperties
<1>3. \A i \in 1..(Len(s) + 1) : i \in 1..Len(s) \/ i = Len(s) + 1
  BY <1>2
<1>4. \A i \in 1..Len(s) : i \in 1..(Len(s) + 1)
  BY <1>2
<1>5. Len(s) + 1 \in 1..(Len(s) + 1)
  BY <1>2
<1>6. ToSet(r) = ToSet(s) \cup {x}
  BY <1>1, <1>2, <1>3, <1>4, <1>5 DEF ToSet
<1>7. ASSUME IsInjective(s), x \notin ToSet(s) PROVE IsInjective(r)
  BY <1>1, <1>2, <1>3, <1>7 DEF IsInjective, ToSet
<1> QED
  BY <1>1, <1>6, <1>7 DEF r

-----------------------------------------------------------------------------
(* The candidates for a task are the Edges that are listed and usable. *)

KeepStep(x, b) == IF Usable(b) THEN Append(x, b) ELSE x

LEMMA KeptExists ==
    ASSUME edge_resources \in Seq(EdgeBlocks)
    PROVE  \E f : /\ f = [i \in 0..Len(edge_resources) |-> IF i = 0 THEN <<>>
                                             ELSE KeepStep(f[i - 1], edge_resources[i])]
                  /\ Candidates = f[Len(edge_resources)]
<1> DEFINE N == Len(edge_resources)
           Fn(f) == [i \in 0..N |-> IF i = 0 THEN <<>>
                                    ELSE LET b == edge_resources[i]
                                         IN IF Usable(b) THEN Append(f[i - 1], b) ELSE f[i - 1]]
           f0 == CHOOSE f : f = Fn(f)
           X == Seq(EdgeBlocks)
           G == [z \in X \X (1..N) |-> KeepStep(z[1], edge_resources[z[2]])]
           none == <<>>
<1>1. N \in Nat /\ \A i \in 1..N : edge_resources[i] \in EdgeBlocks
  BY LenProperties
<1>2. G \in [X \X (1..N) -> X]
  <2> SUFFICES ASSUME NEW x \in X, NEW i \in 1..N PROVE KeepStep(x, edge_resources[i]) \in X
    OBVIOUS
  <2>1. edge_resources[i] \in EdgeBlocks
    BY <1>1
  <2> QED
    BY <2>1, AppendProperties DEF KeepStep
<1>3. none \in X
  OBVIOUS
<1>4. PICK f \in [0..N -> X] : f[0] = none /\ \A i \in 1..N : f[i] = G[<<f[i - 1], i>>]
  <2>1. N \in Nat
    BY <1>1
  <2> HIDE DEF N, X, G, none
  <2>2. \E f : Loop(f, X, none, N, G)
    BY <1>2, <1>3, <2>1, LoopExists
  <2> QED
    BY <2>2 DEF Loop
<1>5. \A i \in 1..N : i - 1 \in 0..N /\ f[i] = KeepStep(f[i - 1], edge_resources[i])
  <2> SUFFICES ASSUME NEW i \in 1..N PROVE i - 1 \in 0..N /\ f[i] = KeepStep(f[i - 1], edge_resources[i])
    OBVIOUS
  <2>1. i - 1 \in 0..N
    BY <1>1
  <2>2. f[i - 1] \in X
    <3> HIDE DEF X
    <3> QED
      BY <1>4, <2>1
  <2>3. G[<<f[i - 1], i>>] = KeepStep(f[i - 1], edge_resources[i])
    <3> HIDE DEF X
    <3> QED
      BY <2>2
  <2> QED
    BY <1>4, <2>1, <2>3
<1>6. \A i \in 0..N : i # 0 => i \in 1..N
  BY <1>1
<1>7. f = Fn(f)
  <2> HIDE DEF X, G
  <2> QED
    BY <1>4, <1>5, <1>6 DEF KeepStep
<1>8. f0 = Fn(f0)
  <2> HIDE DEF Fn
  <2> QED
    BY <1>7
<1>9. Candidates = f0[N]
  BY DEF Candidates
<1> HIDE DEF f0
<1> QED
  BY <1>8, <1>9 DEF KeepStep

LEMMA CandidatesUsable ==
    ASSUME edge_resources \in Seq(EdgeBlocks), IsInjective(edge_resources)
    PROVE  /\ Candidates \in Seq(EdgeBlocks)
           /\ IsInjective(Candidates)
           /\ ToSet(Candidates) = {b \in ToSet(edge_resources) : Usable(b)}
<1> DEFINE N == Len(edge_resources)
           First(i) == {edge_resources[j] : j \in 1..i}
           Good(x, i) == /\ x \in Seq(EdgeBlocks) /\ IsInjective(x)
                         /\ ToSet(x) = {b \in First(i) : Usable(b)}
<1>1. /\ N \in Nat /\ DOMAIN edge_resources = 1..N
      /\ \A i \in 1..N : edge_resources[i] \in EdgeBlocks
  BY LenProperties
<1>2. PICK f : /\ f = [i \in 0..N |-> IF i = 0 THEN <<>> ELSE KeepStep(f[i - 1], edge_resources[i])]
               /\ Candidates = f[N]
  BY KeptExists
<1> DEFINE S == {n \in Nat : n <= N => Good(f[n], n)}
<1>3. 0 \in S
  <2>1. f[0] = <<>>
    BY <1>1, <1>2
  <2>2. First(0) = {}
    OBVIOUS
  <2>3. <<>> \in Seq(EdgeBlocks) /\ IsInjective(<<>>) /\ ToSet(<<>>) = {}
    BY DEF IsInjective, ToSet
  <2> QED
    BY <2>1, <2>2, <2>3
<1>4. ASSUME NEW n \in Nat, n \in S PROVE n + 1 \in S
  <2> SUFFICES ASSUME n + 1 <= N PROVE Good(f[n + 1], n + 1)
    OBVIOUS
  <2> DEFINE b == edge_resources[n + 1]
  <2>1. Good(f[n], n)
    BY <1>1, <1>4
  <2>2. n + 1 \in 0..N /\ n + 1 # 0 /\ n + 1 - 1 = n /\ n + 1 \in 1..N
    BY <1>1
  <2>3. f[n + 1] = KeepStep(f[n], b)
    BY <1>2, <2>2
  <2>4. b \in EdgeBlocks
    BY <1>1, <2>2
  <2>5. First(n + 1) = First(n) \cup {b}
    <3>1. \A j \in 1..(n + 1) : j \in 1..n \/ j = n + 1
      OBVIOUS
    <3>2. \A j \in 1..n : j \in 1..(n + 1)
      OBVIOUS
    <3> QED
      BY <2>2, <3>1, <3>2
  <2>6. b \notin First(n)
    <3> SUFFICES ASSUME NEW j \in 1..n, edge_resources[j] = b PROVE FALSE
      OBVIOUS
    <3>1. j \in 1..N /\ j # n + 1
      BY <1>1
    <3> QED
      BY <1>1, <2>2, <3>1 DEF IsInjective
  <2>7. CASE Usable(b)
    <3>1. f[n + 1] = Append(f[n], b)
      BY <2>3, <2>7 DEF KeepStep
    <3>2. f[n] \in Seq(EdgeBlocks) /\ IsInjective(f[n]) /\ b \notin ToSet(f[n])
      BY <2>1, <2>6
    <3>3. ToSet(f[n]) \cup {b} = {d \in First(n + 1) : Usable(d)}
      BY <2>1, <2>5, <2>7
    <3> HIDE DEF First, b
    <3> QED
      BY <2>4, <3>1, <3>2, <3>3, AppendList
  <2>8. CASE ~Usable(b)
    <3>1. f[n + 1] = f[n]
      BY <2>3, <2>8 DEF KeepStep
    <3>2. {d \in First(n + 1) : Usable(d)} = {d \in First(n) : Usable(d)}
      BY <2>5, <2>8
    <3> HIDE DEF First
    <3> QED
      BY <2>1, <3>1, <3>2
  <2> QED
    BY <2>7, <2>8
<1>5. Nat \subseteq S
  <2> HIDE DEF S
  <2> QED
    BY <1>3, <1>4, Induct
<1>6. Good(f[N], N)
  <2> HIDE DEF Good
  <2> QED
    BY <1>1, <1>5
<1>7. First(N) = ToSet(edge_resources)
  BY <1>1 DEF ToSet
<1>8. Candidates = f[N]
  BY <1>2
<1> HIDE DEF First, N
<1> QED
  BY <1>6, <1>7, <1>8

-----------------------------------------------------------------------------
(* The rules of trust/choose.  c are the candidates, t their trust. *)

NoneYet == [edge |-> NULL, trust |-> -1]

BestStep(x, e, v) == IF v > x.trust THEN [edge |-> e, trust |-> v] ELSE x

LEMMA HighestLoop ==
    ASSUME NEW c, NEW t, Len(c) \in Nat
    PROVE  \E f : /\ f[0] = NoneYet
                  /\ \A i \in 1..Len(c) : f[i] = BestStep(f[i - 1], c[i], t[c[i]])
                  /\ highest(c, t) = f[Len(c)].edge
<1> DEFINE N == Len(c)
           Fn(f) == [i \in 0..N |-> IF i = 0 THEN [edge |-> NULL, trust |-> -1]
                        ELSE LET so_far == f[i - 1]
                             IN IF t[c[i]] > so_far.trust THEN [edge |-> c[i], trust |-> t[c[i]]] ELSE so_far]
           f0 == CHOOSE f : f = Fn(f)
           X == {NoneYet} \cup {[edge |-> c[i], trust |-> t[c[i]]] : i \in 1..N}
           G == [z \in X \X (1..N) |-> BestStep(z[1], c[z[2]], t[c[z[2]]])]
           base == NoneYet
<1>1. G \in [X \X (1..N) -> X]
  <2> SUFFICES ASSUME NEW x \in X, NEW i \in 1..N PROVE BestStep(x, c[i], t[c[i]]) \in X
    OBVIOUS
  <2>1. [edge |-> c[i], trust |-> t[c[i]]] \in X
    OBVIOUS
  <2> HIDE DEF X
  <2> QED
    BY <2>1 DEF BestStep
<1>2. base \in X
  OBVIOUS
<1>3. PICK f : Loop(f, X, base, N, G)
  <2> HIDE DEF N, X, G, base
  <2> QED
    BY <1>1, <1>2, LoopExists DEF N
<1>4. \A i \in 1..N : i - 1 \in 0..N /\ f[i] = BestStep(f[i - 1], c[i], t[c[i]])
  <2> SUFFICES ASSUME NEW i \in 1..N PROVE i - 1 \in 0..N /\ f[i] = BestStep(f[i - 1], c[i], t[c[i]])
    OBVIOUS
  <2>1. i - 1 \in 0..N
    OBVIOUS
  <2> HIDE DEF X
  <2>2. f[i - 1] \in X /\ f[i] = G[<<f[i - 1], i>>]
    BY <1>3, <2>1 DEF Loop
  <2> QED
    BY <2>1, <2>2
<1>5. f = Fn(f)
  <2>1. \A i \in 0..N : i # 0 => i \in 1..N
    OBVIOUS
  <2> HIDE DEF X, G
  <2> QED
    BY <1>3, <1>4, <2>1 DEF BestStep, Loop, NoneYet
<1>6. f0 = Fn(f0)
  <2> HIDE DEF Fn
  <2> QED
    BY <1>5
<1>7. highest(c, t) = f0[N].edge
  BY DEF highest
<1> HIDE DEF f0
<1>8. f0[0] = NoneYet
  BY <1>6 DEF NoneYet
<1>9. \A i \in 1..N : f0[i] = BestStep(f0[i - 1], c[i], t[c[i]])
  <2> SUFFICES ASSUME NEW i \in 1..N PROVE f0[i] = BestStep(f0[i - 1], c[i], t[c[i]])
    OBVIOUS
  <2>1. i \in 0..N /\ i # 0
    OBVIOUS
  <2> QED
    BY <1>6, <2>1 DEF BestStep
<1> QED
  BY <1>7, <1>8, <1>9

(* highest gives a candidate that is trusted most, of those the first. *)
LEMMA HighestIsFirst ==
    ASSUME NEW S, NEW c \in Seq(S), c # <<>>, NEW t, \A e \in ToSet(c) : t[e] \in Nat
    PROVE  \E i \in 1..Len(c) : /\ c[i] = highest(c, t)
                                /\ \A k \in 1..Len(c) : t[c[k]] <= t[c[i]]
                                /\ \A k \in 1..(i - 1) : t[c[k]] < t[c[i]]
<1> DEFINE N == Len(c)
<1>1. N \in Nat /\ N # 0 /\ DOMAIN c = 1..N
  BY LenProperties, EmptySeq
<1>2. \A i \in 1..N : t[c[i]] \in Nat
  BY <1>1 DEF ToSet
<1>3. PICK f : /\ f[0] = NoneYet
               /\ \A i \in 1..N : f[i] = BestStep(f[i - 1], c[i], t[c[i]])
               /\ highest(c, t) = f[N].edge
  BY <1>1, HighestLoop
<1> DEFINE At(n, i) == /\ f[n] = [edge |-> c[i], trust |-> t[c[i]]]
                       /\ \A k \in 1..n : t[c[k]] <= t[c[i]]
                       /\ \A k \in 1..(i - 1) : t[c[k]] < t[c[i]]
           T == {n \in Nat : n + 1 <= N => \E i \in 1..(n + 1) : At(n + 1, i)}
<1>4. 0 \in T
  <2>1. 1 \in 1..N /\ 1 - 1 = 0
    BY <1>1
  <2>2. f[1] = BestStep(f[0], c[1], t[c[1]]) /\ t[c[1]] \in Nat
    BY <1>2, <1>3, <2>1
  <2>3. t[c[1]] > -1
    BY <2>2
  <2>4. f[1] = [edge |-> c[1], trust |-> t[c[1]]]
    BY <1>3, <2>2, <2>3 DEF BestStep, NoneYet
  <2>5. \A k \in 1..1 : t[c[k]] <= t[c[1]]
    BY <2>2
  <2>6. At(1, 1)
    BY <2>4, <2>5
  <2> QED
    BY <2>6
<1>5. ASSUME NEW n \in Nat, n \in T PROVE n + 1 \in T
  <2> DEFINE m == (n + 1) + 1
  <2> SUFFICES ASSUME m <= N PROVE \E i \in 1..m : At(m, i)
    <3>1. n + 1 \in Nat
      OBVIOUS
    <3> HIDE DEF At
    <3> QED
      BY <3>1
  <2>0. n + 1 <= N
    BY <1>1
  <2>1. PICK i \in 1..(n + 1) : At(n + 1, i)
    BY <1>5, <2>0
  <2>2. m \in 1..N /\ m - 1 = n + 1 /\ i \in 1..N /\ i \in 1..m
    BY <1>1
  <2>3. f[m] = BestStep(f[n + 1], c[m], t[c[m]])
    BY <1>3, <2>2
  <2>4. t[c[m]] \in Nat /\ t[c[i]] \in Nat
    BY <1>2, <2>2
  <2>5. \A k \in 1..m : (k \in 1..(n + 1) \/ k = m) /\ k \in 1..N
    BY <1>1
  <2>6. CASE t[c[m]] > t[c[i]]
    <3>1. f[m] = [edge |-> c[m], trust |-> t[c[m]]]
      BY <2>1, <2>3, <2>6 DEF BestStep
    <3>2. \A k \in 1..(n + 1) : k \in 1..N /\ t[c[k]] < t[c[m]]
      <4> SUFFICES ASSUME NEW k \in 1..(n + 1) PROVE k \in 1..N /\ t[c[k]] < t[c[m]]
        OBVIOUS
      <4>1. k \in 1..N
        BY <1>1
      <4>2. t[c[k]] <= t[c[i]] /\ t[c[k]] \in Nat
        BY <1>2, <2>1, <4>1
      <4> QED
        BY <2>4, <2>6, <4>1, <4>2
    <3>3. At(m, m)
      BY <1>2, <2>2, <2>4, <2>5, <3>1, <3>2
    <3>4. m \in 1..m
      OBVIOUS
    <3> HIDE DEF At, m
    <3> QED
      BY <3>3, <3>4
  <2>7. CASE ~(t[c[m]] > t[c[i]])
    <3>1. f[m] = f[n + 1]
      BY <2>1, <2>3, <2>7 DEF BestStep
    <3>2. t[c[m]] <= t[c[i]]
      BY <2>4, <2>7
    <3>3. At(m, i)
      BY <2>1, <2>5, <3>1, <3>2
    <3> HIDE DEF At, m
    <3> QED
      BY <2>2, <3>3
  <2> QED
    BY <2>6, <2>7
<1>6. Nat \subseteq T
  <2> HIDE DEF T
  <2> QED
    BY <1>4, <1>5, Induct
<1>7. N - 1 \in Nat /\ (N - 1) + 1 = N
  BY <1>1
<1>8. \E i \in 1..N : At(N, i)
  <2>1. N - 1 \in T
    BY <1>6, <1>7
  <2> HIDE DEF At
  <2> QED
    BY <1>1, <1>7, <2>1
<1> QED
  BY <1>3, <1>8

LEMMA HighestAmong ==
    ASSUME NEW c, NEW t, Len(c) \in Nat, DOMAIN c = 1..Len(c)
    PROVE  highest(c, t) \in ToSet(c) \cup {NULL}
<1> DEFINE N == Len(c)
<1>1. PICK f : /\ f[0] = NoneYet
               /\ \A i \in 1..N : f[i] = BestStep(f[i - 1], c[i], t[c[i]])
               /\ highest(c, t) = f[N].edge
  BY HighestLoop
<1> DEFINE T == {n \in Nat : n <= N => f[n].edge \in ToSet(c) \cup {NULL}}
<1>2. 0 \in T
  BY <1>1 DEF NoneYet
<1>3. ASSUME NEW n \in Nat, n \in T PROVE n + 1 \in T
  <2> SUFFICES ASSUME n + 1 <= N PROVE f[n + 1].edge \in ToSet(c) \cup {NULL}
    OBVIOUS
  <2>1. n + 1 \in 1..N /\ n + 1 - 1 = n /\ n <= N
    OBVIOUS
  <2>2. f[n + 1] = BestStep(f[n], c[n + 1], t[c[n + 1]]) /\ f[n].edge \in ToSet(c) \cup {NULL}
    BY <1>1, <1>3, <2>1
  <2>3. c[n + 1] \in ToSet(c)
    BY <2>1 DEF ToSet
  <2> QED
    BY <2>2, <2>3 DEF BestStep
<1>4. Nat \subseteq T
  <2> HIDE DEF T
  <2> QED
    BY <1>2, <1>3, Induct
<1> QED
  BY <1>1, <1>4

TopStep(x, v) == IF v > x THEN v ELSE x

(* banded's first loop finds the highest trust. *)
LEMMA BandedIsWithin ==
    ASSUME NEW S, NEW c \in Seq(S), c # <<>>, NEW t, \A e \in ToSet(c) : t[e] \in Nat
    PROVE  \E i \in 1..Len(c) : /\ \A k \in 1..Len(c) : t[c[k]] <= t[c[i]]
                                /\ banded(c, t) = {e \in ToSet(c) : t[e] >= t[c[i]] - Band}
<1> DEFINE N == Len(c)
           Fn(f) == [i \in 0..N |-> IF i = 0 THEN 0
                        ELSE LET so_far == f[i - 1] IN IF t[c[i]] > so_far THEN t[c[i]] ELSE so_far]
           f0 == CHOOSE f : f = Fn(f)
           X == Nat
           G == [z \in X \X (1..N) |-> TopStep(z[1], t[c[z[2]]])]
           base == 0
<1>1. N \in Nat /\ N # 0 /\ DOMAIN c = 1..N
  BY LenProperties, EmptySeq
<1>2. \A i \in 1..N : t[c[i]] \in Nat
  BY <1>1 DEF ToSet
<1>3. f0 = Fn(f0)
  <2>1. G \in [X \X (1..N) -> X]
    BY <1>2 DEF TopStep
  <2>2. base \in X
    OBVIOUS
  <2>3. PICK f : Loop(f, X, base, N, G)
    <3>1. N \in Nat
      BY <1>1
    <3> HIDE DEF N, X, G, base
    <3> QED
      BY <2>1, <2>2, <3>1, LoopExists
  <2>4. \A i \in 1..N : i - 1 \in 0..N /\ f[i] = TopStep(f[i - 1], t[c[i]])
    <3> SUFFICES ASSUME NEW i \in 1..N PROVE i - 1 \in 0..N /\ f[i] = TopStep(f[i - 1], t[c[i]])
      OBVIOUS
    <3>1. i - 1 \in 0..N
      BY <1>1
    <3> HIDE DEF X
    <3>2. f[i - 1] \in X /\ f[i] = G[<<f[i - 1], i>>]
      BY <2>3, <3>1 DEF Loop
    <3> QED
      BY <3>1, <3>2
  <2>5. f = Fn(f)
    <3>1. \A i \in 0..N : i # 0 => i \in 1..N
      BY <1>1
    <3> HIDE DEF X, G
    <3> QED
      BY <2>3, <2>4, <3>1 DEF TopStep, Loop
  <2> HIDE DEF Fn
  <2> QED
    BY <2>5
<1> DEFINE top == f0[N]
<1>4. banded(c, t) = LET kept == {e \in ToSet(c) : t[e] >= top - Band}
                     IN IF kept = {} THEN {NULL} ELSE kept
  BY DEF banded
<1> HIDE DEF f0
<1>5. f0[0] = 0 /\ \A i \in 1..N : f0[i] = TopStep(f0[i - 1], t[c[i]])
  <2>1. f0[0] = 0
    BY <1>1, <1>3
  <2> SUFFICES ASSUME NEW i \in 1..N PROVE f0[i] = TopStep(f0[i - 1], t[c[i]])
    BY <2>1
  <2>2. i \in 0..N /\ i # 0
    BY <1>1
  <2> QED
    BY <1>3, <2>2 DEF TopStep
<1> HIDE DEF Fn
<1> DEFINE Most(n) == /\ f0[n] \in Nat
                      /\ \A k \in 1..n : t[c[k]] <= f0[n]
                      /\ n # 0 => \E i \in 1..n : f0[n] = t[c[i]]
           T == {n \in Nat : n <= N => Most(n)}
<1>6. 0 \in T
  BY <1>5
<1>7. ASSUME NEW n \in Nat, n \in T PROVE n + 1 \in T
  <2> DEFINE m == n + 1
  <2> SUFFICES ASSUME m <= N PROVE Most(m)
    OBVIOUS
  <2>1. m \in 1..N /\ m - 1 = n /\ n <= N /\ m \in Nat /\ m # 0 /\ m \in 1..m
    BY <1>1
  <2>2. f0[m] = TopStep(f0[n], t[c[m]]) /\ t[c[m]] \in Nat
    BY <1>2, <1>5, <2>1
  <2>3. Most(n)
    BY <1>7, <2>1
  <2>4. \A k \in 1..m : (k \in 1..n \/ k = m) /\ k \in 1..N
    BY <1>1
  <2>5. f0[m] \in Nat /\ f0[n] <= f0[m] /\ t[c[m]] <= f0[m]
    BY <2>2, <2>3 DEF TopStep
  <2>6. ASSUME NEW k \in 1..m PROVE t[c[k]] <= f0[m]
    <3>1. CASE k = m
      BY <2>5, <3>1
    <3>2. CASE k \in 1..n
      <4>1. t[c[k]] <= f0[n] /\ t[c[k]] \in Nat /\ f0[n] \in Nat
        BY <1>2, <2>3, <2>4, <3>2
      <4> QED
        BY <2>5, <4>1
    <3> QED
      BY <2>4, <3>1, <3>2
  <2>7. \E i \in 1..m : f0[m] = t[c[i]]
    <3>1. CASE t[c[m]] > f0[n]
      <4>1. f0[m] = t[c[m]]
        BY <2>2, <3>1 DEF TopStep
      <4> QED
        BY <2>1, <4>1
    <3>2. CASE ~(t[c[m]] > f0[n])
      <4>1. f0[m] = f0[n]
        BY <2>2, <3>2 DEF TopStep
      <4>2. CASE n = 0
        <5>1. f0[m] = 0 /\ t[c[m]] <= 0
          BY <1>5, <2>5, <4>1, <4>2
        <5>2. f0[m] = t[c[m]]
          BY <2>2, <5>1
        <5> QED
          BY <2>1, <5>2
      <4>3. CASE n # 0
        <5>1. PICK i \in 1..n : f0[n] = t[c[i]]
          BY <2>3, <4>3
        <5>2. i \in 1..m
          OBVIOUS
        <5> QED
          BY <4>1, <5>1, <5>2
      <4> QED
        BY <4>2, <4>3
    <3> QED
      BY <3>1, <3>2
  <2> HIDE DEF m
  <2> QED
    BY <2>5, <2>6, <2>7
<1>8. Nat \subseteq T
  <2> HIDE DEF T
  <2> QED
    BY <1>6, <1>7, Induct
<1>9. Most(N)
  <2> HIDE DEF Most
  <2> QED
    BY <1>1, <1>8
<1>10. PICK i \in 1..N : top = t[c[i]]
  BY <1>1, <1>9
<1>11. \A k \in 1..N : t[c[k]] <= t[c[i]]
  BY <1>9, <1>10
<1>12. c[i] \in {e \in ToSet(c) : t[e] >= top - Band}
  <2>1. c[i] \in ToSet(c)
    BY <1>1 DEF ToSet
  <2>2. t[c[i]] >= top - Band
    BY <1>2, <1>10, ChooseAssumption
  <2> QED
    BY <2>1, <2>2
<1>13. banded(c, t) = {e \in ToSet(c) : t[e] >= top - Band}
  <2> HIDE DEF top
  <2> QED
    BY <1>4, <1>12
<1> HIDE DEF top
<1> QED
  BY <1>10, <1>11, <1>13

LEMMA BandedAmong ==
    ASSUME NEW c, NEW t PROVE banded(c, t) \subseteq ToSet(c) \cup {NULL}
  BY DEF banded

-----------------------------------------------------------------------------
(* Arithmetic. *)

LEMMA Distribute ==
    ASSUME NEW a \in Int, NEW b \in Int, NEW x \in Int
    PROVE  (a + b) * x = a * x + b * x /\ a * x \in Int /\ b * x \in Int
  OBVIOUS

LEMMA ProductNat ==
    ASSUME NEW a \in Nat, NEW b \in Nat PROVE a * b \in Nat
  OBVIOUS

LEMMA ProductMonotone ==
    ASSUME NEW a \in Int, NEW b \in Int, NEW x \in Nat, a <= b
    PROVE  a * x <= b * x
  OBVIOUS

LEMMA ProductCancel ==
    ASSUME NEW a \in Int, NEW b \in Int, NEW x \in Nat \ {0}
    PROVE  (a * x <= b * x => a <= b) /\ (a * x < b * x => a < b)
<1>1. ASSUME b < a PROVE b * x < a * x
  <2>1. b + 1 <= a
    BY <1>1
  <2>2. (b + 1) * x <= a * x
    BY <2>1, ProductMonotone
  <2>3. (b + 1) * x = b * x + x /\ b * x \in Int /\ a * x \in Int
    BY Distribute
  <2> QED
    BY <2>2, <2>3
<1>2. a * x \in Int /\ b * x \in Int
  OBVIOUS
<1>3. b <= a => b * x <= a * x
  BY ProductMonotone
<1> QED
  BY <1>1, <1>2, <1>3

LEMMA Quotient ==
    ASSUME NEW a \in Nat, NEW b \in Nat \ {0}
    PROVE  /\ a \div b \in Nat
           /\ (a \div b) * b <= a
           /\ a < (a \div b + 1) * b
<1> DEFINE q == a \div b
<1>1. q \in Int /\ a = b * q + (a % b) /\ a % b \in 0..(b - 1)
  BY SMT
<1> HIDE DEF q
<1>2. q * b = b * q /\ q * b \in Int /\ (q + 1) * b = q * b + b
  BY <1>1, Distribute
<1>3. q * b <= a /\ a < (q + 1) * b
  BY <1>1, <1>2
<1>4. q \in Nat
  <2>1. 0 * b < (q + 1) * b
    BY <1>2, <1>3
  <2>2. 0 < q + 1
    BY <1>1, <2>1, ProductCancel
  <2> QED
    BY <1>1, <2>2
<1> QED
  BY <1>3, <1>4 DEF q

LEMMA QuotientMonotone ==
    ASSUME NEW a \in Nat, NEW b \in Nat, a <= b, NEW x \in Nat \ {0}
    PROVE  a \div x <= b \div x
<1> DEFINE p == a \div x
           q == b \div x
<1>1. p \in Nat /\ q \in Nat /\ p * x <= a /\ b < (q + 1) * x
  BY Quotient
<1> HIDE DEF p, q
<1>2. p * x < (q + 1) * x
  <2>1. p * x \in Int /\ (q + 1) * x \in Int
    BY <1>1
  <2> QED
    BY <1>1, <2>1
<1>3. p < q + 1
  BY <1>1, <1>2, ProductCancel
<1> QED
  BY <1>1, <1>3 DEF p, q

-----------------------------------------------------------------------------
(* The rule that shares out the random numbers. *)

LEMMA TotalLoop ==
    ASSUME NEW c, NEW t, Len(c) \in Nat, \A i \in 1..Len(c) : t[c[i]] \in Nat
    PROVE  \E s : /\ s \in [0..Len(c) -> Nat] /\ s[0] = 0
                  /\ \A i \in 1..Len(c) : s[i] = s[i - 1] + t[c[i]]
                  /\ Total(c, t) = s[Len(c)]
<1> DEFINE N == Len(c)
           Fn(f) == [i \in 0..N |-> IF i = 0 THEN 0 ELSE f[i - 1] + t[c[i]]]
           f0 == CHOOSE f : f = Fn(f)
           X == Nat
           G == [z \in X \X (1..N) |-> z[1] + t[c[z[2]]]]
           base == 0
<1>1. f0 = Fn(f0)
  <2>1. G \in [X \X (1..N) -> X]
    OBVIOUS
  <2>2. base \in X
    OBVIOUS
  <2>3. PICK f : Loop(f, X, base, N, G)
    <3>1. N \in Nat
      OBVIOUS
    <3> HIDE DEF N, X, G, base
    <3> QED
      BY <2>1, <2>2, <3>1, LoopExists
  <2>4. \A i \in 1..N : i - 1 \in 0..N /\ f[i] = f[i - 1] + t[c[i]]
    <3> SUFFICES ASSUME NEW i \in 1..N PROVE i - 1 \in 0..N /\ f[i] = f[i - 1] + t[c[i]]
      OBVIOUS
    <3>1. i - 1 \in 0..N
      OBVIOUS
    <3> HIDE DEF X
    <3>2. f[i - 1] \in X /\ f[i] = G[<<f[i - 1], i>>]
      BY <2>3, <3>1 DEF Loop
    <3> QED
      BY <3>1, <3>2
  <2>5. f = Fn(f)
    <3>1. \A i \in 0..N : i # 0 => i \in 1..N
      OBVIOUS
    <3> HIDE DEF X, G
    <3> QED
      BY <2>3, <2>4, <3>1 DEF Loop
  <2> HIDE DEF Fn
  <2> QED
    BY <2>5
<1>2. Total(c, t) = f0[N]
  BY DEF Total
<1> HIDE DEF f0
<1>3. f0[0] = 0 /\ \A i \in 1..N : f0[i] = f0[i - 1] + t[c[i]]
  <2>1. \A i \in 1..N : i \in 0..N /\ i # 0
    OBVIOUS
  <2> QED
    BY <1>1, <2>1
<1> DEFINE T == {n \in Nat : n <= N => f0[n] \in Nat}
<1>4. 0 \in T
  BY <1>3
<1>5. ASSUME NEW n \in Nat, n \in T PROVE n + 1 \in T
  <2> SUFFICES ASSUME n + 1 <= N PROVE f0[n + 1] \in Nat
    OBVIOUS
  <2>1. n + 1 \in 1..N /\ n + 1 - 1 = n /\ n <= N
    OBVIOUS
  <2>2. f0[n + 1] = f0[n] + t[c[n + 1]] /\ f0[n] \in Nat /\ t[c[n + 1]] \in Nat
    BY <1>3, <1>5, <2>1
  <2> QED
    BY <2>2
<1>6. Nat \subseteq T
  <2> HIDE DEF T
  <2> QED
    BY <1>4, <1>5, Induct
<1>7. \A i \in 0..N : f0[i] \in Nat
  BY <1>6
<1>8. f0 \in [0..N -> Nat]
  BY <1>1, <1>7
<1> QED
  BY <1>2, <1>3, <1>8

Share(c, t, e) == (t[e] * RandMax) \div Total(c, t)

WalkStep(s, e, v, rnd) ==
    IF s.chosen = NULL /\ s.previous <= rnd /\ rnd < s.previous + v
    THEN [s EXCEPT !.chosen = e] ELSE [s EXCEPT !.previous = @ + v]

Outset == [previous |-> 0, chosen |-> NULL]

LEMMA WalkLoop ==
    ASSUME NEW c, NEW t, NEW rnd, Len(c) \in Nat
    PROVE  \E f : /\ f[0] = Outset
                  /\ \A i \in 1..Len(c) : f[i] = WalkStep(f[i - 1], c[i], Share(c, t, c[i]), rnd)
                  /\ proportional(c, t, rnd) = f[Len(c)].chosen
<1> DEFINE N == Len(c)
           share(e) == (t[e] * RandMax) \div Total(c, t)
           Fn(f) == [i \in 0..N |-> IF i = 0 THEN [previous |-> 0, chosen |-> NULL]
                        ELSE LET s == f[i - 1]
                             IN IF s.chosen = NULL /\ s.previous <= rnd /\ rnd < s.previous + share(c[i])
                                THEN [s EXCEPT !.chosen = c[i]]
                                ELSE [s EXCEPT !.previous = @ + share(c[i])]]
           f0 == CHOOSE f : f = Fn(f)
           Step(x, i) == WalkStep(x, c[i], Share(c, t, c[i]), rnd)
           Upto(f, n) == f = [i \in 0..n |-> IF i = 0 THEN Outset ELSE Step(f[i - 1], i)]
           T == {n \in Nat : \E f : Upto(f, n)}
<1>1. 0 \in T
  <2> DEFINE f == [i \in 0..0 |-> Outset]
  <2>1. f[0] = Outset
    OBVIOUS
  <2>2. Upto(f, 0)
    OBVIOUS
  <2> QED
    BY <2>2
<1>2. ASSUME NEW n \in Nat, n \in T PROVE n + 1 \in T
  <2> HIDE DEF Step
  <2>1. PICK f : Upto(f, n)
    BY <1>2
  <2> DEFINE g == [i \in 0..(n + 1) |-> IF i <= n THEN f[i] ELSE Step(f[n], n + 1)]
  <2>2. f[0] = Outset /\ \A i \in 1..n : f[i] = Step(f[i - 1], i)
    <3>1. \A i \in 1..n : i \in 0..n /\ i # 0
      OBVIOUS
    <3> QED
      BY <2>1, <3>1
  <2>3. g[0] = Outset
    BY <2>2
  <2>4. ASSUME NEW i \in 1..(n + 1) PROVE g[i] = Step(g[i - 1], i)
    <3>1. CASE i <= n
      <4>1. i \in 1..n /\ i \in 0..(n + 1) /\ i - 1 \in 0..(n + 1) /\ i - 1 <= n
        BY <3>1
      <4> QED
        BY <2>2, <3>1, <4>1
    <3>2. CASE ~(i <= n)
      <4>1. i = n + 1 /\ n \in 0..(n + 1) /\ i - 1 = n /\ i \in 0..(n + 1) /\ n <= n
        BY <3>2
      <4> QED
        BY <3>2, <4>1
    <3> QED
      BY <3>1, <3>2
  <2>5. Upto(g, n + 1)
    <3>1. \A i \in 0..(n + 1) : i # 0 => i \in 1..(n + 1)
      OBVIOUS
    <3>2. g = [i \in 0..(n + 1) |-> g[i]]
      OBVIOUS
    <3> HIDE DEF g
    <3>3. \A i \in 0..(n + 1) : g[i] = IF i = 0 THEN Outset ELSE Step(g[i - 1], i)
      BY <2>3, <2>4, <3>1
    <3> QED
      BY <3>2, <3>3
  <2> HIDE DEF Upto
  <2> QED
    BY <2>5
<1>3. Nat \subseteq T
  <2> HIDE DEF T
  <2> QED
    BY <1>1, <1>2, Induct
<1>4. PICK f : Upto(f, N)
  <2> HIDE DEF Upto
  <2> QED
    BY <1>3
<1>5. \A x : Upto(x, N) <=> x = Fn(x)
  BY DEF WalkStep, Share, Outset
<1>6. f0 = Fn(f0)
  <2>1. f = Fn(f)
    BY <1>4, <1>5
  <2> HIDE DEF Fn
  <2> QED
    BY <2>1
<1>7. proportional(c, t, rnd) = f0[N].chosen
  BY DEF proportional
<1> HIDE DEF f0
<1>8. Upto(f0, N)
  BY <1>5, <1>6
<1> HIDE DEF Fn
<1>9. f0[0] = Outset /\ \A i \in 1..N : f0[i] = Step(f0[i - 1], i)
  <2>1. \A i \in 1..N : i \in 0..N /\ i # 0
    OBVIOUS
  <2> HIDE DEF Step
  <2> QED
    BY <1>8, <2>1
<1> QED
  BY <1>7, <1>9

(* Whatever the shares are, a candidate or none is chosen. *)
LEMMA ProportionalAmong ==
    ASSUME NEW c, NEW t, NEW rnd, Len(c) \in Nat, DOMAIN c = 1..Len(c)
    PROVE  proportional(c, t, rnd) \in ToSet(c) \cup {NULL}
<1> DEFINE N == Len(c)
<1>1. PICK f : /\ f[0] = Outset
               /\ \A i \in 1..N : f[i] = WalkStep(f[i - 1], c[i], Share(c, t, c[i]), rnd)
               /\ proportional(c, t, rnd) = f[N].chosen
  BY WalkLoop
<1> DEFINE Fine(x) == \E v : \E w \in ToSet(c) \cup {NULL} : x = [previous |-> v, chosen |-> w]
           T == {n \in Nat : n <= N => Fine(f[n])}
<1>2. 0 \in T
  BY <1>1 DEF Outset
<1>3. ASSUME NEW n \in Nat, n \in T PROVE n + 1 \in T
  <2> SUFFICES ASSUME n + 1 <= N PROVE Fine(f[n + 1])
    <3> HIDE DEF Fine
    <3> QED
      OBVIOUS
  <2>1. n + 1 \in 1..N /\ n + 1 - 1 = n /\ n <= N
    OBVIOUS
  <2>2. f[n + 1] = WalkStep(f[n], c[n + 1], Share(c, t, c[n + 1]), rnd)
    BY <1>1, <2>1
  <2>0. PICK v : \E w \in ToSet(c) \cup {NULL} : f[n] = [previous |-> v, chosen |-> w]
    BY <1>3, <2>1
  <2>3. PICK w \in ToSet(c) \cup {NULL} : f[n] = [previous |-> v, chosen |-> w]
    BY <2>0
  <2>4. c[n + 1] \in ToSet(c)
    BY <2>1 DEF ToSet
  <2>5. \/ f[n + 1] = [previous |-> v, chosen |-> c[n + 1]]
        \/ f[n + 1] = [previous |-> v + Share(c, t, c[n + 1]), chosen |-> w]
    BY <2>2, <2>3 DEF WalkStep
  <2> QED
    BY <2>4, <2>5
<1>4. Nat \subseteq T
  <2> HIDE DEF T
  <2> QED
    BY <1>2, <1>3, Induct
<1>5. Fine(f[N])
  <2> HIDE DEF Fine
  <2> QED
    BY <1>4
<1> QED
  BY <1>1, <1>5

(* P[i] numbers are shared out among the first i candidates. *)
Shared(P, c, t) ==
    /\ P \in [0..Len(c) -> Nat] /\ P[0] = 0
    /\ \A i \in 1..Len(c) : P[i] = P[i - 1] + Share(c, t, c[i])

LEMMA SharesExist ==
    ASSUME NEW c, NEW t, Len(c) \in Nat, \A i \in 1..Len(c) : Share(c, t, c[i]) \in Nat
    PROVE  \E P : Shared(P, c, t)
<1> DEFINE N == Len(c)
           X == Nat
           G == [z \in X \X (1..N) |-> z[1] + Share(c, t, c[z[2]])]
           base == 0
<1>1. G \in [X \X (1..N) -> X]
  OBVIOUS
<1>2. base \in X
  OBVIOUS
<1>3. PICK f : Loop(f, X, base, N, G)
  <2>1. N \in Nat
    OBVIOUS
  <2> HIDE DEF N, X, G, base
  <2> QED
    BY <1>1, <1>2, <2>1, LoopExists
<1>4. \A i \in 1..N : f[i] = f[i - 1] + Share(c, t, c[i])
  <2> SUFFICES ASSUME NEW i \in 1..N PROVE f[i] = f[i - 1] + Share(c, t, c[i])
    OBVIOUS
  <2>1. i - 1 \in 0..N
    OBVIOUS
  <2> HIDE DEF X
  <2>2. f[i - 1] \in X /\ f[i] = G[<<f[i - 1], i>>]
    BY <1>3, <2>1 DEF Loop
  <2> QED
    BY <2>2
<1>5. f \in [0..N -> Nat] /\ f[0] = 0
  BY <1>3 DEF Loop
<1> QED
  BY <1>4, <1>5 DEF Shared

LEMMA SharesGrow ==
    ASSUME NEW c, NEW t, Len(c) \in Nat, \A i \in 1..Len(c) : Share(c, t, c[i]) \in Nat,
           NEW P, Shared(P, c, t), NEW j \in 0..Len(c), NEW i \in 0..j
    PROVE  P[i] <= P[j]
<1> DEFINE N == Len(c)
           T == {n \in Nat : i + n <= N => P[i] <= P[i + n]}
<1>1. \A k \in 0..N : P[k] \in Nat
  BY DEF Shared
<1>2. 0 \in T
  <2>1. i + 0 = i /\ P[i] \in Nat
    BY <1>1
  <2> QED
    BY <2>1
<1>3. ASSUME NEW n \in Nat, n \in T PROVE n + 1 \in T
  <2> DEFINE m == i + (n + 1)
  <2> SUFFICES ASSUME m <= N PROVE P[i] <= P[m]
    OBVIOUS
  <2>1. m \in 1..N /\ m - 1 = i + n /\ i + n <= N /\ i + n \in 0..N /\ i \in 0..N
    OBVIOUS
  <2>2. P[m] = P[i + n] + Share(c, t, c[m]) /\ Share(c, t, c[m]) \in Nat
    BY <2>1 DEF Shared
  <2>3. P[i] <= P[i + n] /\ P[i + n] \in Nat /\ P[i] \in Nat
    BY <1>1, <1>3, <2>1
  <2> HIDE DEF m
  <2> QED
    BY <2>2, <2>3
<1>4. Nat \subseteq T
  <2> HIDE DEF T
  <2> QED
    BY <1>2, <1>3, Induct
<1>5. j - i \in Nat /\ i + (j - i) = j /\ j <= N
  OBVIOUS
<1>6. j - i \in T
  BY <1>4, <1>5
<1> QED
  BY <1>5, <1>6

(* The walk chooses the candidate in whose share the number falls. *)
LEMMA WalkFinds ==
    ASSUME NEW c, NEW t, Len(c) \in Nat, \A i \in 1..Len(c) : Share(c, t, c[i]) \in Nat,
           NULL \notin {c[i] : i \in 1..Len(c)},
           NEW P, Shared(P, c, t), NEW rnd \in Nat
    PROVE  \/ proportional(c, t, rnd) = NULL /\ P[Len(c)] <= rnd
           \/ \E j \in 1..Len(c) : proportional(c, t, rnd) = c[j] /\ P[j - 1] <= rnd /\ rnd < P[j]
<1> DEFINE N == Len(c)
<1>1. PICK f : /\ f[0] = Outset
               /\ \A i \in 1..N : f[i] = WalkStep(f[i - 1], c[i], Share(c, t, c[i]), rnd)
               /\ proportional(c, t, rnd) = f[N].chosen
  BY WalkLoop
<1> DEFINE Found(n, j) == P[j - 1] <= rnd /\ rnd < P[j] /\ \E v : f[n] = [previous |-> v, chosen |-> c[j]]
           Fine(n) == \/ f[n] = [previous |-> P[n], chosen |-> NULL] /\ P[n] <= rnd
                      \/ \E j \in 1..n : Found(n, j)
           T == {n \in Nat : n <= N => Fine(n)}
<1>2. 0 \in T
  BY <1>1 DEF Outset, Shared
<1>3. ASSUME NEW n \in Nat, n \in T PROVE n + 1 \in T
  <2> DEFINE m == n + 1
             v == Share(c, t, c[m])
  <2> SUFFICES ASSUME m <= N PROVE Fine(m)
    <3> HIDE DEF Fine
    <3> QED
      OBVIOUS
  <2>1. m \in 1..N /\ m - 1 = n /\ n <= N /\ n \in 0..N /\ m \in 0..N /\ m \in 1..m
    OBVIOUS
  <2>2. f[m] = WalkStep(f[n], c[m], v, rnd)
    BY <1>1, <2>1
  <2>3. v \in Nat /\ P[n] \in Nat /\ P[m] = P[n] + v /\ P[m] \in Nat
    BY <2>1 DEF Shared
  <2>4. Fine(n)
    <3> HIDE DEF Fine
    <3> QED
      BY <1>3, <2>1
  <2> HIDE DEF m, v
  <2>5. CASE f[n] = [previous |-> P[n], chosen |-> NULL] /\ P[n] <= rnd
    <3>1. CASE rnd < P[n] + v
      <4>1. f[m] = [previous |-> P[n], chosen |-> c[m]]
        BY <2>2, <2>5, <3>1 DEF WalkStep
      <4>2. Found(m, m)
        BY <2>1, <2>3, <2>5, <3>1, <4>1
      <4> QED
        BY <2>1, <4>2
    <3>2. CASE ~(rnd < P[n] + v)
      <4>1. f[m] = [previous |-> P[n] + v, chosen |-> NULL]
        BY <2>2, <2>5, <3>2 DEF WalkStep
      <4>2. P[m] <= rnd
        BY <2>3, <3>2
      <4> QED
        BY <2>3, <4>1, <4>2
    <3> QED
      BY <3>1, <3>2
  <2>6. CASE \E j \in 1..n : Found(n, j)
    <3>1. PICK j \in 1..n : Found(n, j)
      BY <2>6
    <3>2. PICK u : f[n] = [previous |-> u, chosen |-> c[j]]
      BY <3>1
    <3>3. c[j] # NULL /\ j \in 1..m
      BY <2>1 DEF m
    <3>4. f[m] = [previous |-> u + v, chosen |-> c[j]]
      BY <2>2, <3>2, <3>3 DEF WalkStep
    <3>5. Found(m, j)
      BY <3>1, <3>4
    <3> QED
      BY <3>3, <3>5
  <2> QED
    BY <2>4, <2>5, <2>6
<1>4. Nat \subseteq T
  <2> HIDE DEF T
  <2> QED
    BY <1>2, <1>3, Induct
<1>5. Fine(N)
  <2> HIDE DEF Fine
  <2> QED
    BY <1>4
<1>6. CASE f[N] = [previous |-> P[N], chosen |-> NULL] /\ P[N] <= rnd
  BY <1>1, <1>6
<1>7. CASE \E j \in 1..N : Found(N, j)
  <2>1. PICK j \in 1..N : Found(N, j)
    BY <1>7
  <2>2. f[N].chosen = c[j]
    BY <2>1
  <2>3. P[j - 1] <= rnd /\ rnd < P[j]
    BY <2>1
  <2> QED
    BY <1>1, <2>2, <2>3
<1> QED
  BY <1>5, <1>6, <1>7

(* As many numbers choose a candidate as are in its share, and those that *)
(* are in no share choose none.                                           *)
LEMMA DrawsAreShares ==
    ASSUME NEW S, NEW c \in Seq(S), IsInjective(c), NULL \notin ToSet(c),
           NEW t, \A i \in 1..Len(c) : Share(c, t, c[i]) \in Nat,
           NEW P, Shared(P, c, t), P[Len(c)] <= RandMax
    PROVE  /\ \A j \in 1..Len(c) : Draws(c, t, c[j]) = Share(c, t, c[j])
           /\ Draws(c, t, NULL) = RandMax + 1 - P[Len(c)]
<1> DEFINE N == Len(c)
<1>1. N \in Nat /\ DOMAIN c = 1..N /\ NULL \notin {c[i] : i \in 1..N}
  BY LenProperties DEF ToSet
<1>2. \A i, j \in 1..N : c[i] = c[j] => i = j
  BY <1>1 DEF IsInjective
<1>3. \A k \in 0..N : P[k] \in Nat /\ P[k] <= P[N]
  <2>1. N \in 0..N
    BY <1>1
  <2> QED
    BY <1>1, <2>1, SharesGrow DEF Shared
<1>0. RandMax \in Nat
  BY ChooseAssumption
<1>4. ASSUME NEW j \in 1..N PROVE Draws(c, t, c[j]) = Share(c, t, c[j])
  <2> DEFINE D == {r \in 0..RandMax : proportional(c, t, r) = c[j]}
             a == P[j - 1]
             b == P[j]
             v == Share(c, t, c[j])
  <2>1. j - 1 \in 0..N /\ j \in 0..N
    BY <1>1
  <2>2. a \in Nat /\ b \in Nat /\ v \in Nat /\ b = a + v /\ b <= RandMax
    <3>1. a \in Nat /\ b \in Nat /\ b <= P[N] /\ P[N] \in Nat
      BY <1>1, <1>3, <2>1
    <3>2. b = a + v
      BY DEF Shared
    <3> QED
      BY <1>0, <3>1, <3>2
  <2>3. ASSUME NEW r \in a..(b - 1) PROVE r \in D
    <3>1. r \in 0..RandMax /\ r \in Nat /\ a <= r /\ r < b
      BY <1>0, <2>2
    <3>2. ~(P[N] <= r)
      <4>1. N \in 0..N
        BY <1>1
      <4>2. P[j] <= P[N] /\ P[N] \in Nat
        BY <1>3, <2>1, <4>1
      <4> DEFINE all == P[N]
      <4>3. all \in Nat /\ b <= all
        BY <4>2
      <4> HIDE DEF N, a, b, all
      <4>4. ~(all <= r)
        BY <2>2, <3>1, <4>3
      <4> QED
        BY <4>4 DEF all
    <3>3. PICK k \in 1..N : proportional(c, t, r) = c[k] /\ P[k - 1] <= r /\ r < P[k]
      <4>1. r \in Nat
        BY <3>1
      <4> HIDE DEF a, b, v, D
      <4> QED
        BY <1>1, <3>2, <4>1, WalkFinds
    <3>4. k - 1 \in 0..N /\ k \in 0..N
      BY <1>1
    <3>5. ~(j < k)
      <4> SUFFICES ASSUME j < k PROVE FALSE
        OBVIOUS
      <4>1. j \in 0..(k - 1)
        BY <2>1, <3>4
      <4>2. P[j] <= P[k - 1]
        BY <1>1, <3>4, <4>1, SharesGrow
      <4>3. P[k - 1] \in Nat
        BY <1>3, <3>4
      <4> QED
        BY <2>2, <3>1, <3>3, <4>2, <4>3
    <3>6. ~(k < j)
      <4> SUFFICES ASSUME k < j PROVE FALSE
        OBVIOUS
      <4>1. k \in 0..(j - 1)
        BY <2>1, <3>4
      <4>2. P[k] <= P[j - 1]
        BY <1>1, <2>1, <4>1, SharesGrow
      <4>3. P[k] \in Nat
        BY <1>3, <3>4
      <4> QED
        BY <2>2, <3>1, <3>3, <4>2, <4>3
    <3>7. k = j
      BY <1>1, <3>5, <3>6
    <3> QED
      BY <3>1, <3>3, <3>7
  <2>4. ASSUME NEW r \in D PROVE r \in a..(b - 1)
    <3>1. r \in Nat /\ proportional(c, t, r) = c[j] /\ c[j] # NULL
      BY <1>0, <1>1
    <3>2. PICK k \in 1..N : proportional(c, t, r) = c[k] /\ P[k - 1] <= r /\ r < P[k]
      BY <1>1, <3>1, WalkFinds
    <3>3. k = j
      BY <1>2, <3>1, <3>2
    <3> QED
      BY <2>2, <3>1, <3>2, <3>3
  <2>5. D = a..(b - 1)
    <3> HIDE DEF D, a, b
    <3> QED
      BY <2>3, <2>4
  <2>6. Cardinality(a..(b - 1)) = v
    <3> HIDE DEF a, b, v
    <3>1. a \in Int /\ b - 1 \in Int
      BY <2>2
    <3>2. Cardinality(a..(b - 1)) = IF a > b - 1 THEN 0 ELSE (b - 1) - a + 1
      BY <3>1, FS_Interval
    <3> QED
      BY <2>2, <3>2
  <2> QED
    BY <2>5, <2>6 DEF Draws
<1>5. Draws(c, t, NULL) = RandMax + 1 - P[N]
  <2> DEFINE D == {r \in 0..RandMax : proportional(c, t, r) = NULL}
             a == P[N]
  <2>1. a \in Nat /\ a <= RandMax
    BY <1>1, <1>3
  <2>2. ASSUME NEW r \in a..RandMax PROVE r \in D
    <3>1. r \in 0..RandMax /\ r \in Nat /\ a <= r
      BY <1>0, <2>1
    <3>2. ASSUME NEW k \in 1..N PROVE ~(r < P[k])
      <4>1. k \in 0..N
        BY <1>1
      <4>2. P[k] \in Nat /\ P[k] <= a
        BY <1>3, <4>1
      <4> HIDE DEF a
      <4> QED
        BY <2>1, <3>1, <4>2
    <3>3. proportional(c, t, r) = NULL
      BY <1>1, <3>1, <3>2, WalkFinds
    <3> QED
      BY <3>1, <3>3
  <2>3. ASSUME NEW r \in D PROVE r \in a..RandMax
    <3>1. r \in Nat /\ proportional(c, t, r) = NULL /\ r <= RandMax /\ r \in Int
      BY <1>0
    <3>2. \A k \in 1..N : c[k] # NULL
      BY <1>1
    <3>3. a <= r
      BY <1>1, <3>1, <3>2, WalkFinds
    <3> QED
      BY <1>0, <2>1, <3>1, <3>3
  <2>4. D = a..RandMax
    <3> HIDE DEF D, a
    <3> QED
      BY <2>2, <2>3
  <2>5. Cardinality(a..RandMax) = RandMax - a + 1
    <3> HIDE DEF a
    <3>1. a \in Int /\ RandMax \in Int
      BY <1>0, <2>1
    <3>2. Cardinality(a..RandMax) = IF a > RandMax THEN 0 ELSE RandMax - a + 1
      BY <3>1, FS_Interval
    <3> QED
      BY <1>0, <2>1, <3>2
  <2>6. Draws(c, t, NULL) = RandMax - a + 1
    BY <2>4, <2>5 DEF Draws
  <2> HIDE DEF a
  <2>7. RandMax - a + 1 = RandMax + 1 - a
    BY <1>0, <2>1
  <2> QED
    BY <2>6, <2>7 DEF a
<1> QED
  BY <1>4, <1>5

LEMMA SharesBounded ==
    ASSUME NEW c, NEW t, Len(c) \in Nat \ {0}, \A i \in 1..Len(c) : t[c[i]] \in Nat \ {0}
    PROVE  /\ Total(c, t) \in Nat \ {0}
           /\ \A i \in 1..Len(c) : Share(c, t, c[i]) \in Nat
           /\ \A P : Shared(P, c, t) => P[Len(c)] <= RandMax /\ RandMax < P[Len(c)] + Len(c)
<1> DEFINE N == Len(c)
           R == RandMax
           U == Total(c, t)
<1>0. R \in Nat
  BY ChooseAssumption
<1>1. PICK s : /\ s \in [0..N -> Nat] /\ s[0] = 0
               /\ \A i \in 1..N : s[i] = s[i - 1] + t[c[i]]
               /\ U = s[N]
  BY TotalLoop
<1>2. U \in Nat \ {0}
  <2>1. N \in 1..N /\ N \in 0..N /\ N - 1 \in 0..N
    OBVIOUS
  <2>2. s[N] = s[N - 1] + t[c[N]] /\ s[N - 1] \in Nat /\ t[c[N]] \in Nat \ {0}
    BY <1>1, <2>1
  <2> QED
    BY <1>1, <2>2
<1> HIDE DEF U
<1>3. ASSUME NEW i \in 1..N
      PROVE  LET v == Share(c, t, c[i])
             IN v \in Nat /\ v * U <= t[c[i]] * R /\ t[c[i]] * R < (v + 1) * U
  <2>1. t[c[i]] * R \in Nat
    BY <1>0, ProductNat
  <2>2. Share(c, t, c[i]) = (t[c[i]] * R) \div U
    BY DEF Share, U
  <2> QED
    BY <1>2, <2>1, <2>2, Quotient
<1>4. ASSUME NEW P, Shared(P, c, t) PROVE P[N] <= R /\ R < P[N] + N
  <2> DEFINE Good(n) == /\ P[n] * U <= s[n] * R
                        /\ s[n] * R <= (P[n] + n) * U
                        /\ n # 0 => s[n] * R < (P[n] + n) * U
             T == {n \in Nat : n <= N => Good(n)}
  <2>0. P \in [0..N -> Nat] /\ P[0] = 0
    BY <1>4 DEF Shared
  <2>1. 0 \in T
    BY <1>0, <1>1, <1>2, <2>0
  <2>2. ASSUME NEW n \in Nat, n \in T PROVE n + 1 \in T
    <3> DEFINE m == n + 1
               v == Share(c, t, c[m])
               p == P[n]
               x == s[n]
               y == t[c[m]]
    <3> SUFFICES ASSUME m <= N PROVE Good(m)
      <4> HIDE DEF Good
      <4> QED
        OBVIOUS
    <3>1. m \in 1..N /\ m - 1 = n /\ n <= N /\ n \in 0..N /\ m # 0
      OBVIOUS
    <3>2. P[m] = p + v /\ s[m] = x + y
      BY <1>1, <1>4, <3>1 DEF Shared
    <3>3. v \in Nat /\ v * U <= y * R /\ y * R < (v + 1) * U
      BY <1>3, <3>1
    <3>4. p \in Nat /\ x \in Nat /\ y \in Nat
      BY <1>1, <2>0, <3>1
    <3>5. Good(n)
      <4> HIDE DEF Good
      <4> QED
        BY <2>2, <3>1
    <3>6. p * U <= x * R /\ x * R <= (p + n) * U
      BY <3>5
    <3> HIDE DEF v, p, x, y
    <3>7. (p + v) * U = p * U + v * U /\ p * U \in Int /\ v * U \in Int
      BY <1>2, <3>3, <3>4, Distribute
    <3>8. (x + y) * R = x * R + y * R /\ x * R \in Int /\ y * R \in Int
      BY <1>0, <3>4, Distribute
    <3>9. /\ ((p + n) + (v + 1)) * U = (p + n) * U + (v + 1) * U
          /\ (p + n) * U \in Int /\ (v + 1) * U \in Int
      <4>1. p + n \in Int /\ v + 1 \in Int
        BY <3>3, <3>4
      <4> QED
        BY <1>2, <4>1, Distribute
    <3>10. (p + n) + (v + 1) = (p + v) + m
      BY <3>3, <3>4
    <3>11. (p + v) * U <= (x + y) * R
      BY <3>3, <3>6, <3>7, <3>8
    <3>12. (x + y) * R < ((p + v) + m) * U
      <4>1. x * R + y * R < (p + n) * U + (v + 1) * U
        BY <3>3, <3>6, <3>8, <3>9
      <4> QED
        BY <3>8, <3>9, <3>10, <4>1
    <3>13. (x + y) * R <= ((p + v) + m) * U
      <4>1. (x + y) * R \in Int /\ ((p + v) + m) * U \in Int
        BY <3>8, <3>9, <3>10
      <4> HIDE DEF m
      <4> QED
        BY <3>12, <4>1
    <3> HIDE DEF m
    <3> QED
      BY <3>2, <3>11, <3>12, <3>13
  <2>3. Nat \subseteq T
    <3> HIDE DEF T
    <3> QED
      BY <2>1, <2>2, Induct
  <2>4. Good(N)
    <3> HIDE DEF Good
    <3> QED
      BY <2>3
  <2>5. P[N] * U <= U * R /\ U * R < (P[N] + N) * U
    BY <1>1, <2>4
  <2>6. U * R = R * U /\ P[N] \in Nat
    BY <1>0, <1>2, <2>0
  <2> HIDE DEF R
  <2>7. P[N] <= R
    BY <1>0, <1>2, <2>5, <2>6, ProductCancel
  <2>8. R < P[N] + N
    <3>1. P[N] + N \in Int
      BY <2>6
    <3>2. R * U < (P[N] + N) * U
      BY <2>5, <2>6
    <3>3. R \in Int
      BY <1>0
    <3> DEFINE z == P[N] + N
    <3> HIDE DEF z
    <3> QED
      BY <1>2, <3>1, <3>2, <3>3, ProductCancel DEF z
  <2> QED
    BY <2>7, <2>8
<1> QED
  BY <1>2, <1>3, <1>4 DEF U

(* The loops of trust/choose favour whom they should (RulesAgree), for any  *)
(* list of candidates and any trust in them that is not zero: highest and   *)
(* banded pick the most trusted and those within the band, and proportional *)
(* gives each its share of the draws, with at most one per Edge left over.  *)
THEOREM RulesAsIntended ==
    ASSUME NEW S, NEW c \in Seq(S), IsInjective(c), NULL \notin ToSet(c),
           NEW t, \A e \in ToSet(c) : t[e] \in Nat \ {0}, NEW rules
    PROVE  RulesAgree(c, t, rules)
<1> DEFINE N == Len(c)
           es == ToSet(c)
           top == {e \in es : \A f \in es : t[f] <= t[e]}
           sum == Total(c, t)
           n == [x \in es \cup {NULL} |-> Draws(c, t, x)]
<1> SUFFICES ASSUME c # <<>> PROVE RulesAgree(c, t, rules)
  BY DEF RulesAgree
<1>1. N \in Nat \ {0} /\ DOMAIN c = 1..N
  BY LenProperties, EmptySeq
<1>2. /\ \A i \in 1..N : c[i] \in es /\ t[c[i]] \in Nat \ {0}
      /\ \A e \in es : \E i \in 1..N : e = c[i]
      /\ \A e \in es : t[e] \in Nat
  BY <1>1 DEF ToSet
<1>3. \E i \in 1..N : c[i] = highest(c, t) /\ c[i] \in top /\ \A j \in 1..(i - 1) : c[j] \notin top
  <2>1. PICK i \in 1..N : /\ c[i] = highest(c, t)
                          /\ \A k \in 1..N : t[c[k]] <= t[c[i]]
                          /\ \A k \in 1..(i - 1) : t[c[k]] < t[c[i]]
    BY <1>2, HighestIsFirst
  <2>2. c[i] \in top
    BY <1>2, <2>1
  <2>3. ASSUME NEW j \in 1..(i - 1) PROVE c[j] \notin top
    <3>1. j \in 1..N
      BY <1>1
    <3>2. t[c[j]] < t[c[i]] /\ t[c[j]] \in Nat /\ t[c[i]] \in Nat /\ c[i] \in es
      BY <1>2, <2>1, <3>1
    <3> QED
      BY <3>2
  <2> QED
    BY <2>1, <2>2, <2>3
<1>4. banded(c, t) = {e \in es : \E f \in top : t[f] - t[e] <= Band}
  <2>1. PICK i \in 1..N : /\ \A k \in 1..N : t[c[k]] <= t[c[i]]
                          /\ banded(c, t) = {e \in es : t[e] >= t[c[i]] - Band}
    BY <1>2, BandedIsWithin
  <2>2. c[i] \in top
    BY <1>2, <2>1
  <2>3. \A f \in top : t[f] = t[c[i]]
    <3> SUFFICES ASSUME NEW f \in top PROVE t[f] = t[c[i]]
      OBVIOUS
    <3>1. t[f] <= t[c[i]] /\ t[c[i]] <= t[f] /\ t[f] \in Nat /\ t[c[i]] \in Nat
      BY <1>2, <2>2
    <3> QED
      BY <3>1
  <2>4. \A e \in es : t[e] >= t[c[i]] - Band <=> t[c[i]] - t[e] <= Band
    <3> SUFFICES ASSUME NEW e \in es PROVE t[e] >= t[c[i]] - Band <=> t[c[i]] - t[e] <= Band
      OBVIOUS
    <3>1. t[e] \in Nat /\ t[c[i]] \in Nat /\ Band \in Nat
      BY <1>2, ChooseAssumption
    <3> QED
      BY <3>1
  <2> HIDE DEF top, es
  <2> QED
    BY <2>1, <2>2, <2>3, <2>4
<1>5. /\ sum \in Nat \ {0} /\ \A i \in 1..N : Share(c, t, c[i]) \in Nat
      /\ \A P : Shared(P, c, t) => P[N] <= RandMax /\ RandMax < P[N] + N
  BY <1>1, <1>2, SharesBounded
<1>6. PICK P : Shared(P, c, t)
  BY <1>1, <1>5, SharesExist
<1>7. P[N] <= RandMax /\ RandMax < P[N] + N /\ P[N] \in Nat /\ RandMax \in Nat
  BY <1>1, <1>5, <1>6, ChooseAssumption DEF Shared
<1>8. /\ \A j \in 1..N : Draws(c, t, c[j]) = Share(c, t, c[j])
      /\ Draws(c, t, NULL) = RandMax + 1 - P[N]
  <2> HIDE DEF N
  <2> QED
    BY <1>5, <1>6, <1>7, DrawsAreShares DEF N
<1>9. n[NULL] <= N
  <2>1. n[NULL] = RandMax + 1 - P[N]
    BY <1>8
  <2> QED
    BY <1>1, <1>7, <2>1
<1>10. ASSUME NEW e \in es
       PROVE  t[e] * RandMax \in Nat /\ n[e] = (t[e] * RandMax) \div sum
  <2>1. PICK i \in 1..N : e = c[i]
    BY <1>2
  <2>2. n[e] = Share(c, t, e)
    BY <1>8, <2>1
  <2>3. t[e] * RandMax \in Nat
    BY <1>2, <1>7, ProductNat
  <2> QED
    BY <2>2, <2>3 DEF Share
<1> HIDE DEF sum, n
<1>11. ASSUME NEW e \in es
       PROVE  /\ n[e] * sum <= t[e] * RandMax
              /\ t[e] * RandMax < (n[e] + 1) * sum
              /\ \A f \in es : t[e] >= t[f] => n[e] >= n[f]
  <2>1. n[e] * sum <= t[e] * RandMax /\ t[e] * RandMax < (n[e] + 1) * sum
    <3> DEFINE a == t[e] * RandMax
    <3>1. a \in Nat /\ n[e] = a \div sum
      BY <1>10
    <3> HIDE DEF a
    <3>2. n[e] * sum <= a /\ a < (n[e] + 1) * sum
      BY <1>5, <3>1, Quotient
    <3> QED
      BY <3>2 DEF a
  <2>2. ASSUME NEW f \in es, t[e] >= t[f] PROVE n[e] >= n[f]
    <3>1. t[f] * RandMax <= t[e] * RandMax
      BY <1>2, <1>7, <2>2, ProductMonotone
    <3> DEFINE a == t[e] * RandMax
               b == t[f] * RandMax
    <3>2. a \in Nat /\ b \in Nat /\ b <= a /\ n[e] = a \div sum /\ n[f] = b \div sum
      BY <1>10, <3>1
    <3> HIDE DEF a, b
    <3>3. b \div sum <= a \div sum /\ b \div sum \in Nat /\ a \div sum \in Nat
      BY <1>5, <3>2, QuotientMonotone, Quotient
    <3> QED
      BY <3>2, <3>3
  <2> QED
    BY <2>1, <2>2
<1> USE DEF sum, n
<1>12. RulesAgree(c, t, rules)
  <2> DEFINE First == \E i \in 1..N : c[i] = highest(c, t) /\ c[i] \in top /\ \A j \in 1..(i - 1) : c[j] \notin top
             Within == banded(c, t) = {e \in es : \E f \in top : t[f] - t[e] <= Band}
             Fair == /\ \A e \in es : /\ n[e] * sum <= t[e] * RandMax
                                      /\ t[e] * RandMax < (n[e] + 1) * sum
                                      /\ \A f \in es : t[e] >= t[f] => n[e] >= n[f]
                     /\ n[NULL] <= N
  <2>1. First /\ Within
    BY <1>3, <1>4
  <2>2. Fair
    <3> HIDE DEF sum, n, es
    <3> QED
      BY <1>9, <1>11
  <2>3. RulesAgree(c, t, rules) <=>
           (c # <<>> => ("highest" \in rules => First) /\ ("banded" \in rules => Within)
                        /\ ("proportional" \in rules => Fair))
    BY DEF RulesAgree
  <2> HIDE DEF First, Within, Fair
  <2> QED
    BY <2>1, <2>2, <2>3
<1> QED
  BY <1>12

-----------------------------------------------------------------------------
(* The inductive invariant. *)

Listed == ToSet(edge_resources)

(* What happened is recorded with its type. *)
GhostOK ==
    /\ log \in [Edges -> Seq(Reports)]
    /\ since \in [edge : [EdgeBlocks -> Nat], cap : [CapBlocks -> Nat]]
    /\ owners \in [EdgeBlocks -> SUBSET Edges]
    /\ homes \in [Edges -> SUBSET CapBlocks]
    /\ used \in [tasks : Nat, reports : Nat, messages : Nat, moves : Nat]
    /\ used.reports <= scenario.reports /\ \A e \in Edges : Len(log[e]) <= used.reports

(* Edges that are listed share neither address nor capability, and only one  *)
(* that is active has a capability.                                          *)
BlocksOK ==
    /\ \A b \in Listed : edge[b].addr \in Edges /\ (edge[b].cap # NULL => edge[b].active)
    /\ \A b, d \in Listed : edge[b].addr = edge[d].addr => b = d
    /\ \A b, d \in Listed : edge[b].cap # NULL /\ edge[b].cap = edge[d].cap => b = d

(* The k-th slot after slot a *)
Pos(a, k) == IF a + k < HistorySize THEN a + k ELSE a + k - HistorySize

(* The ring buffer h holds the last of the observations xs. *)
HoldsLast(h, xs) ==
    /\ h.count = IF Len(xs) < HistorySize THEN Len(xs) ELSE HistorySize
    /\ h.tail = Pos(h.head, h.count)
    /\ \A i \in 1..h.count : h.interactions[Pos(h.head, i - 1)] = xs[Len(xs) - h.count + i]

RecordOf(b) ==
    LET e == edge[b].addr
        c == edge[b].cap
        n == since.edge[b]
        m == since.cap[c]
    IN /\ n <= Len(log[e])
       /\ c # NULL => m <= Len(log[e])
       /\ IF scenario.model = "hmm"
          THEN c # NULL => HoldsLast(capability[c].hist, Observed(Experience(e, m)))
          ELSE /\ edge[b].tm.sub = Tally(Experience(e, n), {"acked"}, {"unacked"})
               /\ edge[b].tm.res = Tally(Experience(e, n), {"answered"}, {"unanswered"})
               /\ c # NULL => capability[c].qual = Tally(Experience(e, m), {"correct"}, {"incorrect"})

RecordsOK == \A b \in Listed : RecordOf(b)

(* Who has had which block: as long as there is a free one nobody has lost   *)
(* his, and a block that has had one Edge only is the only one of that Edge. *)
OwnersOK ==
    /\ \A b \in EdgeBlocks \ Listed : owners[b] = {}
    /\ \A b \in Listed : /\ edge[b].addr \in owners[b]
                         /\ edge[b].cap # NULL => edge[b].cap \in homes[edge[b].addr]
    /\ EdgeBlocks \ Listed # {} => \A b \in Listed : owners[b] = {edge[b].addr}
    /\ \A b, d \in EdgeBlocks, e \in Edges : owners[b] = {e} /\ e \in owners[d] => d = b

(* What is kept of an Edge has its type. *)
Kept(x) == /\ x = [tm |-> x.tm, caps |-> x.caps]
           /\ x.tm \in [sub : Told, res : Told]
           /\ DOMAIN x.caps \subseteq CapBlocks /\ \A c \in DOMAIN x.caps : x.caps[c] \in Told

PeersOK ==
    /\ DOMAIN peer \subseteq Peers
    /\ IsFiniteSet(DOMAIN peer) /\ Cardinality(DOMAIN peer) <= NumPeers
    /\ \A p \in DOMAIN peer :
          /\ DOMAIN peer[p] \subseteq EdgeBlocks
          /\ \A b \in DOMAIN peer[p] : owners[b] # {} /\ Kept(peer[p][b])

(* What has been said is of Edges that have been known, and the part of the  *)
(* capability came while there was one.                                      *)
SaidOK ==
    /\ said \in [Peers -> [Edges -> [tm : EdgeTm \cup {NULL}, qual : Beta \cup {NULL}]]]
    /\ \A p \in Peers, e \in Edges :
          /\ said[p][e].tm = NULL => said[p][e].qual = NULL
          /\ said[p][e].tm # NULL => p \in DOMAIN peer /\ \E b \in EdgeBlocks : e \in owners[b]
          /\ homes[e] = {} => said[p][e].qual = NULL

(* What is kept of an Edge is what was said of it. *)
KeptOf(p, b, e) ==
    /\ b \in DOMAIN peer[p] <=> said[p][e].tm # NULL
    /\ b \in DOMAIN peer[p] =>
          /\ peer[p][b].tm = said[p][e].tm
          /\ DOMAIN peer[p][b].caps \subseteq homes[e]
          /\ \A c \in CapBlocks : homes[e] = {c} =>
                IF c \in DOMAIN peer[p][b].caps THEN peer[p][b].caps[c] = said[p][e].qual
                                                ELSE said[p][e].qual = NULL

KeptOK == \A p \in DOMAIN peer, b \in EdgeBlocks, e \in Edges : owners[b] = {e} => KeptOf(p, b, e)

(* The parts of TypeOK. *)
EdgesOK ==
    /\ scenario \in Scenarios
    /\ edge_resources \in Seq(EdgeBlocks) /\ IsInjective(edge_resources)
    /\ edge \in [EdgeBlocks -> [addr : Edges \cup {NULL}, active : BOOLEAN,
                                cap : CapBlocks \cup {NULL}, tm : EdgeTm]]
    /\ capability \in [CapBlocks -> [qual : Beta, hist : Histories(Reports)]]
    /\ given \subseteq Edges

KeysOK == key \in [Edges -> {"none", "to_verify", "verified"}]

RequestsOK ==
    /\ requesting \in Seq(Tags) /\ stereotypes \in Seq(Tags)
    /\ IsInjective(requesting \o stereotypes)
    /\ Len(requesting) + Len(stereotypes) <= MaxNumStereotypes
    /\ exchanges \in [Tags -> Nat]
    /\ {polled, locked, failed} \subseteq BOOLEAN

(* What is left alone by what happens to stereotypes and keys *)
CoreInv == EdgesOK /\ GhostOK /\ BlocksOK /\ RecordsOK /\ OwnersOK /\ PeersOK /\ SaidOK /\ KeptOK

IInv == CoreInv /\ KeysOK /\ RequestsOK

LEMMA TypeParts == TypeOK <=> EdgesOK /\ KeysOK /\ RequestsOK
  BY DEF TypeOK, EdgesOK, KeysOK, RequestsOK

LEMMA CoreFrame ==
    ASSUME CoreInv, UNCHANGED <<scenario, edgeVars, peerVars, taskVars, used>>
    PROVE  CoreInv'
<1> USE DEF edgeVars, peerVars, taskVars
<1>1. EdgesOK' /\ GhostOK' /\ BlocksOK'
  BY DEF CoreInv, EdgesOK, GhostOK, BlocksOK, Listed
<1>2. RecordsOK'
  BY DEF CoreInv, RecordsOK, RecordOf, Listed, Experience
<1>3. OwnersOK' /\ PeersOK' /\ SaidOK'
  BY DEF CoreInv, OwnersOK, PeersOK, SaidOK, Listed
<1>4. KeptOK'
  BY DEF CoreInv, KeptOK, KeptOf
<1> QED
  BY <1>1, <1>2, <1>3, <1>4 DEF CoreInv

-----------------------------------------------------------------------------
(* Stereotypes. *)

(* What has a certificate is kept, and what is asked for is asked for still. *)
KeptStep ==
    /\ \A t \in ToSet(stereotypes) :
          keystore_certificate_contains_tags(t) => t \in ToSet(stereotypes')
    /\ \A t \in ToSet(requesting) : t \in ToSet(requesting') \cup ToSet(stereotypes')

LEMMA RoomForRequest ==
    ASSUME RequestsOK, MakeStereotypeRoom # NULL
    PROVE  LET room == MakeStereotypeRoom
           IN /\ room \in Seq(Tags) /\ IsInjective(room) /\ ToSet(room) \subseteq ToSet(stereotypes)
              /\ Len(requesting) + Len(room) < MaxNumStereotypes
              /\ \A t \in ToSet(stereotypes) : keystore_certificate_contains_tags(t) => t \in ToSet(room)
<1> DEFINE useless == SelectInSeq(stereotypes, Useless)
           N == Len(stereotypes)
           I == {i \in 1..N : Useless(stereotypes[i])}
<1>0. MaxNumStereotypes \in Nat /\ Len(requesting) \in Nat /\ N \in Nat
      /\ stereotypes \in Seq(Tags) /\ DOMAIN stereotypes = 1..N
  BY LenProperties, TrustAssumption DEF RequestsOK
<1>1. IsInjective(stereotypes) /\ Len(requesting) + N <= MaxNumStereotypes
  BY ConcatInjective DEF RequestsOK
<1>2. CASE N + Len(requesting) < MaxNumStereotypes
  <2>1. MakeStereotypeRoom = stereotypes
    BY <1>2 DEF MakeStereotypeRoom
  <2> QED
    BY <1>0, <1>1, <1>2, <2>1
<1>3. CASE ~(N + Len(requesting) < MaxNumStereotypes)
  <2>1. useless # 0 /\ MakeStereotypeRoom = RemoveAt(stereotypes, useless)
    BY <1>3 DEF MakeStereotypeRoom
  <2>2. I # {} /\ useless = Min(I)
    BY <2>1 DEF SelectInSeq
  <2>3. Min(I) \in I
    <3>1. I \subseteq Nat
      BY <1>0
    <3> HIDE DEF I
    <3> QED
      BY <2>2, <3>1, MinIn
  <2>4. useless \in 1..N /\ Useless(stereotypes[useless])
    BY <2>2, <2>3
  <2> HIDE DEF useless
  <2> DEFINE room == RemoveAt(stereotypes, useless)
  <2>5. room \in Seq(Tags) /\ Len(room) = N - 1
    BY <1>0, <2>4, RemoveAtProperties
  <2>6. IsInjective(room) /\ ToSet(room) = ToSet(stereotypes) \ {stereotypes[useless]}
    BY <1>0, <1>1, <2>4, RemoveAtInjective
  <2> HIDE DEF room
  <2>7. Len(requesting) + Len(room) < MaxNumStereotypes
    BY <1>0, <1>1, <2>5
  <2>8. ~keystore_certificate_contains_tags(stereotypes[useless])
    BY <2>4 DEF Useless
  <2> QED
    BY <2>1, <2>5, <2>6, <2>7, <2>8 DEF room
<1> QED
  BY <1>2, <1>3

LEMMA RequestKeeps ==
    ASSUME RequestsOK, NEW t \in Tags, stereotypes_request(t)
    PROVE  RequestsOK' /\ KeptStep
<1> DEFINE room == MakeStereotypeRoom
<1>1. CASE t \in ToSet(stereotypes) \cup ToSet(requesting) \/ room = NULL
  <2>1. UNCHANGED <<requesting, stereotypes, polled, failed, locked, exchanges>>
    BY <1>1 DEF stereotypes_request
  <2> QED
    BY <2>1 DEF RequestsOK, KeptStep
<1>2. CASE ~(t \in ToSet(stereotypes) \cup ToSet(requesting) \/ room = NULL)
  <2>1. /\ stereotypes' = room /\ requesting' = <<t>> \o requesting
        /\ polled' = TRUE /\ failed' = FALSE /\ UNCHANGED <<locked, exchanges>>
    BY <1>2 DEF stereotypes_request, Poll
  <2>2. /\ room \in Seq(Tags) /\ IsInjective(room) /\ ToSet(room) \subseteq ToSet(stereotypes)
        /\ Len(requesting) + Len(room) < MaxNumStereotypes
        /\ \A x \in ToSet(stereotypes) : keystore_certificate_contains_tags(x) => x \in ToSet(room)
    BY <1>2, RoomForRequest
  <2>3. /\ requesting \in Seq(Tags) /\ stereotypes \in Seq(Tags) /\ IsInjective(requesting)
        /\ ToSet(requesting) \cap ToSet(stereotypes) = {}
    BY ConcatInjective DEF RequestsOK
  <2> DEFINE r == <<t>> \o requesting
  <2>4. /\ r \in Seq(Tags) /\ Len(r) = Len(requesting) + 1 /\ ToSet(r) = ToSet(requesting) \cup {t}
        /\ IsInjective(r)
    BY <1>2, <2>3, ConsProperties
  <2> HIDE DEF room, r
  <2>5. ToSet(r) \cap ToSet(room) = {}
    BY <1>2, <2>2, <2>3, <2>4
  <2>6. IsInjective(r \o room)
    BY <2>2, <2>4, <2>5, ConcatInjective
  <2>7. Len(r) + Len(room) <= MaxNumStereotypes
    <3>1. Len(requesting) \in Nat /\ Len(room) \in Nat /\ MaxNumStereotypes \in Nat
      BY <2>2, <2>3, LenProperties, TrustAssumption
    <3> QED
      BY <2>2, <2>4, <3>1
  <2>8. stereotypes' = room /\ requesting' = r
    BY <2>1 DEF r
  <2>9. {polled', locked', failed'} \subseteq BOOLEAN /\ exchanges' \in [Tags -> Nat]
    BY <2>1 DEF RequestsOK
  <2>10. RequestsOK'
    BY <2>2, <2>4, <2>6, <2>7, <2>8, <2>9 DEF RequestsOK
  <2> QED
    BY <2>2, <2>4, <2>8, <2>10 DEF KeptStep
<1> QED
  BY <1>1, <1>2

LEMMA SendKeeps ==
    ASSUME RequestsOK, UNCHANGED <<requesting, stereotypes>>, polled' \in BOOLEAN,
           stereotypes_send_request(FALSE) \/ UNCHANGED <<locked, exchanges, failed>>
    PROVE  RequestsOK' /\ KeptStep
<1>1. exchanges' \in [Tags -> Nat]
  <2>1. requesting # <<>> => Head(requesting) \in Tags
    BY HeadTailProperties DEF RequestsOK
  <2>2. CASE /\ requesting # <<>>
             /\ exchanges' = [exchanges EXCEPT ![Head(requesting)] = @ + 1]
    BY <2>1, <2>2 DEF RequestsOK
  <2>3. CASE UNCHANGED exchanges
    BY <2>3 DEF RequestsOK
  <2> QED
    BY <2>2, <2>3 DEF stereotypes_send_request
<1>2. locked' \in BOOLEAN /\ failed' \in BOOLEAN
  BY DEF stereotypes_send_request, RequestsOK
<1> QED
  BY <1>1, <1>2 DEF RequestsOK, KeptStep

LEMMA ResponseKeeps ==
    ASSUME RequestsOK, NEW t \in Tags, process_sterotype_response(t)
    PROVE  /\ requesting' \in Seq(Tags) /\ stereotypes' \in Seq(Tags)
           /\ IsInjective(requesting' \o stereotypes')
           /\ Len(requesting') + Len(stereotypes') <= MaxNumStereotypes
           /\ KeptStep
<1>0. /\ requesting \in Seq(Tags) /\ stereotypes \in Seq(Tags)
      /\ IsInjective(requesting) /\ IsInjective(stereotypes)
      /\ ToSet(requesting) \cap ToSet(stereotypes) = {}
      /\ Len(requesting) + Len(stereotypes) <= MaxNumStereotypes
  BY ConcatInjective DEF RequestsOK
<1>1. CASE t \in ToSet(requesting)
  <2> DEFINE r == RemoveFirst(requesting, t)
             s == <<t>> \o stereotypes
  <2>1. requesting' = r /\ stereotypes' = s
    BY <1>1 DEF process_sterotype_response
  <2>2. /\ r \in Seq(Tags) /\ IsInjective(r) /\ ToSet(r) = ToSet(requesting) \ {t}
        /\ Len(r) = Len(requesting) - 1
    BY <1>0, <1>1, RemoveFirstInjective
  <2>3. /\ s \in Seq(Tags) /\ IsInjective(s) /\ ToSet(s) = ToSet(stereotypes) \cup {t}
        /\ Len(s) = Len(stereotypes) + 1
    BY <1>0, <1>1, ConsProperties
  <2> HIDE DEF r, s
  <2>4. ToSet(r) \cap ToSet(s) = {}
    BY <1>0, <2>2, <2>3
  <2>5. IsInjective(r \o s)
    BY <2>2, <2>3, <2>4, ConcatInjective
  <2>6. Len(r) + Len(s) <= MaxNumStereotypes
    <3>1. Len(requesting) \in Nat /\ Len(stereotypes) \in Nat /\ MaxNumStereotypes \in Nat
      BY <1>0, LenProperties, TrustAssumption
    <3> QED
      BY <1>0, <2>2, <2>3, <3>1
  <2> QED
    BY <2>1, <2>2, <2>3, <2>5, <2>6 DEF KeptStep
<1>2. CASE t \notin ToSet(requesting)
  <2>1. UNCHANGED <<requesting, stereotypes>>
    BY <1>2 DEF process_sterotype_response
  <2> QED
    BY <1>0, <2>1 DEF RequestsOK, KeptStep
<1> QED
  BY <1>1, <1>2

LEMMA CallbackKeeps ==
    ASSUME RequestsOK, NEW t \in Tags, NEW status, send_callback(t, status)
    PROVE  RequestsOK' /\ KeptStep
<1>1. exchanges' \in [Tags -> Nat]
  BY DEF send_callback, RequestsOK
<1>2. CASE process_sterotype_response(t) /\ Finished
  <2>1. {polled', locked', failed'} \subseteq BOOLEAN
    BY <1>2 DEF Finished, Poll
  <2> QED
    BY <1>1, <1>2, <2>1, ResponseKeeps DEF RequestsOK
<1>3. CASE UNCHANGED <<requesting, stereotypes>> /\ Finished
  <2>1. {polled', locked', failed'} \subseteq BOOLEAN
    BY <1>3 DEF Finished, Poll
  <2> QED
    BY <1>1, <1>3, <2>1 DEF RequestsOK, KeptStep
<1>4. CASE locked' = FALSE /\ failed' = TRUE /\ UNCHANGED <<requesting, stereotypes, polled>>
  BY <1>1, <1>4 DEF RequestsOK, KeptStep
<1> QED
  BY <1>2, <1>3, <1>4 DEF send_callback

LEMMA RequestsFrame ==
    ASSUME RequestsOK, UNCHANGED stereotypeVars PROVE RequestsOK' /\ KeptStep
  BY DEF RequestsOK, KeptStep, stereotypeVars

-----------------------------------------------------------------------------
(* The history of the HMM models. *)

After(i) == IF i + 1 = HistorySize THEN 0 ELSE i + 1

LEMMA AfterSlot ==
    ASSUME NEW i \in Slots PROVE (i + 1) % HistorySize = After(i) /\ After(i) \in Slots
<1>1. HistorySize \in Nat /\ HistorySize # 0
  BY HistoryAssumption
<1>2. i \in Nat /\ i + 1 <= HistorySize
  BY <1>1 DEF Slots
<1>3. CASE i + 1 = HistorySize
  <2>1. HistorySize % HistorySize = 0
    BY <1>1
  <2> QED
    BY <1>1, <1>3, <2>1 DEF After, Slots
<1>4. CASE i + 1 # HistorySize
  <2>1. i + 1 \in 0..(HistorySize - 1)
    BY <1>1, <1>2, <1>4
  <2>2. (i + 1) % HistorySize = i + 1
    BY <1>1, <2>1
  <2> QED
    BY <1>4, <2>1, <2>2 DEF After, Slots
<1> QED
  BY <1>3, <1>4

LEMMA PosProperties ==
    ASSUME NEW a \in Slots, NEW k \in 0..HistorySize
    PROVE  /\ Pos(a, k) \in Slots
           /\ k < HistorySize => After(Pos(a, k)) = Pos(a, k + 1)
           /\ 0 < k => Pos(After(a), k - 1) = Pos(a, k)
           /\ Pos(a, 0) = a /\ Pos(a, HistorySize) = a
           /\ \A j \in 0..HistorySize : j < k /\ k - j # HistorySize => Pos(a, j) # Pos(a, k)
  BY HistoryAssumption DEF Slots, Pos, After

LEMMA PushFields ==
    ASSUME NEW a, NEW b, NEW n, NEW v, NEW x,
           NEW r, r = [head |-> a, tail |-> b, count |-> n, interactions |-> v]
    PROVE  [r EXCEPT !.interactions[r.tail] = x, !.tail = (@ + 1) % HistorySize, !.count = @ + 1]
           = [head |-> a, tail |-> (b + 1) % HistorySize, count |-> n + 1,
              interactions |-> [v EXCEPT ![b] = x]]
<1> DEFINE p == [r EXCEPT !.interactions[r.tail] = x, !.tail = (@ + 1) % HistorySize, !.count = @ + 1]
           w == [v EXCEPT ![b] = x]
           d == (b + 1) % HistorySize
           m == n + 1
<1>1. DOMAIN p = {"head", "tail", "count", "interactions"}
  OBVIOUS
<1>2. p.head = a /\ p.tail = d
  OBVIOUS
<1>3. p.count = m
  OBVIOUS
<1>4. p.interactions = w
  OBVIOUS
<1>5. p = [i \in DOMAIN p |-> p[i]]
  OBVIOUS
<1> HIDE DEF p, w, d, m
<1>6. p = [head |-> a, tail |-> d, count |-> m, interactions |-> w]
  BY <1>1, <1>2, <1>3, <1>4, <1>5
<1> QED
  BY <1>6 DEF p, w, d, m

LEMMA PushIsRecord ==
    ASSUME NEW h \in Histories(Reports), NEW x \in Reports
    PROVE  LET full == h.count = HistorySize
           IN interaction_history_push(h, x) =
                 [head |-> IF full THEN After(h.head) ELSE h.head,
                  tail |-> After(h.tail),
                  count |-> IF full THEN HistorySize ELSE h.count + 1,
                  interactions |-> [h.interactions EXCEPT ![h.tail] = x]]
<1>1. /\ h = [head |-> h.head, tail |-> h.tail, count |-> h.count, interactions |-> h.interactions]
      /\ h.head \in Slots /\ h.tail \in Slots /\ h.count \in 0..HistorySize
      /\ h.interactions \in [Slots -> Reports \cup {Unset}]
  BY DEF Histories
<1>0. HistorySize \in Nat
  BY HistoryAssumption
<1> DEFINE r == MakeRoom(h)
<1>2. CASE h.count = HistorySize
  <2>1. r = [head |-> After(h.head), tail |-> h.tail, count |-> HistorySize - 1,
             interactions |-> h.interactions]
    BY <1>1, <1>2, AfterSlot DEF MakeRoom
  <2>2. (HistorySize - 1) + 1 = HistorySize
    BY <1>0
  <2>3. r.tail = h.tail /\ (r.tail + 1) % HistorySize = After(h.tail)
    BY <1>1, <2>1, AfterSlot
  <2>4. interaction_history_push(h, x) =
           [head |-> r.head, tail |-> (r.tail + 1) % HistorySize, count |-> r.count + 1,
            interactions |-> [r.interactions EXCEPT ![r.tail] = x]]
    <3>1. interaction_history_push(h, x) =
            [r EXCEPT !.interactions[r.tail] = x, !.tail = (@ + 1) % HistorySize, !.count = @ + 1]
      BY DEF interaction_history_push
    <3> HIDE DEF r
    <3> QED
      BY <2>1, <3>1, PushFields
  <2> QED
    BY <1>2, <2>1, <2>2, <2>3, <2>4
<1>3. CASE h.count # HistorySize
  <2>1. r = h
    BY <1>3 DEF MakeRoom
  <2>2. interaction_history_push(h, x) =
           [head |-> h.head, tail |-> (h.tail + 1) % HistorySize, count |-> h.count + 1,
            interactions |-> [h.interactions EXCEPT ![h.tail] = x]]
    <3>1. interaction_history_push(h, x) =
            [h EXCEPT !.interactions[h.tail] = x, !.tail = (@ + 1) % HistorySize, !.count = @ + 1]
      BY <2>1 DEF interaction_history_push
    <3> QED
      BY <1>1, <3>1, PushFields
  <2> QED
    BY <1>1, <1>3, <2>2, AfterSlot
<1> QED
  BY <1>2, <1>3

(* A push drops the oldest observation if the buffer is full and adds the new one. *)
LEMMA PushHoldsLast ==
    ASSUME NEW h \in Histories(Reports), NEW xs \in Seq(Reports), HoldsLast(h, xs), NEW x \in Reports
    PROVE  /\ interaction_history_push(h, x) \in Histories(Reports)
           /\ HoldsLast(interaction_history_push(h, x), Append(xs, x))
<1> DEFINE H == HistorySize
           n == Len(xs)
           ys == Append(xs, x)
           g == interaction_history_push(h, x)
           a == h.head
           k == h.count
           v == [h.interactions EXCEPT ![h.tail] = x]
<1>0. H \in Nat /\ H # 0 /\ n \in Nat /\ a \in Slots /\ k \in 0..H /\ k \in Nat
      /\ h.interactions \in [Slots -> Reports \cup {Unset}] /\ h.tail \in Slots
  BY HistoryAssumption, LenProperties DEF Histories
<1>1. /\ k = (IF n < H THEN n ELSE H) /\ h.tail = Pos(a, k)
      /\ \A i \in 1..k : h.interactions[Pos(a, i - 1)] = xs[n - k + i]
  BY DEF HoldsLast
<1>2. Len(ys) = n + 1 /\ (\A i \in 1..n : ys[i] = xs[i]) /\ ys[n + 1] = x
  BY AppendProperties
<1> HIDE DEF ys
<1>3. v \in [Slots -> Reports \cup {Unset}] /\ v[h.tail] = x
      /\ \A i \in Slots : i # h.tail => v[i] = h.interactions[i]
  BY <1>0
<1>4. After(h.tail) \in Slots /\ After(a) \in Slots
  BY <1>0, AfterSlot
<1>5. CASE k # H
  <2>1. g = [head |-> a, tail |-> After(h.tail), count |-> k + 1, interactions |-> v]
    BY <1>5, PushIsRecord
  <2>2. k = n /\ k < H /\ k + 1 \in 0..H
    BY <1>0, <1>1, <1>5
  <2> HIDE DEF g, v
  <2>3. g \in Histories(Reports)
    BY <1>0, <1>3, <1>4, <2>1, <2>2 DEF Histories
  <2>4. g.count = IF Len(ys) < H THEN Len(ys) ELSE H
    BY <1>0, <1>2, <2>1, <2>2
  <2>5. g.tail = Pos(g.head, g.count)
    BY <1>0, <1>1, <2>1, <2>2, PosProperties
  <2>6. ASSUME NEW i \in 1..g.count PROVE g.interactions[Pos(g.head, i - 1)] = ys[Len(ys) - g.count + i]
    <3>1. i \in 1..(k + 1) /\ Len(ys) - g.count + i = i /\ g.head = a /\ g.interactions = v
      BY <1>0, <1>2, <2>1, <2>2
    <3>2. CASE i = k + 1
      <4>1. i - 1 = k /\ i = n + 1
        BY <1>0, <2>2, <3>2
      <4> QED
        BY <1>1, <1>2, <1>3, <3>1, <4>1
    <3>3. CASE i # k + 1
      <4>1. i \in 1..k /\ i - 1 \in 0..H /\ i - 1 < k /\ k - (i - 1) # H /\ n - k + i = i /\ i \in 1..n
        BY <1>0, <2>2, <3>1, <3>3
      <4>2. Pos(a, i - 1) # Pos(a, k) /\ Pos(a, i - 1) \in Slots
        BY <1>0, <4>1, PosProperties
      <4>3. v[Pos(a, i - 1)] = h.interactions[Pos(a, i - 1)]
        BY <1>1, <1>3, <4>2
      <4>4. h.interactions[Pos(a, i - 1)] = xs[i] /\ ys[i] = xs[i]
        BY <1>1, <1>2, <4>1
      <4> QED
        BY <3>1, <4>3, <4>4
    <3> QED
      BY <3>2, <3>3
  <2> QED
    BY <2>3, <2>4, <2>5, <2>6 DEF HoldsLast, g, ys
<1>6. CASE k = H
  <2>1. g = [head |-> After(a), tail |-> After(h.tail), count |-> H, interactions |-> v]
    BY <1>6, PushIsRecord
  <2>2. n >= H /\ h.tail = a /\ H \in 0..H
    <3>1. Pos(a, H) = a
      BY <1>0, PosProperties
    <3> QED
      BY <1>0, <1>1, <1>6, <3>1
  <2> HIDE DEF g, v
  <2>3. g \in Histories(Reports)
    BY <1>0, <1>3, <1>4, <2>1, <2>2 DEF Histories
  <2>4. g.count = IF Len(ys) < H THEN Len(ys) ELSE H
    BY <1>0, <1>2, <2>1, <2>2
  <2>5. g.tail = Pos(g.head, g.count)
    <3>1. Pos(After(a), H) = After(a)
      BY <1>0, <1>4, <2>2, PosProperties
    <3> QED
      BY <2>1, <2>2, <3>1
  <2>6. ASSUME NEW i \in 1..g.count PROVE g.interactions[Pos(g.head, i - 1)] = ys[Len(ys) - g.count + i]
    <3>1. i \in 1..H /\ Len(ys) - g.count + i = n + 1 - H + i /\ g.head = After(a) /\ g.interactions = v
      BY <1>0, <1>2, <2>1, <2>2
    <3>2. i \in 0..H /\ 0 < i
      BY <3>1
    <3>3. Pos(After(a), i - 1) = Pos(a, i)
      BY <1>0, <3>2, PosProperties
    <3>4. CASE i = H
      <4>1. Pos(a, i) = a /\ n + 1 - H + i = n + 1
        BY <1>0, <3>2, <3>4, PosProperties
      <4> QED
        BY <1>2, <1>3, <2>2, <3>1, <3>3, <4>1
    <3>5. CASE i # H
      <4>1. i + 1 \in 1..k /\ i < H /\ (i + 1) - 1 = i /\ n - k + (i + 1) = n + 1 - H + i
            /\ n + 1 - H + i \in 1..n /\ 0 \in 0..H /\ 0 < i /\ i - 0 # H
        BY <1>0, <1>6, <2>2, <3>1, <3>2, <3>5
      <4>2. Pos(a, i) # a /\ Pos(a, i) \in Slots
        <5>1. Pos(a, 0) = a /\ Pos(a, 0) # Pos(a, i) /\ Pos(a, i) \in Slots
          BY <1>0, <3>2, <4>1, PosProperties
        <5> QED
          BY <5>1
      <4>3. v[Pos(a, i)] = h.interactions[Pos(a, i)]
        BY <1>3, <2>2, <4>2
      <4>4. h.interactions[Pos(a, i)] = xs[n + 1 - H + i]
        BY <1>1, <4>1
      <4>5. ys[n + 1 - H + i] = xs[n + 1 - H + i]
        BY <1>2, <4>1
      <4> QED
        BY <3>1, <3>3, <4>3, <4>4, <4>5
    <3> QED
      BY <3>4, <3>5
  <2> QED
    BY <2>3, <2>4, <2>5, <2>6 DEF HoldsLast, g, ys
<1> QED
  BY <1>5, <1>6

(* A loop over the history sees what is in it, oldest first, and ends. *)
LEMMA IteratedIsHeld ==
    ASSUME NEW h \in Histories(Reports), h.tail = Pos(h.head, h.count)
    PROVE  Iterated(h) = [k \in 1..h.count |-> h.interactions[Pos(h.head, k - 1)]]
<1> DEFINE H == HistorySize
           a == h.head
           n == h.count
           Fn(f) == [k \in 1..(H + 1) |-> IF k = 1 THEN interaction_history_iter(h)
                        ELSE IF f[k - 1] = NoSlot THEN NoSlot ELSE interaction_history_next(h, f[k - 1])]
           at == CHOOSE f : f = Fn(f)
           g == [k \in 1..(H + 1) |-> IF k <= n THEN Pos(a, k - 1) ELSE NoSlot]
           Walk(x, k) == IF x = NoSlot THEN NoSlot ELSE interaction_history_next(h, x)
<1>0. H \in Nat /\ H # 0 /\ a \in Slots /\ n \in 0..H /\ n \in Nat /\ h.tail \in Slots
  BY HistoryAssumption DEF Histories
<1>1. \A s \in Slots : s # NoSlot
  BY <1>0 DEF Slots, NoSlot
<1>2. g[1] = interaction_history_iter(h)
  <2>1. 1 \in 1..(H + 1) /\ 1 - 1 = 0 /\ Pos(a, 0) = a /\ (1 <= n <=> n # 0)
    BY <1>0, PosProperties
  <2> QED
    BY <2>1 DEF interaction_history_iter
<1>3. ASSUME NEW k \in 2..(H + 1) PROVE k - 1 \in 1..(H + 1) /\ g[k] = Walk(g[k - 1], k)
  <2>0. k - 1 \in 1..(H + 1) /\ k \in 1..(H + 1) /\ (k - 1) - 1 = k - 2
    BY <1>0
  <2>1. CASE ~(k - 1 <= n)
    <3>1. ~(k <= n)
      BY <1>0, <2>1
    <3> QED
      BY <2>0, <2>1, <3>1
  <2>2. CASE k - 1 <= n
    <3> DEFINE p == Pos(a, k - 2)
    <3>1. g[k - 1] = p
      BY <2>0, <2>2
    <3>2. k - 2 \in 0..H /\ k - 2 < H /\ (k - 2) + 1 = k - 1 /\ k - 1 \in 0..H /\ k - 1 # 0
      BY <1>0, <2>0, <2>2
    <3>3. p \in Slots /\ After(p) = Pos(a, k - 1)
      BY <1>0, <3>2, PosProperties
    <3>4. (p + 1) % H = Pos(a, k - 1)
      BY <3>3, AfterSlot
    <3>5. Walk(g[k - 1], k) = IF Pos(a, k - 1) = Pos(a, n) THEN NoSlot ELSE Pos(a, k - 1)
      BY <1>1, <3>1, <3>3, <3>4 DEF interaction_history_next
    <3>6. CASE k - 1 = n
      <4>1. ~(k <= n)
        BY <1>0, <3>6
      <4> QED
        BY <2>0, <3>5, <3>6, <4>1
    <3>7. CASE k - 1 # n
      <4>1. k <= n /\ k - 1 < n /\ n - (k - 1) # H
        BY <1>0, <2>2, <3>2, <3>7
      <4>2. Pos(a, k - 1) # Pos(a, n)
        BY <1>0, <3>2, <4>1, PosProperties
      <4> QED
        BY <2>0, <3>5, <4>1, <4>2
    <3> QED
      BY <3>6, <3>7
  <2> QED
    BY <2>0, <2>1, <2>2
<1>4. \A k \in 1..(H + 1) : k # 1 => k \in 2..(H + 1)
  BY <1>0
<1>5. g = Fn(g)
  <2>1. g = [k \in 1..(H + 1) |-> g[k]]
    OBVIOUS
  <2> HIDE DEF g
  <2>2. \A k \in 1..(H + 1) : g[k] = IF k = 1 THEN interaction_history_iter(h)
                       ELSE IF g[k - 1] = NoSlot THEN NoSlot ELSE interaction_history_next(h, g[k - 1])
    BY <1>2, <1>3, <1>4
  <2> QED
    BY <2>1, <2>2
<1>6. at = Fn(at)
  <2> HIDE DEF Fn
  <2> QED
    BY <1>5
<1>7. Iterated(h) = LET seen == Cardinality({k \in 1..(H + 1) : at[k] # NoSlot})
                    IN [k \in 1..seen |-> h.interactions[at[k]]]
  BY DEF Iterated
<1> HIDE DEF at
<1>8. at[1] = interaction_history_iter(h) /\ \A k \in 2..(H + 1) : at[k] = Walk(at[k - 1], k)
  <2>1. 1 \in 1..(H + 1) /\ \A k \in 2..(H + 1) : k \in 1..(H + 1) /\ k # 1
    BY <1>0
  <2> QED
    BY <1>6, <2>1
<1> DEFINE T == {i \in Nat : i <= H => at[i + 1] = g[i + 1]}
<1> HIDE DEF g, Walk
<1>9. 0 \in T
  BY <1>2, <1>8
<1>10. ASSUME NEW i \in Nat, i \in T PROVE i + 1 \in T
  <2> SUFFICES ASSUME i + 1 <= H PROVE at[(i + 1) + 1] = g[(i + 1) + 1]
    OBVIOUS
  <2>1. (i + 1) + 1 \in 2..(H + 1) /\ ((i + 1) + 1) - 1 = i + 1 /\ i <= H
    BY <1>0
  <2>2. at[i + 1] = g[i + 1]
    BY <1>10, <2>1
  <2> QED
    BY <1>3, <1>8, <2>1, <2>2
<1>11. Nat \subseteq T
  <2> HIDE DEF T
  <2> QED
    BY <1>9, <1>10, Induct
<1>12. ASSUME NEW k \in 1..(H + 1) PROVE at[k] = g[k]
  <2>1. k - 1 \in Nat /\ k - 1 <= H /\ (k - 1) + 1 = k
    BY <1>0
  <2> QED
    BY <1>11, <2>1
<1> USE DEF g
<1>13. {k \in 1..(H + 1) : at[k] # NoSlot} = 1..n
  <2>1. ASSUME NEW k \in 1..(H + 1), k <= n PROVE at[k] # NoSlot
    <3>1. k - 1 \in 0..H
      BY <1>0
    <3>2. Pos(a, k - 1) \in Slots
      BY <1>0, <3>1, PosProperties
    <3> QED
      BY <1>1, <1>12, <2>1, <3>2
  <2>2. ASSUME NEW k \in 1..(H + 1), ~(k <= n) PROVE at[k] = NoSlot
    BY <1>12, <2>2
  <2>3. \A k \in 1..(H + 1) : k <= n => k \in 1..n
    BY <1>0
  <2>4. \A k \in 1..n : k \in 1..(H + 1) /\ k <= n
    BY <1>0
  <2> HIDE DEF g, H, n
  <2> QED
    BY <2>1, <2>2, <2>3, <2>4
<1>14. Cardinality(1..n) = n
  <2>0. 1 \in Int /\ n \in Int
    BY <1>0
  <2> HIDE DEF n
  <2>1. Cardinality(1..n) = IF 1 > n THEN 0 ELSE n - 1 + 1
    BY <2>0, FS_Interval
  <2> QED
    BY <1>0, <2>1
<1>15. Iterated(h) = [k \in 1..n |-> h.interactions[at[k]]]
  <2> HIDE DEF H, n
  <2> QED
    BY <1>7, <1>13, <1>14
<1>16. \A k \in 1..n : at[k] = Pos(a, k - 1)
  <2>1. \A k \in 1..n : k \in 1..(H + 1) /\ k <= n
    BY <1>0
  <2> QED
    BY <1>12, <2>1
<1> QED
  BY <1>15, <1>16

LEMMA MaxOfTwo ==
    ASSUME NEW a \in Int, NEW b \in Int PROVE Max({a, b}) = IF a >= b THEN a ELSE b
<1> DEFINE m == IF a >= b THEN a ELSE b
<1>1. m \in {a, b} /\ \A y \in {a, b} : m >= y
  OBVIOUS
<1>2. \A x \in {a, b} : (\A y \in {a, b} : x >= y) => x = m
  OBVIOUS
<1> HIDE DEF m
<1>3. Max({a, b}) = m
  BY <1>1, <1>2 DEF Max
<1> QED
  BY <1>3 DEF m

(* The loop over a history that holds the last of xs sees just these. *)
LEMMA IteratedIsLast ==
    ASSUME NEW h \in Histories(Reports), NEW xs \in Seq(Reports), HoldsLast(h, xs)
    PROVE  Iterated(h) = SubSeq(xs, Max({1, Len(xs) - HistorySize + 1}), Len(xs))
<1> DEFINE H == HistorySize
           n == Len(xs)
           k == h.count
           m == Max({1, n - H + 1})
           s == SubSeq(xs, m, n)
<1>0. H \in Nat /\ H # 0 /\ n \in Nat /\ \A i \in 1..n : xs[i] \in Reports
  BY HistoryAssumption, LenProperties
<1>1. /\ k = (IF n < H THEN n ELSE H) /\ h.tail = Pos(h.head, k)
      /\ \A i \in 1..k : h.interactions[Pos(h.head, i - 1)] = xs[n - k + i]
  BY DEF HoldsLast
<1>2. m = n - k + 1
  <2>1. m = IF 1 >= n - H + 1 THEN 1 ELSE n - H + 1
    <3> DEFINE z == n - H + 1
    <3>1. 1 \in Int /\ z \in Int
      BY <1>0
    <3> HIDE DEF z
    <3>2. Max({1, z}) = IF 1 >= z THEN 1 ELSE z
      BY <3>1, MaxOfTwo
    <3> QED
      BY <3>2 DEF z
  <2>2. k = IF n < H THEN n ELSE H
    BY <1>1
  <2>3. H \in Nat /\ n \in Nat
    BY <1>0
  <2> HIDE DEF m, k, H, n
  <2> QED
    BY <2>1, <2>2, <2>3
<1>3. k \in Nat /\ k <= n
  BY <1>0, <1>1
<1> HIDE DEF m, H, k
<1>4. m \in Int /\ n \in Int /\ \A i \in m..n : xs[i] \in Reports
  BY <1>0, <1>2, <1>3
<1>5. /\ s \in Seq(Reports) /\ Len(s) = (IF m <= n THEN n - m + 1 ELSE 0)
      /\ \A i \in 1..(n - m + 1) : s[i] = xs[m + i - 1]
  BY <1>4, SubSeqProperties
<1>6. Len(s) = k /\ n - m + 1 = k
  BY <1>0, <1>2, <1>3, <1>5
<1>7. \A i \in 1..k : m + i - 1 = n - k + i
  BY <1>0, <1>2, <1>3
<1>8. s = [i \in 1..k |-> s[i]]
  BY <1>5, <1>6, LenProperties
<1>9. \A i \in 1..k : s[i] = h.interactions[Pos(h.head, i - 1)]
  BY <1>1, <1>5, <1>6, <1>7
<1>10. Iterated(h) = [i \in 1..k |-> h.interactions[Pos(h.head, i - 1)]]
  BY <1>1, IteratedIsHeld DEF k
<1> HIDE DEF s
<1>11. Iterated(h) = s
  BY <1>8, <1>9, <1>10
<1> QED
  BY <1>11 DEF s, m, H

-----------------------------------------------------------------------------
(* What has been reported. *)

Counted(xs, good) == Cardinality({i \in DOMAIN xs : xs[i] \in good})

LEMMA CountedBounds ==
    ASSUME NEW S, NEW xs \in Seq(S), NEW good PROVE Counted(xs, good) \in 0..Len(xs)
<1> DEFINE I == {i \in DOMAIN xs : xs[i] \in good}
<1>1. Len(xs) \in Nat /\ DOMAIN xs = 1..Len(xs)
  BY LenProperties
<1>2. IsFiniteSet(1..Len(xs)) /\ Cardinality(1..Len(xs)) = Len(xs)
  <2>1. 1 \in Int /\ Len(xs) \in Int
    BY <1>1
  <2>2. /\ IsFiniteSet(1..Len(xs))
        /\ Cardinality(1..Len(xs)) = IF 1 > Len(xs) THEN 0 ELSE Len(xs) - 1 + 1
    BY <2>1, FS_Interval
  <2> QED
    BY <1>1, <2>2
<1>3. I \subseteq 1..Len(xs)
  BY <1>1
<1> HIDE DEF I
<1>4. IsFiniteSet(I) /\ Cardinality(I) <= Len(xs)
  BY <1>2, <1>3, FS_Subset
<1>5. Cardinality(I) \in Nat
  BY <1>4, FS_CardinalityType
<1>6. Cardinality(I) \in 0..Len(xs)
  BY <1>1, <1>4, <1>5
<1> QED
  BY <1>6 DEF I, Counted

LEMMA CountedAppend ==
    ASSUME NEW S, NEW xs \in Seq(S), NEW o \in S, NEW good
    PROVE  Counted(Append(xs, o), good) = Counted(xs, good) + (IF o \in good THEN 1 ELSE 0)
<1> DEFINE ys == Append(xs, o)
           n == Len(xs)
           I == {i \in 1..n : xs[i] \in good}
           J == {i \in 1..(n + 1) : ys[i] \in good}
<1>1. ys \in Seq(S) /\ Len(ys) = n + 1 /\ (\A i \in 1..n : ys[i] = xs[i]) /\ ys[n + 1] = o
  BY AppendProperties
<1> HIDE DEF ys
<1>2. DOMAIN xs = 1..n /\ DOMAIN ys = 1..(n + 1) /\ n \in Nat
  BY <1>1, LenProperties
<1>3. Counted(xs, good) = Cardinality(I) /\ Counted(ys, good) = Cardinality(J)
  BY <1>2 DEF Counted
<1>4. \A i \in 1..(n + 1) : i \in 1..n \/ i = n + 1
  BY <1>2
<1>5. (\A i \in 1..n : i \in 1..(n + 1)) /\ n + 1 \in 1..(n + 1) /\ n + 1 \notin 1..n
  BY <1>2
<1>6. IsFiniteSet(I)
  <2>1. IsFiniteSet(1..n)
    <3>1. 1 \in Int /\ n \in Int
      BY <1>2
    <3> QED
      BY <3>1, FS_Interval
  <2>2. I \subseteq 1..n
    OBVIOUS
  <2> HIDE DEF I
  <2> QED
    BY <2>1, <2>2, FS_Subset
<1>7. Cardinality(I) \in Nat
  BY <1>6, FS_CardinalityType
<1>8. CASE o \in good
  <2>1. J = I \cup {n + 1} /\ n + 1 \notin I
    BY <1>1, <1>4, <1>5, <1>8
  <2> HIDE DEF I, J
  <2>2. Cardinality(I \cup {n + 1}) = Cardinality(I) + 1
    BY <1>6, <2>1, FS_AddElement
  <2> QED
    BY <1>3, <1>8, <2>1, <2>2 DEF ys
<1>9. CASE o \notin good
  <2>1. J = I
    BY <1>1, <1>4, <1>5, <1>9
  <2> HIDE DEF I, J
  <2>2. Cardinality(I) + 0 = Cardinality(I)
    BY <1>7
  <2> QED
    BY <1>3, <1>9, <2>1, <2>2 DEF ys
<1> QED
  BY <1>8, <1>9

LEMMA TallyIsBeta ==
    ASSUME NEW S, NEW xs \in Seq(S), NEW good, NEW bad
    PROVE  LET d == Tally(xs, good, bad)
           IN d \in Beta /\ d[1] <= 1 + Len(xs) /\ d[2] <= 1 + Len(xs)
<1>1. Tally(xs, good, bad) = <<1 + Counted(xs, good), 1 + Counted(xs, bad)>>
  BY DEF Tally, Counted
<1>2. Counted(xs, good) \in 0..Len(xs) /\ Counted(xs, bad) \in 0..Len(xs) /\ Len(xs) \in Nat
  BY CountedBounds, LenProperties
<1> DEFINE p == 1 + Counted(xs, good)
           q == 1 + Counted(xs, bad)
<1>3. p \in Nat \ {0} /\ q \in Nat \ {0} /\ p <= 1 + Len(xs) /\ q <= 1 + Len(xs)
  BY <1>2
<1> HIDE DEF p, q
<1>4. Tally(xs, good, bad) = <<p, q>>
  BY <1>1 DEF p, q
<1> QED
  BY <1>3, <1>4 DEF Beta

LEMMA TallyAppend ==
    ASSUME NEW S, NEW xs \in Seq(S), NEW o \in S, NEW good, NEW bad, good \cap bad = {}
    PROVE  Tally(Append(xs, o), good, bad) =
              LET d == Tally(xs, good, bad)
              IN IF o \in good THEN beta_dist_add_good(d)
                 ELSE IF o \in bad THEN beta_dist_add_bad(d) ELSE d
<1> DEFINE a == Counted(xs, good)
           b == Counted(xs, bad)
<1>1. Tally(xs, good, bad) = <<1 + a, 1 + b>>
  BY DEF Tally, Counted
<1>2. Tally(Append(xs, o), good, bad) =
        <<1 + (a + (IF o \in good THEN 1 ELSE 0)), 1 + (b + (IF o \in bad THEN 1 ELSE 0))>>
  <2>1. Tally(Append(xs, o), good, bad) = <<1 + Counted(Append(xs, o), good), 1 + Counted(Append(xs, o), bad)>>
    BY DEF Tally, Counted
  <2> QED
    BY <2>1, CountedAppend
<1>3. a \in Nat /\ b \in Nat
  BY CountedBounds, LenProperties
<1> HIDE DEF a, b
<1>4. 1 + (a + 1) = (1 + a) + 1 /\ 1 + (b + 1) = (1 + b) + 1 /\ a + 0 = a /\ b + 0 = b
  BY <1>3
<1>5. CASE o \in good
  BY <1>1, <1>2, <1>4, <1>5 DEF beta_dist_add_good
<1>6. CASE o \in bad
  BY <1>1, <1>2, <1>4, <1>6 DEF beta_dist_add_bad
<1>7. CASE o \notin good /\ o \notin bad
  BY <1>1, <1>2, <1>4, <1>7
<1> QED
  BY <1>5, <1>6, <1>7

LEMMA TallyEmpty ==
    ASSUME NEW good, NEW bad PROVE Tally(<<>>, good, bad) = <<1, 1>>
<1>1. \A g : {i \in DOMAIN <<>> : <<>>[i] \in g} = {}
  OBVIOUS
<1>2. Cardinality({}) = 0
  BY FS_EmptySet
<1>3. Tally(<<>>, good, bad) = <<1 + 0, 1 + 0>>
  BY <1>1, <1>2 DEF Tally
<1> QED
  BY <1>3

(* What follows the n-th of xs, when another is added. *)
LEMMA RestOf ==
    ASSUME NEW S, NEW xs \in Seq(S), NEW n \in Nat, n <= Len(xs)
    PROVE  LET rest == SubSeq(xs, n + 1, Len(xs))
           IN /\ rest \in Seq(S) /\ Len(rest) = Len(xs) - n
              /\ \A i \in 1..(Len(xs) - n) : rest[i] = xs[n + i]
<1> DEFINE N == Len(xs)
           rest == SubSeq(xs, n + 1, N)
<1>1. N \in Nat /\ \A i \in 1..N : xs[i] \in S
  BY LenProperties
<1>2. n + 1 \in Int /\ N \in Int /\ \A i \in (n + 1)..N : xs[i] \in S
  BY <1>1
<1>3. /\ rest \in Seq(S) /\ Len(rest) = (IF n + 1 <= N THEN N - (n + 1) + 1 ELSE 0)
      /\ \A i \in 1..(N - (n + 1) + 1) : rest[i] = xs[(n + 1) + i - 1]
  BY <1>2, SubSeqProperties
<1>4. /\ (IF n + 1 <= N THEN N - (n + 1) + 1 ELSE 0) = N - n /\ N - (n + 1) + 1 = N - n
      /\ \A i \in 1..(N - n) : (n + 1) + i - 1 = n + i
  BY <1>1
<1> HIDE DEF rest, N
<1>5. rest \in Seq(S) /\ Len(rest) = N - n /\ \A i \in 1..(N - n) : rest[i] = xs[n + i]
  BY <1>3, <1>4
<1> QED
  BY <1>5 DEF rest, N

LEMMA RestOfAppend ==
    ASSUME NEW S, NEW xs \in Seq(S), NEW o \in S, NEW n \in Nat, n <= Len(xs)
    PROVE  SubSeq(Append(xs, o), n + 1, Len(Append(xs, o))) = Append(SubSeq(xs, n + 1, Len(xs)), o)
<1> DEFINE ys == Append(xs, o)
           r == SubSeq(xs, n + 1, Len(xs))
           s == SubSeq(ys, n + 1, Len(ys))
           q == Append(r, o)
           m == Len(xs) - n
<1>1. ys \in Seq(S) /\ Len(ys) = Len(xs) + 1 /\ (\A i \in 1..Len(xs) : ys[i] = xs[i])
      /\ ys[Len(xs) + 1] = o
  BY AppendProperties
<1>2. Len(xs) \in Nat /\ m \in Nat
  <2>1. Len(xs) \in Nat
    BY LenProperties
  <2> QED
    BY <2>1
<1>3. r \in Seq(S) /\ Len(r) = m /\ \A i \in 1..m : r[i] = xs[n + i]
  BY RestOf
<1> HIDE DEF ys, r
<1>4. s \in Seq(S) /\ Len(s) = Len(ys) - n /\ \A i \in 1..(Len(ys) - n) : s[i] = ys[n + i]
  <2>1. ys \in Seq(S) /\ n <= Len(ys)
    BY <1>1, <1>2
  <2> QED
    BY <2>1, RestOf
<1>5. q \in Seq(S) /\ Len(q) = Len(r) + 1 /\ (\A i \in 1..Len(r) : q[i] = r[i]) /\ q[Len(r) + 1] = o
  BY <1>3, AppendProperties
<1> HIDE DEF s, q
<1>6. Len(s) = m + 1 /\ Len(q) = m + 1 /\ Len(ys) - n = m + 1
  BY <1>1, <1>2, <1>3, <1>4, <1>5
<1>7. ASSUME NEW i \in 1..(m + 1) PROVE s[i] = q[i]
  <2>1. CASE i = m + 1
    <3>1. n + i = Len(xs) + 1
      BY <1>2, <2>1
    <3> QED
      BY <1>1, <1>3, <1>4, <1>5, <1>6, <2>1, <3>1
  <2>2. CASE i # m + 1
    <3>1. i \in 1..m /\ n + i \in 1..Len(xs)
      BY <1>2, <2>2
    <3> QED
      BY <1>1, <1>3, <1>4, <1>5, <1>6, <3>1
  <2> QED
    BY <2>1, <2>2
<1>8. s = q
  <2> HIDE DEF m
  <2>1. s = [i \in 1..(m + 1) |-> s[i]] /\ q = [i \in 1..(m + 1) |-> q[i]]
    BY <1>4, <1>5, <1>6, LenProperties
  <2> QED
    BY <1>7, <2>1
<1> QED
  BY <1>8 DEF s, q, r, ys

LEMMA RestOfAll ==
    ASSUME NEW S, NEW xs \in Seq(S) PROVE SubSeq(xs, Len(xs) + 1, Len(xs)) = <<>>
<1>1. Len(xs) \in Nat
  BY LenProperties
<1>2. Len(xs) + 1 \in Int /\ Len(xs) \in Int /\ Len(xs) < Len(xs) + 1
  BY <1>1
<1> QED
  BY <1>2, SubSeqEmpty

-----------------------------------------------------------------------------
(* Blocks. *)

LEMMA BlockNumbers ==
    /\ EdgeBlocks \subseteq Nat /\ CapBlocks \subseteq Nat
    /\ NULL \notin EdgeBlocks /\ NULL \notin CapBlocks
    /\ IsFiniteSet(EdgeBlocks) /\ Cardinality(EdgeBlocks) = NumEdgeResources
    /\ IsFiniteSet(CapBlocks) /\ Cardinality(CapBlocks) >= NumEdgeResources
<1> DEFINE n == NumEdgeResources
           k == n * NumEdgeCapabilities
<1>1. n \in Nat \ {0} /\ NumEdgeCapabilities \in Nat \ {0} /\ NULL \notin Nat
  BY TrustAssumption
<1>2. k \in Nat /\ k >= n
  <2>1. 1 * n <= NumEdgeCapabilities * n
    BY <1>1, ProductMonotone
  <2>2. NumEdgeCapabilities * n = k /\ 1 * n = n
    BY <1>1
  <2>3. k \in Nat
    BY <1>1, ProductNat
  <2> QED
    BY <2>1, <2>2, <2>3
<1>3. ASSUME NEW x \in Nat \ {0}
      PROVE  1..x \subseteq Nat /\ NULL \notin 1..x /\ IsFiniteSet(1..x) /\ Cardinality(1..x) = x
  <2>1. 1 \in Int /\ x \in Int
    OBVIOUS
  <2>2. IsFiniteSet(1..x) /\ Cardinality(1..x) = IF 1 > x THEN 0 ELSE x - 1 + 1
    BY <2>1, FS_Interval
  <2>3. 1..x \subseteq Nat
    OBVIOUS
  <2> QED
    BY <1>1, <2>2, <2>3
<1>4. EdgeBlocks = 1..n /\ CapBlocks = 1..k
  BY DEF EdgeBlocks, CapBlocks
<1> HIDE DEF n, k
<1>5. k \in Nat \ {0}
  BY <1>1, <1>2
<1> QED
  BY <1>1, <1>2, <1>3, <1>4, <1>5 DEF n

LEMMA ListedBlocks ==
    ASSUME EdgesOK
    PROVE  /\ Listed \subseteq EdgeBlocks
           /\ DOMAIN edge_resources = 1..Len(edge_resources) /\ Len(edge_resources) \in Nat
           /\ Listed = {edge_resources[i] : i \in 1..Len(edge_resources)}
  BY LenProperties DEF EdgesOK, Listed, ToSet

LEMMA FindAddr ==
    ASSUME EdgesOK, NEW e
    PROVE  LET b == edge_info_find_addr(e)
           IN \/ b = NULL /\ \A d \in Listed : edge[d].addr # e
              \/ b # NULL /\ b \in Listed /\ b \in EdgeBlocks /\ edge[b].addr = e
<1> DEFINE at == {b \in Listed : edge[b].addr = e}
<1>1. edge_info_find_addr(e) = IF at = {} THEN NULL ELSE CHOOSE b \in at : TRUE
  BY DEF edge_info_find_addr, Listed
<1>2. CASE at = {}
  BY <1>1, <1>2
<1>3. CASE at # {}
  <2>1. edge_info_find_addr(e) \in at
    BY <1>1, <1>3
  <2> QED
    BY <2>1, ListedBlocks, BlockNumbers
<1> QED
  BY <1>2, <1>3

(* An Edge that is not known and not active has no capability, so there is *)
(* always a block for one more.                                            *)
LEMMA FreeCapExists ==
    ASSUME EdgesOK, NEW b \in EdgeBlocks, b \in Listed => edge[b].cap = NULL
    PROVE  Min(FreeCaps) \in FreeCaps /\ FreeCaps \subseteq CapBlocks
<1> DEFINE D == EdgeBlocks \ {b}
           I == {edge[d].cap : d \in D}
<1>1. FreeCaps \subseteq Nat /\ FreeCaps \subseteq CapBlocks
  BY BlockNumbers DEF FreeCaps
<1>2. IsFiniteSet(D) /\ Cardinality(D) = NumEdgeResources - 1
  BY BlockNumbers, FS_RemoveElement
<1>3. IsFiniteSet(I) /\ Cardinality(I) <= Cardinality(D)
  <2> DEFINE f == [d \in D |-> edge[d].cap]
  <2>1. f \in Surjection(D, I)
    BY DEF Surjection
  <2> HIDE DEF f, D, I
  <2> QED
    BY <1>2, <2>1, FS_Surjection
<1>4. ASSUME FreeCaps = {} PROVE FALSE
  <2>1. CapBlocks \subseteq I
    <3> SUFFICES ASSUME NEW c \in CapBlocks PROVE c \in I
      OBVIOUS
    <3>1. PICK d \in Listed : c = edge[d].cap
      BY <1>4 DEF FreeCaps, Listed
    <3>2. d \in EdgeBlocks /\ d # b
      BY <3>1, ListedBlocks, BlockNumbers
    <3> QED
      BY <3>1, <3>2
  <2> HIDE DEF I, D
  <2>2. Cardinality(CapBlocks) <= Cardinality(I)
    BY <1>3, <2>1, FS_Subset
  <2>3. /\ Cardinality(CapBlocks) \in Nat /\ Cardinality(I) \in Nat /\ Cardinality(D) \in Nat
        /\ NumEdgeResources \in Nat
    BY <1>2, <1>3, BlockNumbers, FS_CardinalityType, TrustAssumption
  <2> QED
    BY <1>2, <1>3, <2>2, <2>3, BlockNumbers
<1> HIDE DEF D, I
<1> QED
  BY <1>1, <1>4, MinIn

(* The block a new Edge gets is free, or that of an Edge that is not active *)
(* when none is.                                                            *)
LEMMA RoomForEdge ==
    ASSUME EdgesOK, BlocksOK, EdgeRoom # NULL
    PROVE  /\ EdgeRoom \in EdgeBlocks
           /\ EdgeBlocks \ Listed # {} => EdgeRoom \notin Listed
           /\ EdgeRoom \in Listed => edge[EdgeRoom].cap = NULL
<1> DEFINE free == EdgeBlocks \ Listed
           N == Len(edge_resources)
           I == {i \in 1..N : ~edge[edge_resources[i]].active}
           inactive == SelectInSeq(edge_resources, LAMBDA b : ~edge[b].active)
<1>1. EdgeRoom = IF free # {} THEN Min(free)
                 ELSE IF inactive = 0 THEN NULL ELSE edge_resources[inactive]
  BY DEF EdgeRoom, Listed
<1>2. CASE free # {}
  <2>1. free \subseteq Nat
    BY BlockNumbers
  <2> HIDE DEF free
  <2>2. EdgeRoom \in free
    BY <1>1, <1>2, <2>1, MinIn
  <2> USE DEF free
  <2> QED
    BY <2>2
<1>3. CASE free = {}
  <2>1. inactive # 0 /\ EdgeRoom = edge_resources[inactive]
    BY <1>1, <1>3
  <2>2. I # {} /\ inactive = Min(I)
    BY <2>1 DEF SelectInSeq
  <2>3. inactive \in I
    <3>1. I \subseteq Nat
      BY ListedBlocks
    <3> HIDE DEF I, inactive
    <3> QED
      BY <2>2, <3>1, MinIn
  <2>4. EdgeRoom \in Listed /\ ~edge[EdgeRoom].active
    BY <2>1, <2>3, ListedBlocks
  <2> QED
    BY <1>3, <2>4, ListedBlocks DEF BlocksOK
<1> QED
  BY <1>2, <1>3

LEMMA RecordFrame ==
    ASSUME NEW b, RecordOf(b), scenario' = scenario,
           edge'[b].addr = edge[b].addr, edge'[b].tm = edge[b].tm,
           edge'[b].cap = edge[b].cap \/ edge'[b].cap = NULL,
           log'[edge[b].addr] = log[edge[b].addr], since'.edge[b] = since.edge[b],
           edge[b].cap # NULL => /\ since'.cap[edge[b].cap] = since.cap[edge[b].cap]
                                 /\ capability'[edge[b].cap] = capability[edge[b].cap]
    PROVE  RecordOf(b)'
<1>1. CASE edge'[b].cap = NULL
  BY <1>1 DEF RecordOf, Experience
<1>2. CASE edge'[b].cap = edge[b].cap /\ edge[b].cap # NULL
  BY <1>2 DEF RecordOf, Experience
<1> QED
  BY <1>1, <1>2

-----------------------------------------------------------------------------
(* Edges that leave, tasks, and Edges that come. *)

LEMMA AllowedCounts ==
    ASSUME GhostOK, NEW k \in {"tasks", "messages", "moves"}, Allowed(k)
    PROVE  /\ used' \in [tasks : Nat, reports : Nat, messages : Nat, moves : Nat]
           /\ used'.reports = used.reports
<1>0. used \in [tasks : Nat, reports : Nat, messages : Nat, moves : Nat]
  BY DEF GhostOK
<1>1. CASE k = "messages"
  <2>1. used' = [used EXCEPT !.messages = @ + 1]
    BY <1>1 DEF Allowed
  <2> QED
    BY <1>0, <2>1
<1>2. CASE k = "moves"
  <2>1. used' = [used EXCEPT !.moves = @ + 1]
    BY <1>2 DEF Allowed
  <2> QED
    BY <1>0, <2>1
<1>3. CASE k = "tasks"
  <2>1. used' = [used EXCEPT !.tasks = @ + 1]
    BY <1>3 DEF Allowed
  <2> QED
    BY <1>0, <2>1
<1> QED
  BY <1>1, <1>2, <1>3

LEMMA UnavailableKeeps ==
    ASSUME CoreInv, NEW e \in Edges, Unavailable(e) PROVE CoreInv'
<1> DEFINE b == edge_info_find_addr(e)
<1>1. /\ Allowed("moves") /\ b # NULL
      /\ edge' = [edge EXCEPT ![b].active = FALSE, ![b].cap = NULL]
      /\ UNCHANGED <<scenario, edge_resources, capability, since, owners, homes, peer, said,
                     given, log>>
  BY DEF Unavailable, peerVars, taskVars
<1>2. b \in Listed /\ b \in EdgeBlocks
  BY <1>1, FindAddr DEF CoreInv
<1> HIDE DEF b
<1>3. Listed' = Listed /\ Listed \subseteq EdgeBlocks
  BY <1>1, ListedBlocks DEF CoreInv, Listed
<1>4. /\ edge \in [EdgeBlocks -> [addr : Edges \cup {NULL}, active : BOOLEAN,
                                  cap : CapBlocks \cup {NULL}, tm : EdgeTm]]
      /\ edge' \in [EdgeBlocks -> [addr : Edges \cup {NULL}, active : BOOLEAN,
                                   cap : CapBlocks \cup {NULL}, tm : EdgeTm]]
  BY <1>1, <1>2 DEF CoreInv, EdgesOK
<1>5. /\ \A d \in EdgeBlocks : d # b => edge'[d] = edge[d]
      /\ edge'[b].addr = edge[b].addr /\ edge'[b].tm = edge[b].tm /\ edge'[b].cap = NULL
  BY <1>1, <1>2, <1>4
<1>6. EdgesOK'
  BY <1>1, <1>4 DEF CoreInv, EdgesOK
<1>7. GhostOK'
  <2>1. used' \in [tasks : Nat, reports : Nat, messages : Nat, moves : Nat] /\ used'.reports = used.reports
    BY <1>1, AllowedCounts DEF CoreInv, EdgesOK
  <2> QED
    BY <1>1, <2>1 DEF CoreInv, GhostOK
<1>8. BlocksOK'
  BY <1>2, <1>3, <1>5 DEF CoreInv, BlocksOK
<1>9. RecordsOK'
  <2> SUFFICES ASSUME NEW d \in Listed PROVE RecordOf(d)'
    BY <1>3 DEF RecordsOK
  <2>1. RecordOf(d) /\ d \in EdgeBlocks
    BY <1>3 DEF CoreInv, RecordsOK
  <2>2. edge'[d].addr = edge[d].addr /\ edge'[d].tm = edge[d].tm
        /\ (edge'[d].cap = edge[d].cap \/ edge'[d].cap = NULL)
    BY <1>5, <2>1
  <2> QED
    BY <1>1, <2>1, <2>2, RecordFrame
<1>10. OwnersOK'
  <2>1. \A d \in Listed : edge'[d].addr = edge[d].addr /\ (edge'[d].cap = edge[d].cap \/ edge'[d].cap = NULL)
    BY <1>3, <1>5
  <2> QED
    BY <1>1, <1>3, <2>1 DEF CoreInv, OwnersOK
<1>11. PeersOK' /\ SaidOK'
  BY <1>1 DEF CoreInv, PeersOK, SaidOK
<1>12. KeptOK'
  BY <1>1 DEF CoreInv, KeptOK, KeptOf
<1> QED
  BY <1>6, <1>7, <1>8, <1>9, <1>10, <1>11, <1>12 DEF CoreInv

LEMMA ChosenIsUsable ==
    ASSUME EdgesOK, NEW rule \in scenario.rules, NEW b \in choose_edge(rule), b # NULL
    PROVE  b \in Listed /\ b \in EdgeBlocks /\ Usable(b)
<1> DEFINE c == Candidates
<1>1. c \in Seq(EdgeBlocks) /\ ToSet(c) = {d \in Listed : Usable(d)}
  BY CandidatesUsable DEF EdgesOK, Listed
<1> HIDE DEF c
<1>2. Len(c) \in Nat /\ DOMAIN c = 1..Len(c)
  BY <1>1, LenProperties
<1>3. scenario.rules \subseteq Rules
  BY TrustAssumption DEF EdgesOK
<1>4. b \in ToSet(c)
  <2>1. CASE rule = "fcfs"
    <3>1. choose_edge(rule) = {fcfs(c)}
      BY <2>1 DEF choose_edge, c
    <3>2. c # <<>> /\ b = Head(c)
      BY <3>1 DEF fcfs
    <3>3. Head(c) = c[1] /\ 1 \in 1..Len(c)
      <4>1. Len(c) # 0
        BY <1>1, <3>2, EmptySeq
      <4>2. Head(c) = c[1]
        BY <1>1, <3>2, HeadTailProperties
      <4> QED
        BY <1>2, <4>1, <4>2
    <3> QED
      BY <1>2, <3>2, <3>3 DEF ToSet
  <2>2. CASE rule = "random"
    BY <2>2 DEF choose_edge, c, random
  <2>3. CASE rule = "highest"
    <3>1. choose_edge(rule) = {highest(c, Trust)}
      BY <2>3 DEF choose_edge, c
    <3> QED
      BY <1>2, <3>1, HighestAmong
  <2>4. CASE rule = "banded"
    <3>1. choose_edge(rule) = banded(c, Trust)
      BY <2>4 DEF choose_edge, c
    <3> QED
      BY <3>1, BandedAmong
  <2>5. CASE rule = "proportional"
    <3>1. choose_edge(rule) = {proportional(c, Trust, r) : r \in 0..RandMax}
      BY <2>5 DEF choose_edge, c
    <3>2. PICK r \in 0..RandMax : b = proportional(c, Trust, r)
      BY <3>1
    <3> QED
      BY <1>2, <3>2, ProportionalAmong
  <2> QED
    BY <1>3, <2>1, <2>2, <2>3, <2>4, <2>5 DEF Rules
<1> QED
  BY <1>1, <1>4, ListedBlocks

LEMMA CountTyped ==
    ASSUME NEW d \in Beta, NEW good \in BOOLEAN PROVE Count(d, good) \in Beta
  BY DEF Beta, Count, beta_dist_add_good, beta_dist_add_bad

(* What the record of an Edge holds once the report x is counted. *)
Graded(d, x, g, w) == IF x \in {g, w} THEN Count(d, x = g) ELSE d

LEMMA Counting ==
    ASSUME NEW xs \in Seq(Reports), NEW x \in Reports, NEW g, NEW w, g # w
    PROVE  Tally(Append(xs, x), {g}, {w}) = Graded(Tally(xs, {g}, {w}), x, g, w)
<1> DEFINE d == Tally(xs, {g}, {w})
           A == {g}
           B == {w}
<1>1. A \cap B = {} /\ (x \in A <=> x = g) /\ (x \in B <=> x = w)
  OBVIOUS
<1> HIDE DEF A, B
<1>2. Tally(Append(xs, x), A, B) = LET y == Tally(xs, A, B)
                                   IN IF x \in A THEN beta_dist_add_good(y)
                                      ELSE IF x \in B THEN beta_dist_add_bad(y) ELSE y
  BY <1>1, TallyAppend
<1> USE DEF A, B
<1>3. Tally(Append(xs, x), {g}, {w}) =
         IF x = g THEN beta_dist_add_good(d) ELSE IF x = w THEN beta_dist_add_bad(d) ELSE d
  BY <1>1, <1>2
<1> HIDE DEF d
<1> QED
  BY <1>3 DEF Graded, Count, d

-----------------------------------------------------------------------------
(* The observations among the reports. *)

ObserveStep(y, x) == IF x \in {"acked", "answered"} THEN y ELSE Append(y, x)

Observes(f, xs) == /\ f[0] = <<>>
                   /\ \A i \in 1..Len(xs) : f[i] = ObserveStep(f[i - 1], xs[i])
                   /\ Observed(xs) = f[Len(xs)]

LEMMA ObservedLoop ==
    ASSUME NEW xs \in Seq(Reports)
    PROVE  /\ Observed(xs) \in Seq(Reports)
           /\ \E f : Observes(f, xs)
<1> DEFINE N == Len(xs)
           Fn(f) == [i \in 0..N |-> IF i = 0 THEN <<>>
                                    ELSE IF xs[i] \in {"acked", "answered"} THEN f[i - 1]
                                    ELSE Append(f[i - 1], xs[i])]
           f0 == CHOOSE f : f = Fn(f)
           X == Seq(Reports)
           G == [z \in X \X (1..N) |-> ObserveStep(z[1], xs[z[2]])]
           none == <<>>
<1>1. N \in Nat /\ \A i \in 1..N : xs[i] \in Reports
  BY LenProperties
<1>2. G \in [X \X (1..N) -> X]
  <2> SUFFICES ASSUME NEW y \in X, NEW i \in 1..N PROVE ObserveStep(y, xs[i]) \in X
    OBVIOUS
  <2>1. xs[i] \in Reports
    BY <1>1
  <2> QED
    BY <2>1, AppendProperties DEF ObserveStep
<1>3. none \in X
  OBVIOUS
<1>4. PICK f \in [0..N -> X] : f[0] = none /\ \A i \in 1..N : f[i] = G[<<f[i - 1], i>>]
  <2>1. N \in Nat
    BY <1>1
  <2> HIDE DEF N, X, G, none
  <2>2. \E f : Loop(f, X, none, N, G)
    BY <1>2, <1>3, <2>1, LoopExists
  <2> QED
    BY <2>2 DEF Loop
<1>5. \A i \in 1..N : i - 1 \in 0..N /\ f[i] = ObserveStep(f[i - 1], xs[i])
  <2> SUFFICES ASSUME NEW i \in 1..N PROVE i - 1 \in 0..N /\ f[i] = ObserveStep(f[i - 1], xs[i])
    OBVIOUS
  <2>1. i - 1 \in 0..N
    BY <1>1
  <2>2. f[i - 1] \in X
    <3> HIDE DEF X
    <3> QED
      BY <1>4, <2>1
  <2>3. G[<<f[i - 1], i>>] = ObserveStep(f[i - 1], xs[i])
    <3> HIDE DEF X
    <3> QED
      BY <2>2
  <2> QED
    BY <1>4, <2>1, <2>3
<1>6. \A i \in 0..N : i # 0 => i \in 1..N
  BY <1>1
<1>7. f = Fn(f)
  <2> HIDE DEF X, G
  <2> QED
    BY <1>4, <1>5, <1>6 DEF ObserveStep
<1>8. f0 = Fn(f0)
  <2> HIDE DEF Fn
  <2> QED
    BY <1>7
<1>9. Observed(xs) = f0[N]
  BY DEF Observed
<1>10. f0[0] = <<>> /\ \A i \in 1..N : f0[i] = ObserveStep(f0[i - 1], xs[i])
  <2>1. \A i \in 1..N : i \in 0..N /\ i # 0
    BY <1>1
  <2>2. 0 \in 0..N
    BY <1>1
  <2> HIDE DEF f0, N
  <2> QED
    BY <1>8, <2>1, <2>2 DEF ObserveStep
<1>11. \A i \in 0..N : f0[i] \in X
  <2> DEFINE S == {n \in Nat : n <= N => f0[n] \in X}
  <2>1. 0 \in S
    BY <1>3, <1>10
  <2>2. ASSUME NEW n \in Nat, n \in S PROVE n + 1 \in S
    <3> SUFFICES ASSUME n + 1 <= N PROVE f0[n + 1] \in X
      OBVIOUS
    <3>1. n + 1 \in 1..N /\ (n + 1) - 1 = n /\ n <= N
      BY <1>1
    <3>2. f0[n] \in X /\ xs[n + 1] \in Reports
      BY <1>1, <2>2, <3>1
    <3>3. f0[n + 1] = ObserveStep(f0[n], xs[n + 1])
      <4> HIDE DEF f0
      <4> QED
        BY <1>10, <3>1
    <3> HIDE DEF f0
    <3> QED
      BY <3>2, <3>3, AppendProperties DEF ObserveStep
  <2>3. Nat \subseteq S
    <3> HIDE DEF S
    <3> QED
      BY <2>1, <2>2, Induct
  <2> HIDE DEF f0
  <2> QED
    BY <1>1, <2>3
<1>12. N \in 0..N
  BY <1>1
<1> HIDE DEF f0
<1>13. Observed(xs) \in Seq(Reports)
  BY <1>9, <1>11, <1>12
<1>14. Observes(f0, xs)
  BY <1>9, <1>10 DEF Observes
<1> QED
  BY <1>13, <1>14

LEMMA ObservedNone == Observed(<<>>) = <<>>
<1>1. <<>> \in Seq(Reports) /\ Len(<<>>) = 0
  OBVIOUS
<1> DEFINE none == <<>>
<1> HIDE DEF none
<1>2. none \in Seq(Reports) /\ Len(none) = 0
  BY <1>1 DEF none
<1>3. PICK f : Observes(f, none)
  BY <1>2, ObservedLoop
<1>4. f[0] = <<>> /\ Observed(none) = f[Len(none)]
  BY <1>3 DEF Observes
<1> QED
  BY <1>2, <1>4 DEF none

LEMMA ObservedAppend ==
    ASSUME NEW xs \in Seq(Reports), NEW x \in Reports
    PROVE  Observed(Append(xs, x)) = ObserveStep(Observed(xs), x)
<1> DEFINE ys == Append(xs, x)
           n == Len(xs)
<1>1. /\ ys \in Seq(Reports) /\ Len(ys) = n + 1 /\ (\A i \in 1..n : ys[i] = xs[i]) /\ ys[n + 1] = x
      /\ n \in Nat
  BY AppendProperties, LenProperties
<1> HIDE DEF ys
<1>a. PICK f : Observes(f, xs)
  BY ObservedLoop
<1>2. /\ f[0] = <<>> /\ \A i \in 1..n : f[i] = ObserveStep(f[i - 1], xs[i])
      /\ Observed(xs) = f[n]
  BY <1>a DEF Observes
<1>b. PICK g : Observes(g, ys)
  BY <1>1, ObservedLoop
<1>3. /\ g[0] = <<>> /\ \A i \in 1..(n + 1) : g[i] = ObserveStep(g[i - 1], ys[i])
      /\ Observed(ys) = g[n + 1]
  BY <1>1, <1>b DEF Observes
<1>4. g[n] = f[n]
  <2> DEFINE S == {k \in Nat : k <= n => g[k] = f[k]}
  <2>1. 0 \in S
    BY <1>2, <1>3
  <2>2. ASSUME NEW k \in Nat, k \in S PROVE k + 1 \in S
    <3> SUFFICES ASSUME k + 1 <= n PROVE g[k + 1] = f[k + 1]
      OBVIOUS
    <3>1. k + 1 \in 1..n /\ k + 1 \in 1..(n + 1) /\ (k + 1) - 1 = k /\ k <= n
      BY <1>1
    <3>2. g[k] = f[k]
      BY <2>2, <3>1
    <3> HIDE DEF n
    <3> QED
      BY <1>1, <1>2, <1>3, <3>1, <3>2
  <2>3. Nat \subseteq S
    <3> HIDE DEF S
    <3> QED
      BY <2>1, <2>2, Induct
  <2> QED
    BY <1>1, <2>3
<1>5. n + 1 \in 1..(n + 1) /\ (n + 1) - 1 = n
  BY <1>1
<1>6. Observed(ys) = ObserveStep(g[n], x)
  <2> HIDE DEF n
  <2> QED
    BY <1>1, <1>3, <1>5
<1> QED
  BY <1>2, <1>4, <1>6 DEF ys

-----------------------------------------------------------------------------
(* Tasks that are given, and what is reported of them. *)

LEMMA SubmitKeeps ==
    ASSUME CoreInv, NEW b \in Listed, Submit(b) PROVE CoreInv'
<1>1. /\ Allowed("tasks") /\ given' = given \cup {edge[b].addr}
      /\ UNCHANGED <<scenario, edgeVars, peer, said, log>>
  BY DEF Submit, peerVars
<1>2. edge[b].addr \in Edges
  BY DEF CoreInv, BlocksOK
<1>3. /\ used' \in [tasks : Nat, reports : Nat, messages : Nat, moves : Nat]
      /\ used'.reports = used.reports
  BY <1>1, AllowedCounts DEF CoreInv
<1> USE DEF edgeVars
<1>4. EdgesOK' /\ GhostOK' /\ BlocksOK'
  BY <1>1, <1>2, <1>3 DEF CoreInv, EdgesOK, GhostOK, BlocksOK, Listed
<1>5. RecordsOK'
  BY <1>1 DEF CoreInv, RecordsOK, RecordOf, Listed, Experience
<1>6. OwnersOK' /\ PeersOK' /\ SaidOK'
  BY <1>1 DEF CoreInv, OwnersOK, PeersOK, SaidOK, Listed
<1>7. KeptOK'
  BY <1>1 DEF CoreInv, KeptOK, KeptOf
<1> QED
  BY <1>4, <1>5, <1>6, <1>7 DEF CoreInv

LEMMA ReportKeeps ==
    ASSUME CoreInv, NEW a \in given, NEW o \in Reports, Report(a, o),
           NEW b, b = edge_info_find_addr(a)
    PROVE  CoreInv'
<1> DEFINE e == edge[b].addr
           c == edge[b].cap
           hmm == scenario.model = "hmm"
<1>a. b # NULL /\ c # NULL /\ EdgesOK /\ a \in Edges
  BY DEF Report, CoreInv, EdgesOK
<1>b. b \in Listed /\ b \in EdgeBlocks /\ e = a
  BY <1>a, FindAddr DEF CoreInv
<1>c. /\ Allowed("reports") /\ log' = [log EXCEPT ![a] = Append(@, o)]
      /\ UNCHANGED <<scenario, edge_resources, since, owners, homes, peer, said, given>>
      /\ IF hmm THEN Learn_hmm(b, c, o) ELSE Learn_basic(b, c, o)
  BY DEF Report, peerVars
<1>0. /\ EdgesOK /\ GhostOK /\ BlocksOK /\ b \in EdgeBlocks /\ Listed \subseteq EdgeBlocks /\ e \in Edges
      /\ c # NULL /\ c \in CapBlocks
  BY <1>a, <1>b, ListedBlocks DEF CoreInv, BlocksOK, EdgesOK
<1>1. /\ Allowed("reports") /\ log' = [log EXCEPT ![e] = Append(@, o)]
      /\ UNCHANGED <<scenario, edge_resources, since, owners, homes, peer, said, given>>
      /\ IF hmm THEN Learn_hmm(b, c, o) ELSE Learn_basic(b, c, o)
  BY <1>b, <1>c
<1>2. Listed' = Listed
  BY <1>1 DEF Listed
<1> DEFINE tm == edge[b].tm
           newsub == IF o \in {"acked", "unacked"} THEN Count(tm.sub, o = "acked") ELSE tm.sub
           newres == IF o \in {"answered", "unanswered"} THEN Count(tm.res, o = "answered") ELSE tm.res
           newtm == IF hmm THEN tm
                    ELSE [sub |-> newsub, res |-> newres]
           cap == capability[c]
           newqual == IF o \in {"correct", "incorrect"} THEN Count(cap.qual, o = "correct") ELSE cap.qual
           newhist == IF o \in {"acked", "answered"} THEN cap.hist ELSE interaction_history_push(cap.hist, o)
           newcap == IF hmm THEN [qual |-> cap.qual, hist |-> newhist]
                     ELSE [qual |-> newqual, hist |-> cap.hist]
<1>3. /\ edge \in [EdgeBlocks -> [addr : Edges \cup {NULL}, active : BOOLEAN,
                                  cap : CapBlocks \cup {NULL}, tm : EdgeTm]]
      /\ capability \in [CapBlocks -> [qual : Beta, hist : Histories(Reports)]]
      /\ scenario \in Scenarios
  BY <1>0 DEF EdgesOK
<1>4. tm \in EdgeTm /\ tm.sub \in Beta /\ tm.res \in Beta /\ cap.qual \in Beta
      /\ cap.hist \in Histories(Reports)
  BY <1>0, <1>3 DEF EdgeTm
<1>5. /\ \A d \in EdgeBlocks : d # b => edge'[d] = edge[d]
      /\ edge'[b] = [addr |-> e, active |-> edge[b].active, cap |-> c, tm |-> newtm]
      /\ DOMAIN edge' = EdgeBlocks
  <2>1. CASE hmm
    BY <1>0, <1>1, <1>3, <2>1 DEF Learn_hmm
  <2>2. CASE ~hmm
    <3>1. edge' = [edge EXCEPT ![b].tm =
                   [sub |-> IF o \in {"acked", "unacked"} THEN Count(@.sub, o = "acked") ELSE @.sub,
                    res |-> IF o \in {"answered", "unanswered"} THEN Count(@.res, o = "answered")
                            ELSE @.res]]
      BY <1>1, <2>2 DEF Learn_basic
    <3>2. newtm = [sub |-> newsub, res |-> newres]
      BY <2>2
    <3>3. edge' = [edge EXCEPT ![b].tm = newtm]
      BY <3>1, <3>2
    <3> HIDE DEF newtm
    <3> QED
      BY <1>0, <1>3, <3>3
  <2> QED
    BY <2>1, <2>2
<1>6. /\ \A d \in CapBlocks : d # c => capability'[d] = capability[d]
      /\ capability'[c] = newcap
      /\ DOMAIN capability' = CapBlocks
  <2>1. CASE hmm
    <3>1. capability' = [capability EXCEPT ![c].hist =
                         IF o \in {"acked", "answered"} THEN @ ELSE interaction_history_push(@, o)]
      BY <1>1, <2>1 DEF Learn_hmm
    <3>2. newcap = [qual |-> cap.qual, hist |-> newhist]
      BY <2>1
    <3> QED
      BY <1>0, <1>3, <3>1, <3>2
  <2>2. CASE ~hmm
    <3>1. capability' = [capability EXCEPT ![c].qual =
                         IF o \in {"correct", "incorrect"} THEN Count(@, o = "correct") ELSE @]
      BY <1>1, <2>2 DEF Learn_basic
    <3>2. newcap = [qual |-> newqual, hist |-> cap.hist]
      BY <2>2
    <3> QED
      BY <1>0, <1>3, <3>1, <3>2
  <2> QED
    BY <2>1, <2>2
<1>7. RecordOf(b)
  BY <1>b DEF CoreInv, RecordsOK
<1> DEFINE n == since.edge[b]
           m == since.cap[c]
           all == Experience(e, n)
           last == Experience(e, m)
<1>8. /\ n \in Nat /\ m \in Nat /\ n <= Len(log[e]) /\ m <= Len(log[e]) /\ log[e] \in Seq(Reports)
      /\ Len(log[e]) \in Nat
  <2>1. n \in Nat /\ m \in Nat /\ log[e] \in Seq(Reports)
    BY <1>0 DEF GhostOK
  <2>2. n <= Len(log[e]) /\ m <= Len(log[e])
    BY <1>0, <1>7 DEF RecordOf
  <2> QED
    BY <2>1, <2>2, LenProperties
<1>9. all \in Seq(Reports) /\ last \in Seq(Reports)
  BY <1>8, RestOf DEF Experience
<1>10. log' \in [Edges -> Seq(Reports)] /\ log'[e] = Append(log[e], o)
       /\ (\A x \in Edges : x # e => log'[x] = log[x]) /\ Len(log'[e]) = Len(log[e]) + 1
  <2>1. Append(log[e], o) \in Seq(Reports) /\ Len(Append(log[e], o)) = Len(log[e]) + 1
    BY <1>8, AppendProperties
  <2> QED
    BY <1>0, <1>1, <2>1 DEF GhostOK
<1>11. Experience(e, n)' = Append(all, o) /\ Experience(e, m)' = Append(last, o)
  <2>1. Experience(e, n)' = SubSeq(log'[e], n + 1, Len(log'[e]))
        /\ Experience(e, m)' = SubSeq(log'[e], m + 1, Len(log'[e]))
    <3>1. e' = e /\ c' = c
      BY <1>5
    <3>2. n' = n /\ m' = m
      BY <1>1, <3>1
    <3> HIDE DEF e, c, n, m
    <3> QED
      BY <3>1, <3>2 DEF Experience
  <2>2. all = SubSeq(log[e], n + 1, Len(log[e])) /\ last = SubSeq(log[e], m + 1, Len(log[e]))
    BY DEF Experience
  <2> HIDE DEF all, last, e, n, m, c
  <2>3. /\ SubSeq(Append(log[e], o), n + 1, Len(Append(log[e], o))) = Append(all, o)
        /\ SubSeq(Append(log[e], o), m + 1, Len(Append(log[e], o))) = Append(last, o)
    BY <1>8, <2>2, RestOfAppend
  <2> QED
    BY <1>10, <2>1, <2>3
<1>12. hmm => newhist \in Histories(Reports) /\ HoldsLast(newhist, Observed(Append(last, o)))
  <2> SUFFICES ASSUME hmm PROVE newhist \in Histories(Reports) /\ HoldsLast(newhist, Observed(Append(last, o)))
    OBVIOUS
  <2> DEFINE seen == Observed(last)
  <2>1. HoldsLast(cap.hist, seen)
    BY <1>0, <1>7 DEF RecordOf
  <2>2. seen \in Seq(Reports)
    BY <1>9, ObservedLoop
  <2>3. Observed(Append(last, o)) = ObserveStep(seen, o)
    BY <1>9, ObservedAppend
  <2> HIDE DEF seen, cap, last
  <2>4. CASE o \in {"acked", "answered"}
    BY <1>4, <2>1, <2>3, <2>4 DEF ObserveStep
  <2>5. CASE o \notin {"acked", "answered"}
    <3>1. newhist = interaction_history_push(cap.hist, o) /\ Observed(Append(last, o)) = Append(seen, o)
      BY <2>3, <2>5 DEF ObserveStep
    <3> HIDE DEF newhist
    <3> QED
      BY <1>4, <2>1, <2>2, <3>1, PushHoldsLast
  <2> QED
    BY <2>4, <2>5
<1>13. newtm \in EdgeTm /\ newcap \in [qual : Beta, hist : Histories(Reports)]
  <2>0. (o = "acked") \in BOOLEAN /\ (o = "answered") \in BOOLEAN /\ (o = "correct") \in BOOLEAN
    OBVIOUS
  <2>1. Count(tm.sub, o = "acked") \in Beta /\ Count(tm.res, o = "answered") \in Beta
        /\ Count(cap.qual, o = "correct") \in Beta
    BY <1>4, <2>0, CountTyped
  <2>2. newsub \in Beta /\ newres \in Beta /\ newqual \in Beta
    BY <1>4, <2>1
  <2> HIDE DEF newsub, newres, newqual, newhist
  <2> QED
    BY <1>4, <1>12, <2>2 DEF EdgeTm
<1> HIDE DEF newtm, newcap, newsub, newres, newqual, newhist, tm, cap, all, last, hmm
<1>14. EdgesOK'
  <2>1. edge' \in [EdgeBlocks -> [addr : Edges \cup {NULL}, active : BOOLEAN,
                                  cap : CapBlocks \cup {NULL}, tm : EdgeTm]]
    <3>1. edge'[b] \in [addr : Edges \cup {NULL}, active : BOOLEAN, cap : CapBlocks \cup {NULL}, tm : EdgeTm]
      BY <1>0, <1>3, <1>5, <1>13
    <3>2. edge' = [d \in EdgeBlocks |-> edge'[d]]
      <4>1. CASE hmm
        BY <1>1, <1>3, <4>1 DEF Learn_hmm
      <4>2. CASE ~hmm
        BY <1>1, <1>3, <4>2 DEF Learn_basic
      <4> QED
        BY <4>1, <4>2
    <3>3. \A d \in EdgeBlocks : edge'[d] \in [addr : Edges \cup {NULL}, active : BOOLEAN,
                                              cap : CapBlocks \cup {NULL}, tm : EdgeTm]
      BY <1>3, <1>5, <3>1
    <3> QED
      BY <3>2, <3>3
  <2>2. capability' \in [CapBlocks -> [qual : Beta, hist : Histories(Reports)]]
    <3>1. capability' = [d \in CapBlocks |-> capability'[d]]
      <4>1. CASE hmm
        BY <1>1, <1>3, <4>1 DEF Learn_hmm
      <4>2. CASE ~hmm
        BY <1>1, <1>3, <4>2 DEF Learn_basic
      <4> QED
        BY <4>1, <4>2
    <3>2. \A d \in CapBlocks : capability'[d] \in [qual : Beta, hist : Histories(Reports)]
      BY <1>3, <1>6, <1>13
    <3> QED
      BY <3>1, <3>2
  <2> QED
    BY <1>0, <1>1, <2>1, <2>2 DEF EdgesOK
<1>15. GhostOK'
  <2>1. used.reports < scenario.reports /\ used' = [used EXCEPT !["reports"] = @ + 1]
    BY <1>1 DEF Allowed
  <2>2. used \in [tasks : Nat, reports : Nat, messages : Nat, moves : Nat] /\ \A x \in Edges : Len(log[x]) <= used.reports
    BY <1>0 DEF GhostOK
  <2>3. used' \in [tasks : Nat, reports : Nat, messages : Nat, moves : Nat] /\ used'.reports = used.reports + 1
    BY <2>1, <2>2
  <2>4. scenario.reports \in Nat
    BY <1>3, TrustAssumption
  <2>5. used'.reports <= scenario'.reports
    BY <1>1, <2>1, <2>2, <2>3, <2>4
  <2>6. ASSUME NEW x \in Edges PROVE Len(log'[x]) <= used'.reports
    <3>1. Len(log[x]) \in Nat /\ Len(log[x]) <= used.reports /\ used.reports \in Nat
      BY <1>0, <2>2, LenProperties DEF GhostOK
    <3>2. Len(log'[x]) = Len(log[x]) \/ Len(log'[x]) = Len(log[x]) + 1
      BY <1>10
    <3> QED
      BY <2>3, <3>1, <3>2
  <2> QED
    BY <1>0, <1>1, <1>10, <2>3, <2>5, <2>6 DEF GhostOK
<1>16. BlocksOK'
  <2>1. \A d \in Listed : edge'[d].addr = edge[d].addr /\ edge'[d].cap = edge[d].cap
                          /\ edge'[d].active = edge[d].active
    BY <1>0, <1>5
  <2> QED
    BY <1>0, <1>2, <2>1 DEF BlocksOK
<1>17. RecordsOK'
  <2> SUFFICES ASSUME NEW d \in Listed PROVE RecordOf(d)'
    BY <1>2 DEF RecordsOK
  <2>1. CASE d # b
    <3>1. RecordOf(d) /\ d \in EdgeBlocks /\ edge[d].addr # e /\ edge[d].addr \in Edges
          /\ (edge[d].cap # NULL => edge[d].cap # c /\ edge[d].cap \in CapBlocks)
      BY <1>0, <1>3, <1>b, <2>1 DEF CoreInv, RecordsOK, BlocksOK
    <3>2. /\ edge'[d] = edge[d] /\ log'[edge[d].addr] = log[edge[d].addr]
          /\ edge[d].cap # NULL => capability'[edge[d].cap] = capability[edge[d].cap]
      BY <1>5, <1>6, <1>10, <2>1, <3>1
    <3> QED
      BY <1>1, <3>1, <3>2, RecordFrame
  <2>2. CASE d = b
    <3>1. n <= Len(log'[e]) /\ m <= Len(log'[e])
      BY <1>8, <1>10
    <3>2. edge'[b].addr = e /\ edge'[b].cap = c /\ edge'[b].tm = newtm /\ since' = since
          /\ scenario' = scenario /\ capability'[c] = newcap
      BY <1>1, <1>5, <1>6
    <3>3. CASE hmm
      <4>1. HoldsLast(newcap.hist, Observed(Append(last, o)))
        BY <1>12, <3>3 DEF newcap
      <4> QED
        BY <1>11, <2>2, <3>1, <3>2, <3>3, <4>1 DEF RecordOf, hmm, Experience
    <3>4. CASE ~hmm
      <4>1. /\ tm.sub = Tally(all, {"acked"}, {"unacked"})
            /\ tm.res = Tally(all, {"answered"}, {"unanswered"})
            /\ cap.qual = Tally(last, {"correct"}, {"incorrect"})
        BY <1>0, <1>7, <3>4 DEF RecordOf, hmm, tm, cap, all, last
      <4>2. /\ newtm.sub = Tally(Append(all, o), {"acked"}, {"unacked"})
            /\ newtm.res = Tally(Append(all, o), {"answered"}, {"unanswered"})
            /\ newcap.qual = Tally(Append(last, o), {"correct"}, {"incorrect"})
        <5>1. /\ {"acked", "unacked", "answered", "unanswered", "correct", "incorrect"} = Reports
              /\ "acked" # "unacked" /\ "answered" # "unanswered" /\ "correct" # "incorrect"
          BY DEF Reports
        <5>2. /\ newtm.sub = newsub /\ newtm.res = newres /\ newcap.qual = newqual
          BY <3>4 DEF newtm, newcap
        <5>3. newsub = Tally(Append(all, o), {"acked"}, {"unacked"})
          <6>1. Tally(Append(all, o), {"acked"}, {"unacked"}) = Graded(tm.sub, o, "acked", "unacked")
            BY <1>9, <4>1, <5>1, Counting
          <6> QED
            BY <6>1 DEF newsub, Graded
        <5>4. newres = Tally(Append(all, o), {"answered"}, {"unanswered"})
          <6>1. Tally(Append(all, o), {"answered"}, {"unanswered"})
                = Graded(tm.res, o, "answered", "unanswered")
            BY <1>9, <4>1, <5>1, Counting
          <6> QED
            BY <6>1 DEF newres, Graded
        <5>5. newqual = Tally(Append(last, o), {"correct"}, {"incorrect"})
          <6>1. Tally(Append(last, o), {"correct"}, {"incorrect"})
                = Graded(cap.qual, o, "correct", "incorrect")
            BY <1>9, <4>1, <5>1, Counting
          <6> QED
            BY <6>1 DEF newqual, Graded
        <5> QED
          BY <5>2, <5>3, <5>4, <5>5
      <4> QED
        BY <1>11, <2>2, <3>1, <3>2, <3>4, <4>2 DEF RecordOf, hmm, Experience
    <3> QED
      BY <3>3, <3>4
  <2> QED
    BY <2>1, <2>2
<1>18. OwnersOK'
  <2>1. \A d \in Listed : edge'[d].addr = edge[d].addr /\ edge'[d].cap = edge[d].cap
    BY <1>0, <1>5
  <2> QED
    BY <1>1, <1>2, <2>1 DEF CoreInv, OwnersOK
<1>19. PeersOK' /\ SaidOK' /\ KeptOK'
  BY <1>1 DEF CoreInv, PeersOK, SaidOK, KeptOK, KeptOf
<1> QED
  BY <1>14, <1>15, <1>16, <1>17, <1>18, <1>19 DEF CoreInv

LEMMA HoldsNone == HoldsLast(interaction_history_init, <<>>)
<1>1. Len(<<>>) = 0 /\ HistorySize \in Nat /\ HistorySize # 0
  BY HistoryAssumption
<1>2. Pos(0, 0) = 0
  BY <1>1 DEF Pos
<1> QED
  BY <1>1, <1>2 DEF HoldsLast, interaction_history_init

LEMMA InitRecords ==
    /\ edge_resource_tm_init \in EdgeTm
    /\ edge_capability_tm_init \in [qual : Beta, hist : Histories(Reports)]
<1>1. <<1, 1>> \in Beta
  BY DEF Beta
<1>2. interaction_history_init \in Histories(Reports)
  <2>1. 0 \in Slots /\ 0 \in 0..HistorySize
    BY HistoryAssumption DEF Slots
  <2> QED
    BY <2>1 DEF interaction_history_init, Histories
<1> QED
  BY <1>1, <1>2 DEF edge_resource_tm_init, edge_capability_tm_init, EdgeTm

LEMMA AvailableKeeps ==
    ASSUME CoreInv, NEW e \in Edges, Available(e) PROVE CoreInv'
<1> DEFINE old == edge_info_find_addr(e)
           b == IF old = NULL THEN EdgeRoom ELSE old
           has == old # NULL /\ edge[b].cap # NULL
           c == IF has THEN edge[b].cap ELSE Min(FreeCaps)
           tm == IF old = NULL THEN edge_resource_tm_init ELSE edge[b].tm
           n == Len(log[e])
           Rec == [addr : Edges \cup {NULL}, active : BOOLEAN, cap : CapBlocks \cup {NULL}, tm : EdgeTm]
<1>0. EdgesOK /\ GhostOK /\ BlocksOK /\ RecordsOK /\ OwnersOK /\ PeersOK /\ SaidOK /\ KeptOK
  BY DEF CoreInv
<1>1. /\ Allowed("moves") /\ b # NULL
      /\ edge_resources' = (IF old = NULL THEN <<b>> \o RemoveFirst(edge_resources, b) ELSE edge_resources)
      /\ edge' = [edge EXCEPT ![b] = [addr |-> e, active |-> TRUE, cap |-> c,
                      tm |-> IF old = NULL THEN edge_resource_tm_init ELSE @.tm]]
      /\ capability' = (IF has THEN capability ELSE [capability EXCEPT ![c] = edge_capability_tm_init])
      /\ since' = [edge |-> IF old = NULL THEN [since.edge EXCEPT ![b] = n] ELSE since.edge,
                   cap  |-> IF has THEN since.cap ELSE [since.cap EXCEPT ![c] = n]]
      /\ owners' = [owners EXCEPT ![b] = @ \cup {e}]
      /\ homes' = [homes EXCEPT ![e] = @ \cup {c}]
      /\ UNCHANGED <<scenario, peer, said, given, log>>
  BY DEF Available, peerVars, taskVars
<1>2. /\ b \in EdgeBlocks /\ Listed \subseteq EdgeBlocks
      /\ old # NULL => b \in Listed /\ edge[b].addr = e
      /\ old = NULL => /\ \A d \in Listed : edge[d].addr # e
                       /\ EdgeBlocks \ Listed # {} => b \notin Listed
                       /\ b \in Listed => edge[b].cap = NULL
  <2>1. CASE old = NULL
    <3>1. b = EdgeRoom
      BY <2>1
    <3> QED
      BY <1>0, <1>1, <2>1, <3>1, FindAddr, RoomForEdge, ListedBlocks
  <2>2. CASE old # NULL
    <3>1. b = old
      BY <2>2
    <3> QED
      BY <1>0, <2>2, <3>1, FindAddr, ListedBlocks
  <2> QED
    BY <2>1, <2>2
<1>3. /\ edge \in [EdgeBlocks -> Rec]
      /\ capability \in [CapBlocks -> [qual : Beta, hist : Histories(Reports)]]
      /\ scenario \in Scenarios /\ edge_resources \in Seq(EdgeBlocks) /\ IsInjective(edge_resources)
  BY <1>0 DEF EdgesOK
<1> HIDE DEF old, b, Rec
<1>4. /\ c \in CapBlocks /\ c # NULL
      /\ has => c = edge[b].cap
      /\ \A d \in Listed : d # b /\ edge[d].cap # NULL => edge[d].cap # c
  <2>1. CASE has
    <3>1. edge[b].cap \in CapBlocks
      BY <1>2, <1>3, <2>1 DEF Rec
    <3> QED
      BY <1>0, <1>2, <2>1, <3>1, BlockNumbers DEF BlocksOK
  <2>2. CASE ~has
    <3>1. b \in Listed => edge[b].cap = NULL
      BY <1>2, <2>2
    <3>2. Min(FreeCaps) \in FreeCaps /\ FreeCaps \subseteq CapBlocks
      BY <1>0, <1>2, <3>1, FreeCapExists
    <3>3. c \in FreeCaps
      BY <2>2, <3>2
    <3> QED
      BY <2>2, <3>2, <3>3, BlockNumbers DEF FreeCaps, Listed
  <2> QED
    BY <2>1, <2>2
<1>5. Listed' = Listed \cup {b} /\ edge_resources' \in Seq(EdgeBlocks) /\ IsInjective(edge_resources')
  <2>1. CASE old = NULL
    <3> DEFINE r == RemoveFirst(edge_resources, b)
    <3>1. r \in Seq(EdgeBlocks) /\ IsInjective(r) /\ ToSet(r) = Listed \ {b}
      BY <1>3, RemoveFirstInjective DEF Listed
    <3>2. edge_resources' = <<b>> \o r
      BY <1>1, <2>1
    <3> HIDE DEF r
    <3>3. b \notin ToSet(r)
      BY <3>1
    <3>4. <<b>> \o r \in Seq(EdgeBlocks) /\ ToSet(<<b>> \o r) = ToSet(r) \cup {b} /\ IsInjective(<<b>> \o r)
      BY <1>2, <3>1, <3>3, ConsProperties
    <3>5. Listed' = ToSet(<<b>> \o r)
      BY <3>2 DEF Listed
    <3> QED
      BY <3>1, <3>2, <3>4, <3>5
  <2>2. CASE old # NULL
    <3>1. edge_resources' = edge_resources
      BY <1>1, <2>2
    <3> QED
      BY <1>2, <1>3, <2>2, <3>1 DEF Listed
  <2> QED
    BY <2>1, <2>2
<1>6. tm \in EdgeTm
  BY <1>2, <1>3, InitRecords DEF Rec
<1>7. /\ edge' \in [EdgeBlocks -> Rec]
      /\ edge'[b] = [addr |-> e, active |-> TRUE, cap |-> c, tm |-> tm]
      /\ \A d \in EdgeBlocks : d # b => edge'[d] = edge[d]
  <2>1. edge' = [edge EXCEPT ![b] = [addr |-> e, active |-> TRUE, cap |-> c, tm |-> tm]]
    BY <1>1, <1>2, <1>3
  <2>2. [addr |-> e, active |-> TRUE, cap |-> c, tm |-> tm] \in Rec
    BY <1>4, <1>6 DEF Rec
  <2> HIDE DEF tm, c
  <2> QED
    BY <1>2, <1>3, <2>1, <2>2
<1>8. /\ capability' \in [CapBlocks -> [qual : Beta, hist : Histories(Reports)]]
      /\ ~has => capability'[c] = edge_capability_tm_init
      /\ has => capability' = capability
      /\ \A x \in CapBlocks : x # c => capability'[x] = capability[x]
  <2>1. CASE has
    BY <1>1, <1>3, <2>1
  <2>2. CASE ~has
    <3>1. capability' = [capability EXCEPT ![c] = edge_capability_tm_init]
      BY <1>1, <2>2
    <3> HIDE DEF c, has
    <3> QED
      BY <1>3, <1>4, <2>2, <3>1, InitRecords
  <2> QED
    BY <2>1, <2>2
<1>9. log[e] \in Seq(Reports) /\ n \in Nat
  BY <1>0, LenProperties DEF GhostOK
<1>10. /\ since' \in [edge : [EdgeBlocks -> Nat], cap : [CapBlocks -> Nat]]
       /\ old = NULL => since'.edge[b] = n
       /\ old # NULL => since'.edge = since.edge
       /\ ~has => since'.cap[c] = n
       /\ has => since'.cap = since.cap
       /\ \A d \in EdgeBlocks : d # b => since'.edge[d] = since.edge[d]
       /\ \A x \in CapBlocks : x # c => since'.cap[x] = since.cap[x]
  <2> DEFINE se == IF old = NULL THEN [since.edge EXCEPT ![b] = n] ELSE since.edge
             sc == IF has THEN since.cap ELSE [since.cap EXCEPT ![c] = n]
  <2>0. since.edge \in [EdgeBlocks -> Nat] /\ since.cap \in [CapBlocks -> Nat]
    BY <1>0 DEF GhostOK
  <2>1. since' = [edge |-> se, cap |-> sc]
    BY <1>1
  <2> HIDE DEF n, has, c
  <2>2. /\ se \in [EdgeBlocks -> Nat] /\ (old = NULL => se[b] = n) /\ (old # NULL => se = since.edge)
        /\ \A d \in EdgeBlocks : d # b => se[d] = since.edge[d]
    BY <1>2, <1>9, <2>0
  <2>3. /\ sc \in [CapBlocks -> Nat] /\ (~has => sc[c] = n) /\ (has => sc = since.cap)
        /\ \A x \in CapBlocks : x # c => sc[x] = since.cap[x]
    BY <1>4, <1>9, <2>0
  <2> HIDE DEF se, sc
  <2> QED
    BY <2>1, <2>2, <2>3
<1>11. /\ owners \in [EdgeBlocks -> SUBSET Edges] /\ owners' \in [EdgeBlocks -> SUBSET Edges]
       /\ owners'[b] = owners[b] \cup {e}
       /\ \A d \in EdgeBlocks : d # b => owners'[d] = owners[d]
  BY <1>0, <1>1, <1>2 DEF GhostOK
<1>12. /\ homes \in [Edges -> SUBSET CapBlocks] /\ homes' \in [Edges -> SUBSET CapBlocks]
       /\ homes'[e] = homes[e] \cup {c}
       /\ \A x \in Edges : x # e => homes'[x] = homes[x]
  <2> HIDE DEF c
  <2> QED
    BY <1>0, <1>1, <1>4 DEF GhostOK
<1> HIDE DEF c, tm
<1>13. EdgesOK'
  BY <1>0, <1>1, <1>3, <1>5, <1>7, <1>8 DEF EdgesOK, Rec
<1>14. GhostOK'
  <2>1. used' \in [tasks : Nat, reports : Nat, messages : Nat, moves : Nat] /\ used'.reports = used.reports
    BY <1>0, <1>1, AllowedCounts
  <2> QED
    BY <1>0, <1>1, <1>10, <1>11, <1>12, <2>1 DEF GhostOK
<1>15. BlocksOK'
  <2>1. \A d \in Listed' : d \in EdgeBlocks /\ (d # b => d \in Listed /\ edge'[d] = edge[d])
    BY <1>2, <1>5, <1>7
  <2>2. \A d \in Listed : d # b => edge[d].addr # e
    BY <1>0, <1>2 DEF BlocksOK
  <2>3. edge'[b].addr = e /\ edge'[b].cap = c /\ edge'[b].active = TRUE
    BY <1>7
  <2>4. \A d \in Listed' : edge'[d].addr \in Edges /\ (edge'[d].cap # NULL => edge'[d].active)
    BY <1>0, <2>1, <2>3 DEF BlocksOK
  <2>5. \A d, x \in Listed' : edge'[d].addr = edge'[x].addr => d = x
    BY <1>0, <2>1, <2>2, <2>3 DEF BlocksOK
  <2>6. \A d, x \in Listed' : edge'[d].cap # NULL /\ edge'[d].cap = edge'[x].cap => d = x
    BY <1>0, <1>4, <2>1, <2>3 DEF BlocksOK
  <2> QED
    BY <2>4, <2>5, <2>6 DEF BlocksOK
<1>16. RecordsOK'
  <2> SUFFICES ASSUME NEW d \in Listed' PROVE RecordOf(d)'
    BY DEF RecordsOK
  <2>1. CASE d # b
    <3>1. /\ d \in Listed /\ d \in EdgeBlocks /\ RecordOf(d) /\ edge'[d] = edge[d]
          /\ edge[d].cap # NULL => edge[d].cap # c /\ edge[d].cap \in CapBlocks
      BY <1>0, <1>2, <1>3, <1>4, <1>5, <1>7, <2>1 DEF RecordsOK, Rec
    <3>2. since'.edge[d] = since.edge[d]
      BY <1>10, <2>1, <3>1
    <3>3. edge[d].cap # NULL => /\ since'.cap[edge[d].cap] = since.cap[edge[d].cap]
                                /\ capability'[edge[d].cap] = capability[edge[d].cap]
      BY <1>8, <1>10, <3>1
    <3> QED
      BY <1>1, <3>1, <3>2, <3>3, RecordFrame
  <2>2. CASE d = b
    <3> DEFINE k == since'.edge[b]
               m == since'.cap[c]
    <3>1. edge'[b].addr = e /\ edge'[b].cap = c /\ edge'[b].tm = tm /\ log' = log /\ scenario' = scenario
      BY <1>1, <1>7
    <3>2. Experience(e, n) = <<>>
      BY <1>9, RestOfAll DEF Experience
    <3>3. /\ k <= n
          /\ scenario.model # "hmm" =>
                /\ tm.sub = Tally(Experience(e, k), {"acked"}, {"unacked"})
                /\ tm.res = Tally(Experience(e, k), {"answered"}, {"unanswered"})
      <4>1. CASE old = NULL
        <5>1. k = n /\ tm = edge_resource_tm_init
          BY <1>10, <4>1 DEF tm
        <5>2. tm.sub = <<1, 1>> /\ tm.res = <<1, 1>>
          BY <5>1 DEF edge_resource_tm_init
        <5> QED
          BY <1>9, <3>2, <5>1, <5>2, TallyEmpty
      <4>2. CASE old # NULL
        <5>1. RecordOf(b) /\ edge[b].addr = e /\ tm = edge[b].tm /\ k = since.edge[b]
          BY <1>0, <1>2, <1>10, <4>2 DEF RecordsOK, tm
        <5> QED
          BY <5>1 DEF RecordOf
      <4> QED
        BY <4>1, <4>2
    <3>4. /\ m <= n
          /\ scenario.model = "hmm" => HoldsLast(capability'[c].hist, Observed(Experience(e, m)))
          /\ scenario.model # "hmm" => capability'[c].qual = Tally(Experience(e, m), {"correct"}, {"incorrect"})
      <4>1. CASE has
        <5>1. RecordOf(b) /\ edge[b].addr = e /\ edge[b].cap = c /\ capability'[c] = capability[c]
              /\ m = since.cap[c] /\ edge[b].cap # NULL
          BY <1>0, <1>2, <1>4, <1>8, <1>10, <4>1 DEF RecordsOK
        <5> QED
          BY <5>1 DEF RecordOf
      <4>2. CASE ~has
        <5>1. m = n /\ capability'[c] = edge_capability_tm_init
          BY <1>8, <1>10, <4>2
        <5>2. capability'[c].qual = <<1, 1>> /\ capability'[c].hist = interaction_history_init
          BY <5>1 DEF edge_capability_tm_init
        <5> QED
          BY <1>9, <3>2, <5>1, <5>2, TallyEmpty, HoldsNone, ObservedNone
      <4> QED
        BY <4>1, <4>2
    <3> HIDE DEF has
    <3> QED
      BY <2>2, <3>1, <3>3, <3>4 DEF RecordOf, Experience
  <2> QED
    BY <2>1, <2>2
<1>17. OwnersOK'
  <2>0. /\ \A d \in EdgeBlocks \ Listed : owners[d] = {}
        /\ \A d \in Listed : edge[d].addr \in owners[d]
        /\ \A d \in Listed : edge[d].cap # NULL => edge[d].cap \in homes[edge[d].addr]
        /\ EdgeBlocks \ Listed # {} => \A d \in Listed : owners[d] = {edge[d].addr}
        /\ \A d, f \in EdgeBlocks, x \in Edges : owners[d] = {x} /\ x \in owners[f] => f = d
    BY <1>0 DEF OwnersOK
  <2>1. \A d \in EdgeBlocks \ Listed' : owners'[d] = {}
    BY <1>5, <1>11, <2>0
  <2>2. ASSUME NEW d \in Listed'
        PROVE  edge'[d].addr \in owners'[d] /\ (edge'[d].cap # NULL => edge'[d].cap \in homes'[edge'[d].addr])
    <3>1. CASE d = b
      <4>1. edge'[b].addr = e /\ edge'[b].cap = c
        BY <1>7
      <4> QED
        BY <1>11, <1>12, <3>1, <4>1
    <3>2. CASE d # b
      <4>1. d \in Listed /\ d \in EdgeBlocks /\ edge'[d] = edge[d] /\ owners'[d] = owners[d]
            /\ edge[d].addr \in Edges
        BY <1>0, <1>2, <1>5, <1>7, <1>11, <3>2 DEF BlocksOK
      <4>2. homes[edge[d].addr] \subseteq homes'[edge[d].addr]
        BY <1>12, <4>1
      <4> QED
        BY <2>0, <4>1, <4>2
    <3> QED
      BY <3>1, <3>2
  <2>3. ASSUME EdgeBlocks \ Listed' # {}, NEW d \in Listed' PROVE owners'[d] = {edge'[d].addr}
    <3>1. EdgeBlocks \ Listed # {}
      BY <1>5, <2>3
    <3>2. CASE d = b
      <4>1. edge'[b].addr = e
        BY <1>7
      <4>2. CASE old = NULL
        <5>1. owners[b] = {}
          BY <1>2, <2>0, <3>1, <4>2
        <5> QED
          BY <1>11, <3>2, <4>1, <5>1
      <4>3. CASE old # NULL
        <5>1. owners[b] = {e}
          BY <1>2, <2>0, <3>1, <4>3
        <5> QED
          BY <1>11, <3>2, <4>1, <5>1
      <4> QED
        BY <4>2, <4>3
    <3>3. CASE d # b
      BY <1>2, <1>5, <1>7, <1>11, <2>0, <3>1, <3>3
    <3> QED
      BY <3>2, <3>3
  <2>4. ASSUME NEW d \in EdgeBlocks, NEW f \in EdgeBlocks, NEW x \in Edges, owners'[d] = {x}, x \in owners'[f]
        PROVE  f = d
    <3>1. CASE old # NULL
      <4>1. e \in owners[b]
        BY <1>2, <2>0, <3>1
      <4>2. owners'[d] = owners[d] /\ owners'[f] = owners[f]
        BY <1>11, <4>1
      <4> QED
        BY <2>0, <2>4, <4>2
    <3>2. CASE old = NULL
      <4>1. ASSUME NEW y \in EdgeBlocks, y \in Listed \/ owners[y] # {} PROVE e \in owners[y] => owners[y] # {e}
        BY <1>2, <2>0, <3>2, <4>1
      <4>2. CASE d = b
        <5>1. x = e /\ owners[b] \subseteq {e}
          BY <1>11, <2>4, <4>2
        <5>2. owners[b] = {}
          BY <1>2, <2>0, <3>2, <5>1
        <5>3. b \notin Listed
          BY <2>0, <5>2
        <5>4. \A y \in EdgeBlocks : e \notin owners[y]
          BY <1>2, <2>0, <3>2, <5>3
        <5> QED
          BY <1>11, <2>4, <4>2, <5>1, <5>4
      <4>3. CASE d # b
        <5>1. owners[d] = {x} /\ d \in Listed
          BY <1>11, <2>0, <2>4, <4>3
        <5>2. x # e
          BY <1>2, <2>0, <3>2, <5>1
        <5>3. x \in owners[f]
          BY <1>11, <2>4, <5>2
        <5> QED
          BY <2>0, <5>1, <5>3
      <4> QED
        BY <4>2, <4>3
    <3> QED
      BY <3>1, <3>2
  <2> QED
    BY <2>1, <2>2, <2>3, <2>4 DEF OwnersOK
<1>18. PeersOK'
  <2>1. \A d \in EdgeBlocks : owners[d] # {} => owners'[d] # {}
    BY <1>11
  <2> QED
    BY <1>0, <1>1, <2>1 DEF PeersOK
<1>19. SaidOK'
  <2>1. \A d \in EdgeBlocks : owners[d] \subseteq owners'[d]
    BY <1>11
  <2>2. \A x \in Edges : homes[x] \subseteq homes'[x]
    BY <1>12
  <2>3. /\ said \in [Peers -> [Edges -> [tm : EdgeTm \cup {NULL}, qual : Beta \cup {NULL}]]]
        /\ \A p \in Peers, x \in Edges :
              /\ said[p][x].tm = NULL => said[p][x].qual = NULL
              /\ said[p][x].tm # NULL => p \in DOMAIN peer /\ \E d \in EdgeBlocks : x \in owners[d]
              /\ homes[x] = {} => said[p][x].qual = NULL
    BY <1>0 DEF SaidOK
  <2>4. ASSUME NEW p \in Peers, NEW x \in Edges
        PROVE  /\ said[p][x].tm # NULL => \E d \in EdgeBlocks : x \in owners'[d]
               /\ homes'[x] = {} => said[p][x].qual = NULL
    BY <2>1, <2>2, <2>3
  <2> QED
    BY <1>1, <2>3, <2>4 DEF SaidOK
<1>20. KeptOK'
  <2> SUFFICES ASSUME NEW p \in DOMAIN peer, NEW d \in EdgeBlocks, NEW x \in Edges, owners'[d] = {x}
               PROVE  KeptOf(p, d, x)'
    BY <1>1 DEF KeptOK
  <2>0. p \in Peers
    BY <1>0 DEF PeersOK
  <2>1. CASE d # b
    <3>1. owners[d] = {x}
      BY <1>11, <2>1
    <3>2. x # e
      <4> SUFFICES ASSUME x = e PROVE FALSE
        OBVIOUS
      <4>1. d \in Listed /\ edge[d].addr = e
        BY <1>0, <3>1 DEF OwnersOK
      <4> QED
        BY <1>0, <1>2, <2>1, <4>1 DEF BlocksOK
    <3>3. homes'[x] = homes[x] /\ KeptOf(p, d, x)
      BY <1>0, <1>12, <3>1, <3>2 DEF KeptOK
    <3> QED
      BY <1>1, <3>3 DEF KeptOf
  <2>2. CASE d = b
    <3>0. x = e
      BY <1>11, <2>2
    <3>1. CASE old # NULL
      <4>1. owners[b] = {e}
        BY <1>0, <1>2, <1>11, <2>2, <3>0, <3>1 DEF OwnersOK
      <4>2. KeptOf(p, b, e)
        BY <1>0, <1>2, <4>1 DEF KeptOK
      <4>3. homes'[e] = homes[e] \cup {c} /\ (homes[e] = {} => said[p][e].qual = NULL)
        BY <1>0, <1>12, <2>0 DEF SaidOK
      <4>4. ASSUME b \in DOMAIN peer[p], NEW y \in CapBlocks, homes'[e] = {y}
            PROVE  IF y \in DOMAIN peer[p][b].caps THEN peer[p][b].caps[y] = said[p][e].qual
                                                   ELSE said[p][e].qual = NULL
        <5>1. y = c /\ (homes[e] = {} \/ homes[e] = {y})
          BY <4>3, <4>4
        <5>2. CASE homes[e] = {y}
          BY <4>2, <4>4, <5>2 DEF KeptOf
        <5>3. CASE homes[e] = {}
          <6>1. y \notin DOMAIN peer[p][b].caps
            BY <4>2, <4>4, <5>3 DEF KeptOf
          <6> QED
            BY <4>3, <5>3, <6>1
        <5> QED
          BY <5>1, <5>2, <5>3
      <4>5. /\ b \in DOMAIN peer[p] <=> said[p][e].tm # NULL
            /\ b \in DOMAIN peer[p] => /\ peer[p][b].tm = said[p][e].tm
                                       /\ DOMAIN peer[p][b].caps \subseteq homes'[e]
        BY <4>2, <4>3 DEF KeptOf
      <4> QED
        BY <1>1, <2>2, <3>0, <4>4, <4>5 DEF KeptOf
    <3>2. CASE old = NULL
      <4>1. owners[b] = {} /\ b \notin Listed
        BY <1>0, <1>2, <1>11, <2>2, <3>0, <3>2 DEF OwnersOK
      <4>2. \A y \in EdgeBlocks : e \notin owners[y]
        BY <1>0, <1>2, <3>2, <4>1 DEF OwnersOK
      <4>3. said[p][e].tm = NULL
        BY <1>0, <2>0, <4>2 DEF SaidOK
      <4>4. b \notin DOMAIN peer[p]
        BY <1>0, <4>1 DEF PeersOK
      <4> QED
        BY <1>1, <2>2, <3>0, <4>3, <4>4 DEF KeptOf
    <3> QED
      BY <3>1, <3>2
  <2> QED
    BY <2>1, <2>2
<1> QED
  BY <1>13, <1>14, <1>15, <1>16, <1>17, <1>18, <1>19, <1>20 DEF CoreInv

-----------------------------------------------------------------------------
(* What peers say.  Room for an Edge that is known never runs out, and what  *)
(* is read of one Edge leaves what is kept of the others alone.              *)

LEMMA RoomForPeerEdge ==
    ASSUME NEW s, NEW p \in DOMAIN s, IsFiniteSet(DOMAIN s), Cardinality(DOMAIN s) <= NumPeers,
           DOMAIN s[p] \subseteq EdgeBlocks, NEW b \in EdgeBlocks, b \notin DOMAIN s[p]
    PROVE  /\ ~(Cardinality(DOMAIN s[p]) >= NumEdgeResources)
           /\ Cardinality(Allocated(s)) # NumPeers * NumEdgeResources
<1> DEFINE D == DOMAIN s[p]
           A == Allocated(s)
           P == (DOMAIN s) \X EdgeBlocks
           n == Cardinality(DOMAIN s)
<1>0. NumEdgeResources \in Nat \ {0} /\ NumPeers \in Nat
  BY TrustAssumption
<1>1. IsFiniteSet(EdgeBlocks) /\ Cardinality(EdgeBlocks) = NumEdgeResources
  <2>1. 1 \in Int /\ NumEdgeResources \in Int /\ ~(1 > NumEdgeResources)
    BY <1>0
  <2>2. IsFiniteSet(1..NumEdgeResources) /\ Cardinality(1..NumEdgeResources) = NumEdgeResources - 1 + 1
    BY <2>1, FS_Interval
  <2> QED
    BY <1>0, <2>2 DEF EdgeBlocks
<1>2. /\ D \in SUBSET EdgeBlocks /\ D # EdgeBlocks
      /\ A \in SUBSET P /\ A # P
  <2>1. <<p, b>> \in P /\ <<p, b>> \notin A
    BY DEF Allocated
  <2>2. A \in SUBSET P
    BY DEF Allocated
  <2> QED
    BY <2>1, <2>2
<1>3. IsFiniteSet(P) /\ Cardinality(P) = n * NumEdgeResources
  BY <1>1, FS_Product
<1>4. n \in Nat /\ n <= NumPeers
  BY FS_CardinalityType
<1> HIDE DEF D, A, P, n
<1>5. IsFiniteSet(D) /\ Cardinality(D) <= NumEdgeResources /\ Cardinality(D) # NumEdgeResources
  BY <1>1, <1>2, FS_Subset
<1>6. IsFiniteSet(A) /\ Cardinality(A) <= Cardinality(P) /\ Cardinality(A) # Cardinality(P)
  BY <1>2, <1>3, FS_Subset
<1>7. Cardinality(D) \in Nat /\ Cardinality(A) \in Nat /\ Cardinality(P) \in Nat
  BY <1>3, <1>5, <1>6, FS_CardinalityType
<1>8. n * NumEdgeResources <= NumPeers * NumEdgeResources /\ NumPeers * NumEdgeResources \in Nat
  BY <1>0, <1>4, ProductMonotone, ProductNat
<1> DEFINE all == NumPeers * NumEdgeResources
<1>9. Cardinality(P) <= all /\ all \in Nat
  BY <1>3, <1>8
<1> HIDE DEF all
<1>10. Cardinality(A) # all
  BY <1>6, <1>7, <1>9
<1> QED
  BY <1>0, <1>5, <1>7, <1>10 DEF D, A, all

(* What is kept of an Edge's capabilities before and after x is read *)
CapsBefore(k, b) == IF b \in DOMAIN k THEN k[b].caps ELSE <<>>

CapsAfter(k, b, x) ==
    LET C == CapsBefore(k, b)
        c == edge[b].cap
    IN IF x.qual = NULL \/ c = NULL \/ ~(c \in DOMAIN C \/ CapabilityRoom(C)) THEN C
       ELSE Put(C, c, x.qual)

LEMMA ReadTable ==
    ASSUME NEW s, NEW p \in DOMAIN s, IsFiniteSet(DOMAIN s), Cardinality(DOMAIN s) <= NumPeers,
           DOMAIN s[p] \subseteq EdgeBlocks, NEW b \in EdgeBlocks, NEW x,
           b \in DOMAIN s[p] => s[p][b] = [tm |-> s[p][b].tm, caps |-> s[p][b].caps]
    PROVE  LET r == deserialise_trust_edge_and_capabilities(s, p, b, x)
           IN /\ DOMAIN r = DOMAIN s
              /\ \A q \in DOMAIN s : q # p => r[q] = s[q]
              /\ DOMAIN r[p] = DOMAIN s[p] \cup {b}
              /\ \A d \in DOMAIN s[p] : d # b => r[p][d] = s[p][d]
              /\ r[p][b] = [tm |-> x.tm, caps |-> CapsAfter(s[p], b, x)]
<1> DEFINE a == peer_info_find_edge_or_allocate(s, p, b)
           C == CapsBefore(s[p], b)
           u == peer_info_update_edge(s, p, b, x.tm)
           r == deserialise_trust_edge_and_capabilities(s, p, b, x)
           c == edge[b].cap
           Like(t, f) == /\ DOMAIN t = DOMAIN s
                         /\ \A q \in DOMAIN s : q # p => t[q] = s[q]
                         /\ DOMAIN t[p] = DOMAIN s[p] \cup {b}
                         /\ \A d \in DOMAIN s[p] : d # b => t[p][d] = s[p][d]
                         /\ t[p][b] = f
<1>1. \E f : Like(a, f) /\ f = [tm |-> f.tm, caps |-> C]
  <2>1. CASE b \in DOMAIN s[p]
    <3>1. a = s /\ C = s[p][b].caps
      BY <2>1 DEF peer_info_find_edge_or_allocate, CapsBefore
    <3>2. Like(a, s[p][b])
      BY <2>1, <3>1
    <3> QED
      BY <2>1, <3>1, <3>2
  <2>2. CASE b \notin DOMAIN s[p]
    <3> DEFINE f == [tm |-> NULL, caps |-> <<>>]
               k == Put(s[p], b, f)
    <3>1. a = [s EXCEPT ![p] = k] /\ C = <<>>
      BY <2>2, RoomForPeerEdge DEF peer_info_find_edge_or_allocate, CapsBefore
    <3>2. DOMAIN k = DOMAIN s[p] \cup {b} /\ k[b] = f /\ \A d \in DOMAIN s[p] : d # b => k[d] = s[p][d]
      BY DEF Put
    <3> HIDE DEF k
    <3>3. Like(a, f)
      BY <3>1, <3>2
    <3>4. f = [tm |-> f.tm, caps |-> C]
      BY <3>1
    <3> QED
      BY <3>3, <3>4
  <2> QED
    BY <2>1, <2>2
<1>2. PICK f : Like(a, f) /\ f = [tm |-> f.tm, caps |-> C]
  BY <1>1
<1>3. Like(u, [tm |-> x.tm, caps |-> C])
  <2>1. u = [a EXCEPT ![p][b].tm = x.tm]
    BY <1>2 DEF peer_info_update_edge
  <2> HIDE DEF a, u, C
  <2>2. u = [a EXCEPT ![p] = [a[p] EXCEPT ![b] = [f EXCEPT !.tm = x.tm]]]
    BY <1>2, <2>1
  <2>3. [f EXCEPT !.tm = x.tm] = [tm |-> x.tm, caps |-> C]
    BY <1>2
  <2> QED
    BY <1>2, <2>2, <2>3
<1>4. CASE x.qual = NULL \/ c = NULL
  <2>1. r = u /\ CapsAfter(s[p], b, x) = C
    BY <1>4 DEF deserialise_trust_edge_and_capabilities, CapsAfter
  <2> QED
    BY <1>3, <2>1
<1>5. CASE ~(x.qual = NULL \/ c = NULL)
  <2>1. r = peer_info_update_capability(u, p, b, c, x.qual)
    BY <1>5 DEF deserialise_trust_edge_and_capabilities
  <2> HIDE DEF u, r, C
  <2>2. peer_info_find_edge_or_allocate(u, p, b) = u /\ b \in DOMAIN u[p] /\ u[p][b].caps = C
    BY <1>3 DEF peer_info_find_edge_or_allocate
  <2>3. CASE c \in DOMAIN C \/ CapabilityRoom(C)
    <3>1. r = [u EXCEPT ![p][b].caps = Put(@, c, x.qual)]
      BY <2>1, <2>2, <2>3 DEF peer_info_update_capability
    <3>2. CapsAfter(s[p], b, x) = Put(C, c, x.qual)
      BY <1>5, <2>3 DEF CapsAfter, C
    <3>3. r = [u EXCEPT ![p] = [u[p] EXCEPT ![b] = [u[p][b] EXCEPT !.caps = Put(C, c, x.qual)]]]
      BY <1>3, <2>2, <3>1
    <3>4. [u[p][b] EXCEPT !.caps = Put(C, c, x.qual)] = [tm |-> x.tm, caps |-> Put(C, c, x.qual)]
      BY <1>3
    <3>5. Like(r, [tm |-> x.tm, caps |-> Put(C, c, x.qual)])
      BY <1>3, <3>3, <3>4
    <3> QED
      BY <3>2, <3>5 DEF r
  <2>4. CASE ~(c \in DOMAIN C \/ CapabilityRoom(C))
    <3>1. r = u
      BY <2>1, <2>2, <2>4 DEF peer_info_update_capability
    <3>2. CapsAfter(s[p], b, x) = C
      BY <1>5, <2>4 DEF CapsAfter, C
    <3> QED
      BY <1>3, <3>1, <3>2 DEF r
  <2> QED
    BY <2>3, <2>4
<1> QED
  BY <1>4, <1>5

(* What is kept in k of the Edge e in block b is y, which was said of it. *)
StoredAs(k, b, e, y) ==
    /\ b \in DOMAIN k <=> y.tm # NULL
    /\ b \in DOMAIN k =>
          /\ k[b].tm = y.tm
          /\ DOMAIN k[b].caps \subseteq homes[e]
          /\ \A c \in CapBlocks : homes[e] = {c} =>
                IF c \in DOMAIN k[b].caps THEN k[b].caps[c] = y.qual ELSE y.qual = NULL

(* What is kept in k is of Edges, and is z *)
TableOK(k, z) ==
    /\ DOMAIN k \subseteq EdgeBlocks
    /\ \A b \in DOMAIN k : owners[b] # {} /\ Kept(k[b])
    /\ \A b \in EdgeBlocks, e \in Edges : owners[b] = {e} => StoredAs(k, b, e, z[e])

(* What has been said of the Edge in block b, y so far, once x is read *)
Updated(y, b, x) ==
    [tm |-> x.tm, qual |-> IF x.qual # NULL /\ edge[b].cap # NULL THEN x.qual ELSE y.qual]

LEMMA CapsKept ==
    ASSUME CoreInv, NEW k, DOMAIN k \subseteq EdgeBlocks, \A d \in DOMAIN k : Kept(k[d]),
           NEW b \in Listed, NEW x \in Opinion
    PROVE  LET C == CapsAfter(k, b, x)
           IN DOMAIN C \subseteq CapBlocks /\ \A c \in DOMAIN C : C[c] \in Told
<1> DEFINE B == CapsBefore(k, b)
           C == CapsAfter(k, b, x)
<1>1. DOMAIN B \subseteq CapBlocks /\ \A c \in DOMAIN B : B[c] \in Told
  BY DEF CapsBefore, Kept
<1>2. edge[b].cap \in CapBlocks \cup {NULL} /\ x.qual \in Told \cup {NULL}
  BY ListedBlocks DEF CoreInv, EdgesOK, Opinion
<1>3. C = B \/ (x.qual # NULL /\ edge[b].cap # NULL /\ C = Put(B, edge[b].cap, x.qual))
  BY DEF CapsAfter
<1> HIDE DEF B, C
<1> QED
  BY <1>1, <1>2, <1>3 DEF Put, C

LEMMA TableKept ==
    ASSUME CoreInv, NEW k, NEW z, TableOK(k, z), \A e \in Edges : z[e].tm = NULL => z[e].qual = NULL,
           NEW b \in Listed, NEW x \in Opinion, x.edge = edge[b].addr,
           NEW l, DOMAIN l = DOMAIN k \cup {b}, \A d \in DOMAIN k : d # b => l[d] = k[d],
           l[b] = [tm |-> x.tm, caps |-> CapsAfter(k, b, x)],
           NEW w, w[x.edge] = Updated(z[x.edge], b, x), \A e \in Edges : e # x.edge => w[e] = z[e]
    PROVE  TableOK(l, w)
<1> DEFINE B == CapsBefore(k, b)
           C == CapsAfter(k, b, x)
           o == x.edge
           h == edge[b].cap
<1>0. EdgesOK /\ GhostOK /\ BlocksOK /\ OwnersOK
  BY DEF CoreInv
<1>1. /\ b \in EdgeBlocks /\ o \in Edges /\ o \in owners[b] /\ h \in CapBlocks \cup {NULL}
      /\ h # NULL => h \in homes[o]
      /\ x.tm \in [sub : Told, res : Told] /\ x.qual \in Told \cup {NULL} /\ x.tm # NULL
  <2>1. x.tm \in EdgeTm
    BY DEF Opinion, Told, EdgeTm
  <2> QED
    BY <1>0, <2>1, ListedBlocks, TrustAssumption DEF EdgesOK, OwnersOK, Opinion
<1>2. /\ DOMAIN k \subseteq EdgeBlocks
      /\ \A d \in DOMAIN k : owners[d] # {} /\ Kept(k[d])
      /\ \A d \in EdgeBlocks, e \in Edges : owners[d] = {e} => StoredAs(k, d, e, z[e])
  BY DEF TableOK
<1>3. DOMAIN C \subseteq CapBlocks /\ \A c \in DOMAIN C : C[c] \in Told
  BY <1>2, CapsKept
<1>4. ASSUME NEW d \in DOMAIN l PROVE owners[d] # {} /\ Kept(l[d])
  <2>1. CASE d = b
    <3> HIDE DEF C
    <3> QED
      BY <1>1, <1>3, <2>1 DEF Kept, C
  <2>2. CASE d # b
    BY <1>2, <2>2
  <2> QED
    BY <2>1, <2>2
<1>5. ASSUME NEW d \in EdgeBlocks, NEW e \in Edges, owners[d] = {e} PROVE StoredAs(l, d, e, w[e])
  <2>0. StoredAs(k, d, e, z[e])
    BY <1>2, <1>5
  <2>1. CASE d # b
    <3>1. e # o
      BY <1>0, <1>1, <1>5, <2>1 DEF OwnersOK
    <3>2. w[e] = z[e] /\ (d \in DOMAIN l <=> d \in DOMAIN k) /\ (d \in DOMAIN k => l[d] = k[d])
      BY <2>1, <3>1
    <3> QED
      BY <2>0, <3>2 DEF StoredAs
  <2>2. CASE d = b
    <3>1. e = o
      BY <1>1, <1>5, <2>2
    <3> DEFINE y == z[o]
    <3>2. /\ b \in DOMAIN k <=> y.tm # NULL
          /\ y.tm = NULL => y.qual = NULL
          /\ b \in DOMAIN k => B = k[b].caps
          /\ b \notin DOMAIN k => B = <<>> /\ DOMAIN B = {}
      BY <1>1, <2>0, <2>2, <3>1 DEF StoredAs, CapsBefore
    <3>3. /\ DOMAIN B \subseteq homes[o]
          /\ \A c \in CapBlocks : homes[o] = {c} => IF c \in DOMAIN B THEN B[c] = y.qual ELSE y.qual = NULL
      BY <2>0, <2>2, <3>1, <3>2 DEF StoredAs
    <3> DEFINE v == Updated(y, b, x)
    <3>4. v.tm = x.tm /\ v.qual = IF x.qual # NULL /\ h # NULL THEN x.qual ELSE y.qual
      BY DEF Updated
    <3>5. C = B \/ (x.qual # NULL /\ h # NULL /\ C = Put(B, h, x.qual))
      BY DEF CapsAfter
    <3>6. DOMAIN C \subseteq homes[o]
      <4> HIDE DEF B, C
      <4> QED
        BY <1>1, <3>3, <3>5 DEF Put
    <3>7. ASSUME NEW c \in CapBlocks, homes[o] = {c}
          PROVE  IF c \in DOMAIN C THEN C[c] = v.qual ELSE v.qual = NULL
      <4>1. CASE x.qual = NULL \/ h = NULL
        <5>1. C = B /\ v.qual = y.qual
          BY <3>4, <4>1 DEF CapsAfter
        <5> HIDE DEF B, C, v
        <5> QED
          BY <3>3, <3>7, <5>1
      <4>2. CASE x.qual # NULL /\ h # NULL
        <5>1. h = c /\ v.qual = x.qual
          BY <1>1, <3>4, <3>7, <4>2
        <5>2. h \in DOMAIN B \/ CapabilityRoom(B)
          <6>1. CASE h \notin DOMAIN B
            <7>1. DOMAIN B = {}
              BY <3>3, <3>7, <5>1, <6>1
            <7>2. Cardinality(DOMAIN B) = 0
              BY <7>1, FS_EmptySet
            <7> QED
              BY <7>2, TrustAssumption DEF CapabilityRoom
          <6> QED
            BY <6>1
        <5>3. C = Put(B, h, x.qual)
          BY <4>2, <5>2 DEF CapsAfter
        <5> HIDE DEF B, C, v
        <5> QED
          BY <5>1, <5>3 DEF Put
      <4> QED
        BY <4>1, <4>2
    <3>8. w[o] = v /\ b \in DOMAIN l /\ l[b].tm = x.tm /\ l[b].caps = C
      OBVIOUS
    <3> HIDE DEF C, v
    <3> QED
      BY <1>1, <2>2, <3>1, <3>4, <3>6, <3>7, <3>8 DEF StoredAs
  <2> QED
    BY <2>1, <2>2
<1>6. DOMAIN l \subseteq EdgeBlocks
  BY <1>1, <1>2
<1> QED
  BY <1>4, <1>5, <1>6 DEF TableOK

ReadStep(s, p, x) ==
    LET b == edge_info_find_addr(x.edge)
    IN IF b = NULL THEN s ELSE deserialise_trust_edge_and_capabilities(s, p, b, x)

(* The loop over the Edges of a message *)
LEMMA ReadLoop ==
    ASSUME NEW p, NEW m, Len(m) \in Nat, process_received_trust(p, m)
    PROVE  \E f : /\ f[0] = peer_info_add(p)
                  /\ \A i \in 1..Len(m) : f[i] = ReadStep(f[i - 1], p, m[i])
                  /\ peer' = f[Len(m)]
<1> DEFINE N == Len(m)
           s == peer_info_add(p)
           Fn(f) == [i \in 0..N |-> IF i = 0 THEN s
                        ELSE LET b == edge_info_find_addr(m[i].edge)
                             IN IF b = NULL THEN f[i - 1]
                                ELSE deserialise_trust_edge_and_capabilities(f[i - 1], p, b, m[i])]
           f0 == CHOOSE f : f = Fn(f)
           Step(x, i) == ReadStep(x, p, m[i])
           Upto(f, n) == f = [i \in 0..n |-> IF i = 0 THEN s ELSE Step(f[i - 1], i)]
           T == {n \in Nat : \E f : Upto(f, n)}
<1>1. 0 \in T
  <2> DEFINE f == [i \in 0..0 |-> s]
  <2>1. f[0] = s
    OBVIOUS
  <2>2. Upto(f, 0)
    OBVIOUS
  <2> QED
    BY <2>2
<1>2. ASSUME NEW n \in Nat, n \in T PROVE n + 1 \in T
  <2> HIDE DEF Step, s
  <2>1. PICK f : Upto(f, n)
    BY <1>2
  <2> DEFINE g == [i \in 0..(n + 1) |-> IF i <= n THEN f[i] ELSE Step(f[n], n + 1)]
  <2>2. f[0] = s /\ \A i \in 1..n : f[i] = Step(f[i - 1], i)
    <3>1. \A i \in 1..n : i \in 0..n /\ i # 0
      OBVIOUS
    <3> QED
      BY <2>1, <3>1
  <2>3. g[0] = s
    BY <2>2
  <2>4. ASSUME NEW i \in 1..(n + 1) PROVE g[i] = Step(g[i - 1], i)
    <3>1. CASE i <= n
      <4>1. i \in 1..n /\ i \in 0..(n + 1) /\ i - 1 \in 0..(n + 1) /\ i - 1 <= n
        BY <3>1
      <4> QED
        BY <2>2, <3>1, <4>1
    <3>2. CASE ~(i <= n)
      <4>1. i = n + 1 /\ n \in 0..(n + 1) /\ i - 1 = n /\ i \in 0..(n + 1) /\ n <= n
        BY <3>2
      <4> QED
        BY <3>2, <4>1
    <3> QED
      BY <3>1, <3>2
  <2>5. Upto(g, n + 1)
    <3>1. \A i \in 0..(n + 1) : i # 0 => i \in 1..(n + 1)
      OBVIOUS
    <3>2. g = [i \in 0..(n + 1) |-> g[i]]
      OBVIOUS
    <3> HIDE DEF g
    <3>3. \A i \in 0..(n + 1) : g[i] = IF i = 0 THEN s ELSE Step(g[i - 1], i)
      BY <2>3, <2>4, <3>1
    <3> QED
      BY <3>2, <3>3
  <2> HIDE DEF Upto
  <2> QED
    BY <2>5
<1>3. Nat \subseteq T
  <2> HIDE DEF T
  <2> QED
    BY <1>1, <1>2, Induct
<1>4. PICK f : Upto(f, N)
  <2> HIDE DEF Upto
  <2> QED
    BY <1>3
<1>5. \A x : Upto(x, N) <=> x = Fn(x)
  BY DEF ReadStep
<1>6. f0 = Fn(f0)
  <2>1. f = Fn(f)
    BY <1>4, <1>5
  <2> HIDE DEF Fn
  <2> QED
    BY <2>1
<1>7. peer' = f0[N]
  BY DEF process_received_trust
<1> HIDE DEF f0
<1>8. Upto(f0, N)
  BY <1>5, <1>6
<1> HIDE DEF Fn
<1>9. f0[0] = s /\ \A i \in 1..N : f0[i] = Step(f0[i - 1], i)
  <2>1. \A i \in 1..N : i \in 0..N /\ i # 0
    OBVIOUS
  <2> HIDE DEF Step
  <2> QED
    BY <1>8, <2>1
<1> QED
  BY <1>7, <1>9

LEMMA MessageFields ==
    ASSUME NEW m \in Messages
    PROVE  /\ Len(m) \in Nat /\ DOMAIN m = 1..Len(m) /\ \A i \in DOMAIN m : m[i] \in Opinion
           /\ \A i, j \in DOMAIN m : m[i].edge = m[j].edge => i = j
<1>1. m \in Seq(Opinion) /\ \A i, j \in DOMAIN m : m[i].edge = m[j].edge => i = j
  BY TrustAssumption
<1> QED
  BY <1>1, LenProperties

LEMMA HeardIs ==
    ASSUME NEW m \in Messages, NEW e, NEW y
    PROVE  /\ (\A i \in DOMAIN m : m[i].edge # e) \/ edge_info_find_addr(e) = NULL => Heard(y, e, m) = y
           /\ edge_info_find_addr(e) # NULL =>
                 \A i \in DOMAIN m : m[i].edge = e => Heard(y, e, m) = Updated(y, edge_info_find_addr(e), m[i])
<1> DEFINE at == {i \in DOMAIN m : m[i].edge = e}
           b == edge_info_find_addr(e)
<1>1. (\A i \in DOMAIN m : m[i].edge # e) \/ b = NULL => Heard(y, e, m) = y
  BY DEF Heard
<1>2. ASSUME b # NULL, NEW i \in DOMAIN m, m[i].edge = e PROVE Heard(y, e, m) = Updated(y, b, m[i])
  <2>1. at = {i}
    BY <1>2, MessageFields
  <2>2. (CHOOSE j \in at : TRUE) = i
    BY <2>1
  <2> DEFINE k == CHOOSE j \in at : TRUE
  <2>3. Heard(y, e, m) = IF at = {} \/ b = NULL THEN y
                         ELSE [tm |-> m[k].tm,
                               qual |-> IF m[k].qual # NULL /\ edge[b].cap # NULL THEN m[k].qual ELSE y.qual]
    BY DEF Heard
  <2> HIDE DEF k, b
  <2> QED
    BY <1>2, <2>1, <2>2, <2>3 DEF Updated, k
<1> QED
  BY <1>1, <1>2

LEMMA PeerAdded ==
    ASSUME CoreInv, NEW p \in Peers, p \in DOMAIN peer_info_add(p)
    PROVE  LET s == peer_info_add(p)
           IN /\ DOMAIN s = DOMAIN peer \cup {p} /\ IsFiniteSet(DOMAIN s) /\ Cardinality(DOMAIN s) <= NumPeers
              /\ \A q \in DOMAIN peer : s[q] = peer[q]
              /\ TableOK(s[p], said[p])
<1> DEFINE s == peer_info_add(p)
<1>0. PeersOK /\ SaidOK /\ KeptOK
  BY DEF CoreInv
<1>1. CASE p \in DOMAIN peer
  <2>1. s = peer
    BY <1>1 DEF peer_info_add
  <2>2. \A b \in EdgeBlocks, e \in Edges : owners[b] = {e} => StoredAs(peer[p], b, e, said[p][e])
    BY <1>0, <1>1 DEF KeptOK, KeptOf, StoredAs
  <2>3. TableOK(peer[p], said[p])
    BY <1>0, <1>1, <2>2 DEF TableOK, PeersOK
  <2>4. DOMAIN peer \cup {p} = DOMAIN peer
    BY <1>1
  <2> QED
    BY <1>0, <2>1, <2>3, <2>4 DEF PeersOK
<1>2. CASE p \notin DOMAIN peer
  <2>1. s = Put(peer, p, <<>>) /\ Cardinality(DOMAIN peer) # NumPeers
    BY <1>2 DEF peer_info_add
  <2>2. DOMAIN s = DOMAIN peer \cup {p} /\ s[p] = <<>> /\ \A q \in DOMAIN peer : s[q] = peer[q]
    BY <1>2, <2>1 DEF Put
  <2>3. IsFiniteSet(DOMAIN peer) /\ Cardinality(DOMAIN peer) <= NumPeers
    BY <1>0 DEF PeersOK
  <2>4. Cardinality(DOMAIN peer) \in Nat /\ NumPeers \in Nat
    BY <2>3, FS_CardinalityType, TrustAssumption
  <2>5. IsFiniteSet(DOMAIN peer \cup {p}) /\ Cardinality(DOMAIN peer \cup {p}) = Cardinality(DOMAIN peer) + 1
    BY <1>2, <2>3, FS_AddElement
  <2>6. \A e \in Edges : said[p][e].tm = NULL
    BY <1>0, <1>2 DEF SaidOK
  <2>7. DOMAIN s[p] = {}
    BY <2>2
  <2> HIDE DEF s
  <2>8. TableOK(s[p], said[p])
    BY <2>6, <2>7 DEF TableOK, StoredAs
  <2>9. Cardinality(DOMAIN s) <= NumPeers
    BY <2>1, <2>2, <2>3, <2>4, <2>5
  <2> QED
    BY <2>2, <2>5, <2>8, <2>9 DEF s
<1> QED
  BY <1>1, <1>2

(* What has been said by p once the first n Edges of m are read *)
SaidAfter(p, m, n) ==
    [e \in Edges |-> IF \E j \in 1..n : m[j].edge = e THEN Heard(said[p][e], e, m) ELSE said[p][e]]

LEMMA HeardTyped ==
    ASSUME CoreInv, NEW p \in Peers, NEW m \in Messages, NEW e \in Edges
    PROVE  LET y == said[p][e]
               v == Heard(y, e, m)
           IN /\ v \in [tm : EdgeTm \cup {NULL}, qual : Beta \cup {NULL}]
              /\ v.tm = NULL => v.qual = NULL
              /\ v.tm # NULL => y.tm # NULL \/ \E b \in EdgeBlocks : e \in owners[b]
              /\ homes[e] = {} => v.qual = NULL
<1> DEFINE y == said[p][e]
           v == Heard(y, e, m)
           b == edge_info_find_addr(e)
<1>0. EdgesOK /\ OwnersOK /\ SaidOK
  BY DEF CoreInv
<1>1. /\ y \in [tm : EdgeTm \cup {NULL}, qual : Beta \cup {NULL}]
      /\ y.tm = NULL => y.qual = NULL
      /\ homes[e] = {} => y.qual = NULL
  BY <1>0 DEF SaidOK
<1>2. CASE (\A i \in DOMAIN m : m[i].edge # e) \/ b = NULL
  <2>1. v = y
    BY <1>2, HeardIs
  <2> QED
    BY <1>1, <2>1
<1>3. CASE b # NULL /\ \E i \in DOMAIN m : m[i].edge = e
  <2>1. PICK i \in DOMAIN m : m[i].edge = e
    BY <1>3
  <2>2. v = Updated(y, b, m[i])
    BY <1>3, <2>1, HeardIs
  <2>3. b \in Listed /\ b \in EdgeBlocks /\ edge[b].addr = e
    BY <1>0, <1>3, FindAddr
  <2>4. e \in owners[b] /\ (edge[b].cap # NULL => edge[b].cap \in homes[e])
    BY <1>0, <2>3 DEF OwnersOK
  <2>5. m[i].tm \in EdgeTm /\ m[i].qual \in Beta \cup {NULL} /\ m[i].tm # NULL
    <3>1. m[i] \in Opinion
      BY MessageFields
    <3> QED
      BY <3>1, TrustAssumption DEF Opinion, Told, EdgeTm
  <2> HIDE DEF y, b, v
  <2>6. v.tm = m[i].tm /\ v.qual = IF m[i].qual # NULL /\ edge[b].cap # NULL THEN m[i].qual ELSE y.qual
    BY <2>2 DEF Updated
  <2>7. v \in [tm : EdgeTm \cup {NULL}, qual : Beta \cup {NULL}]
    BY <1>1, <2>2, <2>5 DEF Updated
  <2> QED
    BY <1>1, <2>3, <2>4, <2>5, <2>6, <2>7 DEF y, v
<1> QED
  BY <1>2, <1>3

LEMMA ReceivedTable ==
    ASSUME CoreInv, NEW p \in Peers, NEW m \in Messages, process_received_trust(p, m)
    PROVE  LET s == peer_info_add(p)
           IN /\ DOMAIN peer' = DOMAIN s
              /\ \A q \in DOMAIN s : q # p => peer'[q] = s[q]
              /\ TableOK(peer'[p], SaidAfter(p, m, Len(m)))
<1> DEFINE s == peer_info_add(p)
           N == Len(m)
           z(n) == SaidAfter(p, m, n)
<1>0. EdgesOK /\ SaidOK /\ BlocksOK
  BY DEF CoreInv
<1>1. /\ N \in Nat /\ DOMAIN m = 1..N /\ \A i \in DOMAIN m : m[i] \in Opinion
      /\ \A i, j \in DOMAIN m : m[i].edge = m[j].edge => i = j
  BY MessageFields
<1>2. p \in DOMAIN s
  BY DEF process_received_trust
<1>3. /\ DOMAIN s = DOMAIN peer \cup {p} /\ IsFiniteSet(DOMAIN s) /\ Cardinality(DOMAIN s) <= NumPeers
      /\ TableOK(s[p], said[p])
  BY <1>2, PeerAdded
<1>4. PICK f : f[0] = s /\ (\A i \in 1..N : f[i] = ReadStep(f[i - 1], p, m[i])) /\ peer' = f[N]
  BY <1>1, ReadLoop
<1> HIDE DEF s, N, z
<1> DEFINE Fine(n) == /\ DOMAIN f[n] = DOMAIN s
                      /\ \A q \in DOMAIN s : q # p => f[n][q] = s[q]
                      /\ TableOK(f[n][p], z(n))
           T == {n \in Nat : n <= N => Fine(n)}
<1>5. 0 \in T
  <2>1. \A e \in Edges : z(0)[e] = said[p][e]
    BY DEF z, SaidAfter
  <2>2. TableOK(s[p], z(0))
    BY <1>3, <2>1 DEF TableOK
  <2> QED
    BY <1>4, <2>2
<1>6. ASSUME NEW n \in Nat, n \in T PROVE n + 1 \in T
  <2> SUFFICES ASSUME n + 1 <= N PROVE Fine(n + 1)
    OBVIOUS
  <2> DEFINE x == m[n + 1]
             o == x.edge
             b == edge_info_find_addr(o)
  <2>1. n + 1 \in 1..N /\ n + 1 - 1 = n /\ n + 1 \in DOMAIN m /\ x \in Opinion /\ o \in Edges
    BY <1>1 DEF Opinion
  <2>2. f[n + 1] = ReadStep(f[n], p, x)
    BY <1>4, <2>1
  <2>3. Fine(n)
    BY <1>1, <1>6
  <2>4. \A j \in 1..n : j \in DOMAIN m /\ m[j].edge # o
    <3> SUFFICES ASSUME NEW j \in 1..n PROVE j \in DOMAIN m /\ m[j].edge # o
      OBVIOUS
    <3>1. j \in DOMAIN m /\ j # n + 1
      BY <1>1, <2>1
    <3> QED
      BY <1>1, <2>1, <3>1
  <2>5. /\ z(n)[o] = said[p][o] /\ z(n + 1)[o] = Heard(said[p][o], o, m)
        /\ \A e \in Edges : e # o => z(n + 1)[e] = z(n)[e]
    <3>1. n + 1 \in 1..(n + 1) /\ \A j \in 1..(n + 1) : j \in 1..n \/ j = n + 1
      OBVIOUS
    <3>2. \A j \in 1..n : j \in 1..(n + 1)
      OBVIOUS
    <3>3. z(n)[o] = said[p][o]
      BY <2>1, <2>4 DEF z, SaidAfter
    <3>4. z(n + 1)[o] = Heard(said[p][o], o, m)
      BY <2>1, <3>1 DEF z, SaidAfter
    <3>5. ASSUME NEW e \in Edges, e # o PROVE z(n + 1)[e] = z(n)[e]
      BY <3>1, <3>2, <3>5 DEF z, SaidAfter
    <3> QED
      BY <3>3, <3>4, <3>5
  <2>6. CASE b = NULL
    <3>1. Heard(said[p][o], o, m) = said[p][o]
      BY <2>6, HeardIs
    <3>2. \A e \in Edges : z(n + 1)[e] = z(n)[e]
      BY <2>5, <3>1
    <3>3. f[n + 1] = f[n]
      BY <2>2, <2>6 DEF ReadStep
    <3>4. TableOK(f[n][p], z(n + 1))
      BY <2>3, <3>2 DEF TableOK
    <3> QED
      BY <2>3, <3>3, <3>4
  <2>7. CASE b # NULL
    <3> DEFINE k == f[n][p]
               l == f[n + 1][p]
    <3>1. f[n + 1] = deserialise_trust_edge_and_capabilities(f[n], p, b, x)
      BY <2>2, <2>7 DEF ReadStep
    <3>2. b \in Listed /\ b \in EdgeBlocks /\ edge[b].addr = o
      BY <1>0, <2>7, FindAddr
    <3>3. Heard(said[p][o], o, m) = Updated(said[p][o], b, x)
      BY <2>1, <2>7, HeardIs
    <3>4. DOMAIN k \subseteq EdgeBlocks /\ \A d \in DOMAIN k : k[d] = [tm |-> k[d].tm, caps |-> k[d].caps]
      BY <2>3 DEF TableOK, Kept
    <3>5. /\ DOMAIN f[n + 1] = DOMAIN f[n]
          /\ \A q \in DOMAIN f[n] : q # p => f[n + 1][q] = f[n][q]
          /\ DOMAIN l = DOMAIN k \cup {b}
          /\ \A d \in DOMAIN k : d # b => l[d] = k[d]
          /\ l[b] = [tm |-> x.tm, caps |-> CapsAfter(k, b, x)]
      <4>1. /\ p \in DOMAIN f[n] /\ IsFiniteSet(DOMAIN f[n]) /\ Cardinality(DOMAIN f[n]) <= NumPeers
            /\ b \in DOMAIN k => k[b] = [tm |-> k[b].tm, caps |-> k[b].caps]
        BY <1>2, <1>3, <2>3, <3>4
      <4> HIDE DEF b, x
      <4> QED
        BY <3>1, <3>2, <3>4, <4>1, ReadTable
    <3>6. \A e \in Edges : z(n)[e].tm = NULL => z(n)[e].qual = NULL
      <4> SUFFICES ASSUME NEW e \in Edges PROVE z(n)[e].tm = NULL => z(n)[e].qual = NULL
        OBVIOUS
      <4>1. z(n)[e] = said[p][e] \/ z(n)[e] = Heard(said[p][e], e, m)
        BY DEF z, SaidAfter
      <4>2. said[p][e].tm = NULL => said[p][e].qual = NULL
        BY <1>0 DEF SaidOK
      <4>3. Heard(said[p][e], e, m).tm = NULL => Heard(said[p][e], e, m).qual = NULL
        BY HeardTyped
      <4> QED
        BY <4>1, <4>2, <4>3
    <3>7. TableOK(l, z(n + 1))
      <4>1. z(n + 1)[o] = Updated(z(n)[o], b, x)
        BY <2>5, <3>3
      <4> DEFINE u == z(n)
                 w == z(n + 1)
      <4>2. TableOK(k, u) /\ (\A e \in Edges : u[e].tm = NULL => u[e].qual = NULL)
            /\ w[x.edge] = Updated(u[x.edge], b, x) /\ \A e \in Edges : e # x.edge => w[e] = u[e]
        BY <2>3, <2>5, <3>6, <4>1
      <4> HIDE DEF u, w, k, l, b, x
      <4>3. TableOK(l, w)
        BY <2>1, <3>2, <3>5, <4>2, TableKept DEF o
      <4> QED
        BY <4>3 DEF w
    <3> QED
      BY <2>3, <3>5, <3>7
  <2> QED
    BY <2>6, <2>7
<1>7. Nat \subseteq T
  <2> HIDE DEF T
  <2> QED
    BY <1>5, <1>6, Induct
<1>8. Fine(N)
  BY <1>1, <1>7
<1> QED
  BY <1>4, <1>8 DEF s, N, z

LEMMA ReceivedKeeps ==
    ASSUME CoreInv, NEW p \in Peers, NEW m \in Messages, process_received_trust(p, m) PROVE CoreInv'
<1> DEFINE s == peer_info_add(p)
           z == SaidAfter(p, m, Len(m))
<1>0. EdgesOK /\ GhostOK /\ BlocksOK /\ RecordsOK /\ OwnersOK /\ PeersOK /\ SaidOK /\ KeptOK
  BY DEF CoreInv
<1>1. /\ Allowed("messages") /\ p \in DOMAIN s
      /\ said' = [said EXCEPT ![p] = [e \in Edges |-> Heard(@[e], e, m)]]
      /\ UNCHANGED <<scenario, edge_resources, edge, capability, since, owners, homes,
                     given, log>>
  BY DEF process_received_trust, edgeVars, taskVars
<1>2. /\ DOMAIN s = DOMAIN peer \cup {p} /\ IsFiniteSet(DOMAIN s) /\ Cardinality(DOMAIN s) <= NumPeers
      /\ \A q \in DOMAIN peer : s[q] = peer[q]
  BY <1>1, PeerAdded
<1>3. /\ DOMAIN peer' = DOMAIN s
      /\ \A q \in DOMAIN s : q # p => peer'[q] = s[q]
      /\ TableOK(peer'[p], z)
  BY ReceivedTable
<1>4. /\ said \in [Peers -> [Edges -> [tm : EdgeTm \cup {NULL}, qual : Beta \cup {NULL}]]]
      /\ \A q \in Peers, e \in Edges :
            /\ said[q][e].tm = NULL => said[q][e].qual = NULL
            /\ said[q][e].tm # NULL => q \in DOMAIN peer /\ \E b \in EdgeBlocks : e \in owners[b]
            /\ homes[e] = {} => said[q][e].qual = NULL
  BY <1>0 DEF SaidOK
<1>5. /\ said' = [said EXCEPT ![p] = [e \in Edges |-> Heard(said[p][e], e, m)]]
      /\ \A q \in Peers : q # p => said'[q] = said[q]
      /\ \A e \in Edges : said'[p][e] = Heard(said[p][e], e, m)
  BY <1>1, <1>4
<1>6. \A e \in Edges : z[e] = said'[p][e]
  <2> SUFFICES ASSUME NEW e \in Edges PROVE z[e] = Heard(said[p][e], e, m)
    BY <1>5
  <2>1. DOMAIN m = 1..Len(m)
    BY MessageFields
  <2>2. CASE \E j \in 1..Len(m) : m[j].edge = e
    BY <2>2 DEF SaidAfter
  <2>3. CASE ~ \E j \in 1..Len(m) : m[j].edge = e
    <3>1. Heard(said[p][e], e, m) = said[p][e]
      BY <2>1, <2>3, HeardIs
    <3> QED
      BY <2>3, <3>1 DEF SaidAfter
  <2> QED
    BY <2>2, <2>3
<1> HIDE DEF s, z
<1>7. EdgesOK' /\ BlocksOK' /\ OwnersOK'
  BY <1>0, <1>1 DEF EdgesOK, BlocksOK, OwnersOK, Listed
<1>8. RecordsOK'
  BY <1>0, <1>1, RecordFrame DEF RecordsOK, Listed
<1>9. GhostOK'
  <2>1. used' \in [tasks : Nat, reports : Nat, messages : Nat, moves : Nat] /\ used'.reports = used.reports
    BY <1>0, <1>1, AllowedCounts
  <2> QED
    BY <1>0, <1>1, <2>1 DEF GhostOK
<1>10. /\ DOMAIN peer'[p] \subseteq EdgeBlocks
       /\ \A b \in DOMAIN peer'[p] : owners[b] # {} /\ Kept(peer'[p][b])
       /\ \A b \in EdgeBlocks, e \in Edges : owners[b] = {e} => StoredAs(peer'[p], b, e, z[e])
  BY <1>3 DEF TableOK
<1>11. PeersOK'
  <2>1. /\ DOMAIN peer \subseteq Peers
        /\ \A q \in DOMAIN peer : /\ DOMAIN peer[q] \subseteq EdgeBlocks
                                  /\ \A b \in DOMAIN peer[q] : owners[b] # {} /\ Kept(peer[q][b])
    BY <1>0 DEF PeersOK
  <2>2. DOMAIN peer' \subseteq Peers /\ IsFiniteSet(DOMAIN peer') /\ Cardinality(DOMAIN peer') <= NumPeers
    BY <1>2, <1>3, <2>1
  <2>3. ASSUME NEW q \in DOMAIN peer'
        PROVE  /\ DOMAIN peer'[q] \subseteq EdgeBlocks
               /\ \A b \in DOMAIN peer'[q] : owners[b] # {} /\ Kept(peer'[q][b])
    <3>1. CASE q = p
      BY <1>10, <3>1
    <3>2. CASE q # p
      <4>1. q \in DOMAIN peer /\ peer'[q] = peer[q]
        BY <1>2, <1>3, <3>2
      <4> QED
        BY <2>1, <4>1
    <3> QED
      BY <3>1, <3>2
  <2> QED
    BY <1>1, <2>2, <2>3 DEF PeersOK, Kept
<1>12. SaidOK'
  <2>1. ASSUME NEW q \in Peers, NEW e \in Edges
        PROVE  /\ said'[q][e] \in [tm : EdgeTm \cup {NULL}, qual : Beta \cup {NULL}]
               /\ said'[q][e].tm = NULL => said'[q][e].qual = NULL
               /\ said'[q][e].tm # NULL => q \in DOMAIN peer' /\ \E b \in EdgeBlocks : e \in owners[b]
               /\ homes[e] = {} => said'[q][e].qual = NULL
    <3>1. CASE q = p
      <4> DEFINE y == said[p][e]
                 v == Heard(y, e, m)
      <4>1. said'[q][e] = v /\ p \in DOMAIN peer'
        BY <1>1, <1>3, <1>5, <3>1
      <4>2. /\ v \in [tm : EdgeTm \cup {NULL}, qual : Beta \cup {NULL}]
            /\ v.tm = NULL => v.qual = NULL
            /\ v.tm # NULL => y.tm # NULL \/ \E b \in EdgeBlocks : e \in owners[b]
            /\ homes[e] = {} => v.qual = NULL
        BY HeardTyped
      <4>3. y.tm # NULL => \E b \in EdgeBlocks : e \in owners[b]
        BY <1>4
      <4> HIDE DEF y, v
      <4> QED
        BY <3>1, <4>1, <4>2, <4>3
    <3>2. CASE q # p
      <4>1. said'[q] = said[q] /\ (q \in DOMAIN peer => q \in DOMAIN peer')
        BY <1>2, <1>3, <1>5, <3>2
      <4>2. said[q][e] \in [tm : EdgeTm \cup {NULL}, qual : Beta \cup {NULL}]
        BY <1>4
      <4> QED
        BY <1>4, <4>1, <4>2
    <3> QED
      BY <3>1, <3>2
  <2>2. said' \in [Peers -> [Edges -> [tm : EdgeTm \cup {NULL}, qual : Beta \cup {NULL}]]]
    <3> DEFINE R == [tm : EdgeTm \cup {NULL}, qual : Beta \cup {NULL}]
               h == [e \in Edges |-> Heard(said[p][e], e, m)]
    <3>1. h \in [Edges -> R]
      BY HeardTyped
    <3>2. said' = [said EXCEPT ![p] = h]
      BY <1>5
    <3> HIDE DEF h, R
    <3>3. said \in [Peers -> [Edges -> R]]
      BY <1>4 DEF R
    <3>4. said' \in [Peers -> [Edges -> R]]
      BY <3>1, <3>2, <3>3
    <3> QED
      BY <3>4 DEF R
  <2> QED
    BY <1>1, <2>1, <2>2 DEF SaidOK
<1>13. KeptOK'
  <2> SUFFICES ASSUME NEW q \in DOMAIN peer', NEW b \in EdgeBlocks, NEW e \in Edges, owners[b] = {e}
               PROVE  KeptOf(q, b, e)'
    BY <1>1 DEF KeptOK
  <2>1. CASE q = p
    <3>1. StoredAs(peer'[p], b, e, said'[p][e])
      BY <1>6, <1>10
    <3> QED
      BY <1>1, <2>1, <3>1 DEF StoredAs, KeptOf
  <2>2. CASE q # p
    <3>1. q \in DOMAIN peer /\ peer'[q] = peer[q] /\ q \in Peers
      BY <1>0, <1>2, <1>3, <2>2 DEF PeersOK
    <3>2. said'[q] = said[q] /\ KeptOf(q, b, e)
      BY <1>0, <1>5, <2>2, <3>1 DEF KeptOK
    <3> QED
      BY <1>1, <3>1, <3>2 DEF KeptOf
  <2> QED
    BY <2>1, <2>2
<1> QED
  BY <1>7, <1>8, <1>9, <1>11, <1>12, <1>13 DEF CoreInv

-----------------------------------------------------------------------------
(* The invariant holds initially and every step keeps it. *)

LEMMA InitInv == ASSUME Init PROVE IInv
<1>1. Listed = {} /\ edge_resources \in Seq(EdgeBlocks) /\ IsInjective(edge_resources)
  BY DEF Init, Listed, ToSet, IsInjective
<1>2. EdgesOK
  <2>1. Nothing \in [addr : Edges \cup {NULL}, active : BOOLEAN, cap : CapBlocks \cup {NULL}, tm : EdgeTm]
    BY InitRecords DEF Nothing
  <2> QED
    BY <1>1, <2>1, InitRecords DEF Init, EdgesOK
<1>3. GhostOK
  <2>1. scenario \in Scenarios /\ scenario.reports \in Nat
    BY TrustAssumption DEF Init
  <2>2. used = [tasks |-> 0, reports |-> 0, messages |-> 0, moves |-> 0] /\ log = [e \in Edges |-> <<>>]
    BY DEF Init
  <2>3. log \in [Edges -> Seq(Reports)] /\ \A e \in Edges : Len(log[e]) = 0
    BY <2>2
  <2>4. since \in [edge : [EdgeBlocks -> Nat], cap : [CapBlocks -> Nat]]
    BY DEF Init
  <2>5. owners \in [EdgeBlocks -> SUBSET Edges] /\ homes \in [Edges -> SUBSET CapBlocks]
    BY DEF Init
  <2> QED
    BY <2>1, <2>2, <2>3, <2>4, <2>5 DEF GhostOK
<1>4. BlocksOK /\ RecordsOK
  BY <1>1 DEF BlocksOK, RecordsOK
<1>5. OwnersOK
  BY <1>1 DEF OwnersOK, Init
<1>6. PeersOK /\ KeptOK
  <2>1. DOMAIN peer = {}
    BY DEF Init
  <2>2. IsFiniteSet({}) /\ Cardinality({}) = 0
    BY FS_EmptySet
  <2>3. Cardinality({}) <= NumPeers
    BY <2>2, TrustAssumption
  <2>4. PeersOK
    BY <2>1, <2>2, <2>3 DEF PeersOK
  <2> QED
    BY <2>1, <2>4 DEF KeptOK
<1>7. SaidOK
  <2>1. said = [p \in Peers |-> [e \in Edges |-> [tm |-> NULL, qual |-> NULL]]]
    BY DEF Init
  <2>2. \A p \in Peers, e \in Edges : said[p][e].tm = NULL /\ said[p][e].qual = NULL
    BY <2>1
  <2>3. said \in [Peers -> [Edges -> [tm : EdgeTm \cup {NULL}, qual : Beta \cup {NULL}]]]
    BY <2>1
  <2> QED
    BY <2>2, <2>3 DEF SaidOK
<1>8. KeysOK
  BY DEF Init, KeysOK
<1>9. RequestsOK
  <2>1. requesting \o stereotypes = <<>> /\ Len(requesting) = 0 /\ Len(stereotypes) = 0
    BY DEF Init
  <2>2. IsInjective(requesting \o stereotypes)
    BY <2>1 DEF IsInjective
  <2>3. requesting \in Seq(Tags) /\ stereotypes \in Seq(Tags) /\ exchanges \in [Tags -> Nat]
    BY DEF Init
  <2>4. polled = FALSE /\ locked = FALSE /\ failed = FALSE
    BY DEF Init
  <2>5. {polled, locked, failed} \subseteq BOOLEAN
    BY <2>4
  <2>6. Len(requesting) + Len(stereotypes) <= MaxNumStereotypes
    BY <2>1, TrustAssumption
  <2> QED
    BY <2>2, <2>3, <2>5, <2>6 DEF RequestsOK
<1> QED
  BY <1>2, <1>3, <1>4, <1>5, <1>6, <1>7, <1>8, <1>9 DEF IInv, CoreInv

LEMMA StepInv == ASSUME IInv, [Next]_vars PROVE IInv' /\ KeptStep
<1>0. CoreInv /\ KeysOK /\ RequestsOK /\ EdgesOK
  BY DEF IInv, CoreInv
<1>1. scenario.edges \subseteq Edges /\ scenario.peers \subseteq Peers
  BY <1>0, TrustAssumption DEF EdgesOK
<1>2. ASSUME NEW rule \in scenario.rules, NEW b \in choose_edge(rule), Submit(b)
      PROVE  IInv' /\ KeptStep
  <2>1. b # NULL /\ UNCHANGED <<key, stereotypeVars>>
    BY <1>2 DEF Submit
  <2>2. b \in Listed
    BY <1>0, <2>1, ChosenIsUsable
  <2>3. CoreInv'
    BY <1>0, <1>2, <2>2, SubmitKeeps
  <2> QED
    BY <1>0, <2>1, <2>3, RequestsFrame DEF IInv, KeysOK
<1>12. ASSUME NEW e \in given, NEW x \in Reports, Report(e, x) PROVE IInv' /\ KeptStep
  <2>1. UNCHANGED <<key, stereotypeVars>>
    BY <1>12 DEF Report
  <2>2. PICK b : b = edge_info_find_addr(e)
    OBVIOUS
  <2>3. CoreInv'
    BY <1>0, <1>12, <2>2, ReportKeeps
  <2> QED
    BY <1>0, <2>1, <2>3, RequestsFrame DEF IInv, KeysOK
<1>3. ASSUME StereotypePolled PROVE IInv' /\ KeptStep
  <2>1. /\ UNCHANGED <<scenario, edgeVars, key, peerVars, requesting, stereotypes, taskVars, used>>
        /\ polled' \in BOOLEAN
        /\ stereotypes_send_request(FALSE) \/ UNCHANGED <<locked, exchanges, failed>>
    BY <1>3 DEF StereotypePolled
  <2> QED
    BY <1>0, <2>1, CoreFrame, SendKeeps DEF IInv, KeysOK
<1>4. ASSUME StereotypeUnlocked PROVE IInv' /\ KeptStep
  <2>1. /\ UNCHANGED <<scenario, edgeVars, key, peerVars, requesting, stereotypes, taskVars, used>>
        /\ polled' \in BOOLEAN
        /\ stereotypes_send_request(FALSE)
    BY <1>0, <1>4 DEF StereotypeUnlocked, RequestsOK
  <2> QED
    BY <1>0, <2>1, CoreFrame, SendKeeps DEF IInv, KeysOK
<1>5. ASSUME NEW t \in Tags, NEW status, send_callback(t, status) PROVE IInv' /\ KeptStep
  <2>1. UNCHANGED <<scenario, edgeVars, key, peerVars, taskVars, used>>
    BY <1>5 DEF send_callback
  <2> QED
    BY <1>0, <1>5, <2>1, CoreFrame, CallbackKeeps DEF IInv, KeysOK
<1>6. ASSUME NEW e \in Edges, Available(e) PROVE IInv' /\ KeptStep
  <2>1. /\ stereotypes_request(TagOf[e]) /\ TagOf[e] \in Tags
        /\ key' = [key EXCEPT ![e] = IF @ = "none" THEN "to_verify" ELSE @]
    BY <1>6, TrustAssumption DEF Available
  <2>2. KeysOK'
    BY <1>0, <2>1 DEF KeysOK
  <2> QED
    BY <1>0, <1>6, <2>1, <2>2, AvailableKeeps, RequestKeeps DEF IInv
<1>7. ASSUME NEW e \in Edges, Unavailable(e) PROVE IInv' /\ KeptStep
  <2>1. UNCHANGED <<key, stereotypeVars>>
    BY <1>7 DEF Unavailable
  <2> QED
    BY <1>0, <1>7, <2>1, UnavailableKeeps, RequestsFrame DEF IInv, KeysOK
<1>8. ASSUME NEW e \in Edges, KeyVerified(e) \/ KeyRemoved(e) PROVE IInv' /\ KeptStep
  <2>1. UNCHANGED <<scenario, edgeVars, peerVars, stereotypeVars, taskVars, used>> /\ KeysOK'
    BY <1>0, <1>8 DEF KeyVerified, KeyRemoved, KeysOK
  <2> QED
    BY <1>0, <2>1, CoreFrame, RequestsFrame DEF IInv
<1>9. ASSUME NEW p \in Peers, NEW m \in Messages, process_received_trust(p, m) PROVE IInv' /\ KeptStep
  <2>1. UNCHANGED <<key, stereotypeVars>>
    BY <1>9 DEF process_received_trust
  <2> QED
    BY <1>0, <1>9, <2>1, ReceivedKeeps, RequestsFrame DEF IInv, KeysOK
<1>10. ASSUME UNCHANGED vars PROVE IInv' /\ KeptStep
  <2>1. UNCHANGED <<scenario, edgeVars, key, peerVars, stereotypeVars, taskVars, used>>
    BY <1>10 DEF vars
  <2> QED
    BY <1>0, <2>1, CoreFrame, RequestsFrame DEF IInv, KeysOK
<1>11. CASE Next
  BY <1>1, <1>2, <1>3, <1>4, <1>5, <1>6, <1>7, <1>8, <1>9, <1>11, <1>12 DEF Next, StereotypeFails
<1> QED
  BY <1>10, <1>11

LEMMA SpecInv == Spec => []IInv
<1>1. Init => IInv
  BY InitInv
<1>2. IInv /\ [Next]_vars => IInv'
  BY StepInv
<1> QED
  BY <1>1, <1>2, PTL DEF Spec

LEMMA InvRecords == ASSUME IInv PROVE ExperienceRecorded
<1>0. EdgesOK /\ GhostOK /\ BlocksOK /\ RecordsOK /\ TypeOK /\ Listed \subseteq EdgeBlocks
  BY TypeParts, ListedBlocks DEF IInv, CoreInv
<1>1. RecordIsExperience
  <2> SUFFICES ASSUME NEW b \in Listed
               PROVE  LET e    == edge[b].addr
                          c    == edge[b].cap
                          all  == Experience(e, since.edge[b])
                          last == Experience(e, since.cap[c])
                          seen == Observed(last)
                      IN IF scenario.model = "hmm"
                         THEN c # NULL => Iterated(capability[c].hist)
                                          = SubSeq(seen, Max({1, Len(seen) - HistorySize + 1}), Len(seen))
                         ELSE /\ edge[b].tm.sub = Tally(all, {"acked"}, {"unacked"})
                              /\ edge[b].tm.res = Tally(all, {"answered"}, {"unanswered"})
                              /\ c # NULL => capability[c].qual = Tally(last, {"correct"}, {"incorrect"})
    BY DEF RecordIsExperience, Listed
  <2> DEFINE e == edge[b].addr
             c == edge[b].cap
             last == Experience(e, since.cap[c])
             seen == Observed(last)
  <2>1. RecordOf(b)
    BY <1>0 DEF RecordsOK
  <2>2. CASE scenario.model # "hmm"
    BY <2>1, <2>2 DEF RecordOf
  <2>3. CASE scenario.model = "hmm" /\ c # NULL
    <3>1. e \in Edges /\ c \in CapBlocks
      BY <1>0, <2>3 DEF BlocksOK, EdgesOK
    <3>2. capability[c].hist \in Histories(Reports)
      BY <1>0, <3>1 DEF EdgesOK
    <3>3. log[e] \in Seq(Reports) /\ since.cap[c] \in Nat
      BY <1>0, <3>1 DEF GhostOK
    <3>4. since.cap[c] <= Len(log[e]) /\ HoldsLast(capability[c].hist, seen)
      BY <2>1, <2>3 DEF RecordOf
    <3>5. last \in Seq(Reports)
      BY <3>3, <3>4, RestOf DEF Experience
    <3> HIDE DEF last
    <3>6. seen \in Seq(Reports)
      BY <3>5, ObservedLoop
    <3> HIDE DEF seen
    <3>7. Iterated(capability[c].hist) = SubSeq(seen, Max({1, Len(seen) - HistorySize + 1}), Len(seen))
      BY <3>2, <3>4, <3>6, IteratedIsLast
    <3> QED
      BY <2>3, <3>7 DEF last, seen
  <2> QED
    BY <2>2, <2>3
<1> QED
  BY <1>0, <1>1 DEF ExperienceRecorded

LEMMA InvReputation == ASSUME IInv PROVE ReputationOfItsEdge
<1>0. EdgesOK /\ BlocksOK /\ OwnersOK /\ PeersOK /\ KeptOK /\ Listed \subseteq EdgeBlocks
  BY ListedBlocks DEF IInv, CoreInv
<1> SUFFICES ASSUME NEW p \in DOMAIN peer, NEW b \in Listed, owners[b] = {edge[b].addr}
             PROVE  LET e == edge[b].addr
                        c == edge[b].cap
                    IN /\ peer_info_find_edge(p, b) <=> said[p][e].tm # NULL
                       /\ peer_info_find_edge(p, b) =>
                             /\ peer[p][b].tm = said[p][e].tm
                             /\ homes[e] = {c} => IF c \in DOMAIN peer[p][b].caps
                                                  THEN peer[p][b].caps[c] = said[p][e].qual
                                                  ELSE said[p][e].qual = NULL
  BY DEF ReputationOfItsEdge, Listed
<1> DEFINE e == edge[b].addr
           c == edge[b].cap
<1>1. e \in Edges /\ b \in EdgeBlocks
  BY <1>0 DEF BlocksOK
<1>2. KeptOf(p, b, e)
  BY <1>0, <1>1 DEF KeptOK
<1>3. homes[e] = {c} => c \in CapBlocks
  BY <1>1 DEF IInv, CoreInv, GhostOK
<1> QED
  BY <1>2, <1>3 DEF KeptOf, peer_info_find_edge

(* What the trust models hold of an Edge and of its capability, counts or    *)
(* ring buffer, is what has been reported on that Edge since edge-info got   *)
(* to know it, each report once, however many reports a task brings, in      *)
(* whatever order and how late, and whatever Edges come, go and take over    *)
(* memory (edge-info.c, trust models, interaction-history.c).                *)
THEOREM ExperienceIsRecorded == Spec => []ExperienceRecorded
<1>1. IInv => ExperienceRecorded
  BY InvRecords
<1> QED
  BY <1>1, SpecInv, PTL

(* Reputation is computed from what each peer last said of that Edge, as     *)
(* long as peer-info's pointers have not been overtaken (peer-info.c).       *)
THEOREM ReputationIsOfItsEdge == Spec => []ReputationOfItsEdge
<1>1. IInv => ReputationOfItsEdge
  BY InvReputation
<1> QED
  BY <1>1, SpecInv, PTL

(* Both together: what trust is computed from, own experience and what peers *)
(* said, is about the Edge it is used for.                                   *)
THEOREM TrustIsRecorded == Spec => []TrustRecorded
<1> QED
  BY ExperienceIsRecorded, ReputationIsOfItsEdge, PTL DEF TrustRecorded

(* The stereotype of an Edge whose certificate is held is never dropped to  *)
(* make room for another, and what has been asked for is asked for until    *)
(* its stereotype is there.                                                 *)
StereotypesKept ==
    [][/\ \A t \in ToSet(stereotypes) :
             keystore_certificate_contains_tags(t) => t \in ToSet(stereotypes')
       /\ \A t \in ToSet(requesting) : t \in ToSet(requesting') \cup ToSet(stereotypes')]_vars

(* No stereotype that is still of use is dropped to make room, and a request *)
(* stays until its stereotype is there (stereotypes.c).                      *)
THEOREM StereotypesAreKept == Spec => StereotypesKept
<1>1. IInv /\ [Next]_vars => KeptStep
  BY StepInv
<1>2. IInv /\ [Next]_vars =>
        [/\ \A t \in ToSet(stereotypes) :
               keystore_certificate_contains_tags(t) => t \in ToSet(stereotypes')
         /\ \A t \in ToSet(requesting) : t \in ToSet(requesting') \cup ToSet(stereotypes')]_vars
  BY <1>1 DEF KeptStep
<1> QED
  BY <1>2, SpecInv, PTL DEF Spec, StereotypesKept

-----------------------------------------------------------------------------
(* Trust.  It is never zero or more than one, and it follows experience. *)

LEMMA QuotientBetween ==
    ASSUME NEW a \in Nat, NEW x \in Nat \ {0}, NEW k \in Nat
    PROVE  /\ k * x <= a => k <= a \div x
           /\ a <= k * x => a \div x <= k
<1> DEFINE q == a \div x
<1>1. q \in Nat /\ q * x <= a /\ a < (q + 1) * x
  BY Quotient
<1> HIDE DEF q
<1>2. k * x \in Int /\ q * x \in Int /\ (q + 1) * x \in Int
  BY <1>1, Distribute
<1>3. ASSUME k * x <= a PROVE k <= q
  <2>1. k * x < (q + 1) * x
    BY <1>1, <1>2, <1>3
  <2>2. k < q + 1
    BY <1>1, <2>1, ProductCancel
  <2> QED
    BY <1>1, <2>2
<1>4. ASSUME a <= k * x PROVE q <= k
  <2>1. q * x <= k * x
    BY <1>1, <1>2, <1>4
  <2> QED
    BY <1>1, <2>1, ProductCancel
<1> QED
  BY <1>3, <1>4 DEF q

LEMMA ExpectedBounds == ASSUME NEW d \in Told PROVE beta_dist_expected(d) \in 1..Unit
<1> DEFINE g == d[1]
           f == d[2]
           a == g * Unit
           x == g + f
<1>1. g \in Nat \ {0} /\ f \in Nat \ {0} /\ f < Unit /\ Unit \in Nat \ {0}
  BY TrustAssumption DEF Told, Beta
<1>2. beta_dist_expected(d) = a \div x
  BY DEF beta_dist_expected
<1> HIDE DEF g, f
<1>3. x \in Nat \ {0} /\ a \in Nat
  BY <1>1, ProductNat
<1>4. a <= Unit * x
  <2>1. Unit * x = g * Unit + f * Unit /\ f * Unit \in Nat
    <3>1. (g + f) * Unit = g * Unit + f * Unit
      BY <1>1, Distribute
    <3>2. Unit * x = x * Unit
      BY <1>1, <1>3
    <3> QED
      BY <1>1, <3>1, <3>2, ProductNat
  <2> HIDE DEF x
  <2> QED
    BY <1>3, <2>1
<1>5. 1 * x <= a
  <2>1. Unit * g = a
    BY <1>1
  <2>2. (f + 1) * g <= Unit * g
    BY <1>1, ProductMonotone
  <2>3. (f + 1) * g = f * g + g
    BY <1>1, Distribute
  <2>4. f <= f * g
    <3>1. 1 * f <= g * f
      BY <1>1, ProductMonotone
    <3>2. g * f = f * g
      BY <1>1
    <3> QED
      BY <1>1, <3>1, <3>2
  <2>5. f * g \in Nat
    BY <1>1, ProductNat
  <2> DEFINE y == f * g
  <2>6. y \in Nat /\ f <= y /\ y + g <= a
    BY <2>1, <2>2, <2>3, <2>4, <2>5
  <2> HIDE DEF y, a
  <2> QED
    BY <1>1, <1>3, <2>6
<1> HIDE DEF a, x
<1>6. a \div x \in Nat /\ 1 <= a \div x /\ a \div x <= Unit
  BY <1>1, <1>3, <1>4, <1>5, QuotientBetween, Quotient
<1> QED
  BY <1>1, <1>2, <1>6

LEMMA ExpectedMonotone ==
    ASSUME NEW d \in Told, NEW c \in Told, AtLeast(d, c)
    PROVE  beta_dist_expected(d) >= beta_dist_expected(c)
<1> DEFINE g == d[1]
           f == d[2]
           h == c[1]
           k == c[2]
           q == beta_dist_expected(c)
           more == g - h
<1>1. /\ g \in Nat \ {0} /\ f \in Nat \ {0} /\ h \in Nat \ {0} /\ k \in Nat \ {0} /\ Unit \in Nat \ {0}
      /\ h <= g /\ f <= k
  BY TrustAssumption DEF Told, Beta, AtLeast
<1>2. beta_dist_expected(d) = (g * Unit) \div (g + f) /\ q = (h * Unit) \div (h + k)
  BY DEF beta_dist_expected
<1>3. q \in 1..Unit
  BY ExpectedBounds
<1> HIDE DEF g, f, h, k, q
<1>4. q \in Nat /\ q <= Unit /\ more \in Nat /\ g = h + more
  BY <1>1, <1>3
<1> HIDE DEF more
<1>5. q * (h + k) <= h * Unit
  <2> DEFINE a == h * Unit
             x == h + k
  <2>1. a \in Nat /\ x \in Nat \ {0} /\ q = a \div x
    BY <1>1, <1>2, ProductNat
  <2> HIDE DEF a, x
  <2>2. q * x <= a
    BY <2>1, Quotient
  <2> QED
    BY <2>2 DEF a, x
<1>6. q * (h + k) = h * q + k * q /\ h * q \in Int /\ k * q \in Int
  <2>1. (h + k) * q = h * q + k * q /\ h * q \in Int /\ k * q \in Int
    BY <1>1, <1>4, Distribute
  <2>2. q * (h + k) = (h + k) * q
    BY <1>1, <1>4
  <2> QED
    BY <2>1, <2>2
<1>7. q * (g + f) = h * q + more * q + f * q /\ more * q \in Int /\ f * q \in Int
  <2>1. (h + more) * q = h * q + more * q /\ more * q \in Int
    BY <1>1, <1>4, Distribute
  <2>2. (g + f) * q = g * q + f * q /\ f * q \in Int
    BY <1>1, <1>4, Distribute
  <2>3. q * (g + f) = (g + f) * q
    BY <1>1, <1>4
  <2> QED
    BY <1>4, <2>1, <2>2, <2>3
<1>8. f * q <= k * q
  BY <1>1, <1>4, ProductMonotone
<1>9. more * q <= more * Unit /\ more * Unit \in Int
  <2>1. q * more <= Unit * more
    BY <1>1, <1>4, ProductMonotone
  <2>2. q * more = more * q /\ Unit * more = more * Unit
    BY <1>1, <1>4
  <2> QED
    BY <1>1, <1>4, <2>1, <2>2, Distribute
<1>10. g * Unit = h * Unit + more * Unit /\ h * Unit \in Int
  BY <1>1, <1>4, Distribute
<1>11. q * (g + f) <= g * Unit
  <2> DEFINE hq == h * q
             kq == k * q
             fq == f * q
             mq == more * q
             hu == h * Unit
             mu == more * Unit
  <2>1. /\ hq \in Int /\ kq \in Int /\ fq \in Int /\ mq \in Int /\ hu \in Int /\ mu \in Int
        /\ hq + kq <= hu /\ fq <= kq /\ mq <= mu
        /\ q * (g + f) = hq + mq + fq /\ g * Unit = hu + mu
    BY <1>5, <1>6, <1>7, <1>8, <1>9, <1>10
  <2> HIDE DEF hq, kq, fq, mq, hu, mu
  <2> QED
    BY <2>1
<1> DEFINE a == g * Unit
           x == g + f
<1>12. a \in Nat /\ x \in Nat \ {0} /\ q * x <= a
  BY <1>1, <1>11, ProductNat
<1> HIDE DEF a, x
<1>13. q <= a \div x /\ a \div x \in Nat
  BY <1>4, <1>12, QuotientBetween, Quotient
<1> QED
  BY <1>2, <1>4, <1>13 DEF a, x, q

LEMMA TotalBounds ==
    ASSUME NEW c, NEW t, Len(c) \in Nat, \A i \in 1..Len(c) : t[c[i]] \in 1..Unit
    PROVE  Total(c, t) \in Nat /\ Len(c) <= Total(c, t) /\ Total(c, t) <= Unit * Len(c)
<1> DEFINE N == Len(c)
<1>0. Unit \in Nat \ {0} /\ N \in Nat /\ \A i \in 1..N : t[c[i]] \in Nat
  BY TrustAssumption
<1>1. PICK s : /\ s \in [0..N -> Nat] /\ s[0] = 0
               /\ \A i \in 1..N : s[i] = s[i - 1] + t[c[i]]
               /\ Total(c, t) = s[N]
  BY <1>0, TotalLoop
<1> HIDE DEF N
<1> DEFINE T == {n \in Nat : n <= N => n <= s[n] /\ s[n] <= n * Unit}
<1>2. 0 \in T
  BY <1>0, <1>1
<1>3. ASSUME NEW n \in Nat, n \in T PROVE n + 1 \in T
  <2> SUFFICES ASSUME n + 1 <= N PROVE n + 1 <= s[n + 1] /\ s[n + 1] <= (n + 1) * Unit
    OBVIOUS
  <2>1. n + 1 \in 1..N /\ n \in 0..N /\ n + 1 - 1 = n
    BY <1>0
  <2>2. n <= s[n] /\ s[n] <= n * Unit /\ s[n] \in Nat
    BY <1>0, <1>1, <1>3, <2>1
  <2>3. s[n + 1] = s[n] + t[c[n + 1]] /\ t[c[n + 1]] \in 1..Unit
    BY <1>1, <2>1 DEF N
  <2>4. (n + 1) * Unit = n * Unit + Unit /\ n * Unit \in Int
    BY <1>0, Distribute
  <2> DEFINE nu == n * Unit
             v == t[c[n + 1]]
             w == s[n]
  <2>5. nu \in Int /\ v \in 1..Unit /\ w \in Nat /\ n <= w /\ w <= nu /\ s[n + 1] = w + v
        /\ (n + 1) * Unit = nu + Unit
    BY <2>2, <2>3, <2>4
  <2> HIDE DEF nu, v, w
  <2> QED
    BY <1>0, <2>5
<1>4. Nat \subseteq T
  <2> HIDE DEF T
  <2> QED
    BY <1>2, <1>3, Induct
<1>5. N \in T /\ N \in 0..N /\ N * Unit = Unit * N
  BY <1>0, <1>4
<1> QED
  BY <1>0, <1>1, <1>5 DEF N

(* The node's own records are of no more than has been reported to it. *)
LEMMA RecordsTold ==
    ASSUME IInv, scenario.model # "hmm", NEW b \in Listed, Usable(b)
    PROVE  /\ edge[b].tm.sub \in Beta /\ edge[b].tm.sub[2] <= scenario.reports + 1
           /\ edge[b].tm.res \in Beta /\ edge[b].tm.res[2] <= scenario.reports + 1
           /\ capability[edge[b].cap].qual \in Beta
           /\ capability[edge[b].cap].qual[2] <= scenario.reports + 1
<1> DEFINE e == edge[b].addr
           c == edge[b].cap
           n == since.edge[b]
           m == since.cap[c]
           L == Len(log[e])
<1>0. EdgesOK /\ GhostOK /\ BlocksOK /\ RecordsOK
  BY DEF IInv, CoreInv
<1>1. b \in EdgeBlocks /\ e \in Edges /\ c \in CapBlocks /\ c # NULL
  BY <1>0, ListedBlocks DEF BlocksOK, EdgesOK, Usable
<1>2. /\ log[e] \in Seq(Reports) /\ L \in Nat /\ L <= used.reports /\ used.reports <= scenario.reports
      /\ used.reports \in Nat /\ scenario.reports \in Nat /\ n \in Nat /\ m \in Nat
  <2>1. scenario.reports \in Nat
    BY <1>0, TrustAssumption DEF EdgesOK
  <2>2. used \in [tasks : Nat, reports : Nat, messages : Nat, moves : Nat]
    BY <1>0 DEF GhostOK
  <2>3. used.reports \in Nat
    BY <2>2
  <2> QED
    BY <1>0, <1>1, <2>1, <2>3, LenProperties DEF GhostOK
<1>3. /\ n <= L /\ m <= L
      /\ edge[b].tm.sub = Tally(Experience(e, n), {"acked"}, {"unacked"})
      /\ edge[b].tm.res = Tally(Experience(e, n), {"answered"}, {"unanswered"})
      /\ capability[c].qual = Tally(Experience(e, m), {"correct"}, {"incorrect"})
  <2>1. RecordOf(b)
    BY <1>0 DEF RecordsOK
  <2> QED
    BY <1>1, <2>1 DEF RecordOf
<1>4. ASSUME NEW k \in Nat, k <= L, NEW good, NEW bad
      PROVE  Tally(Experience(e, k), good, bad) \in Beta
             /\ Tally(Experience(e, k), good, bad)[2] <= scenario.reports + 1
  <2> DEFINE xs == Experience(e, k)
             d == Tally(xs, good, bad)
  <2>1. xs \in Seq(Reports) /\ Len(xs) = L - k
    BY <1>2, <1>4, RestOf DEF Experience
  <2> HIDE DEF xs
  <2>2. d \in Beta /\ d[2] <= 1 + Len(xs)
    BY <2>1, TallyIsBeta
  <2>3. d[2] \in Nat
    BY <2>2 DEF Beta
  <2> HIDE DEF d
  <2>4. d[2] <= scenario.reports + 1
    <3> DEFINE y == d[2]
               len == Len(xs)
               told == used.reports
               most == scenario.reports
    <3>1. y \in Nat /\ y <= 1 + len /\ len = L - k /\ L <= told /\ told <= most /\ k \in Nat
          /\ L \in Nat /\ told \in Nat /\ most \in Nat
      BY <1>2, <2>1, <2>2, <2>3
    <3> HIDE DEF y, len, told, most, L
    <3>2. y <= most + 1
      BY <3>1
    <3> QED
      BY <3>2 DEF y, most
  <2> QED
    BY <2>2, <2>4 DEF d, xs
<1> HIDE DEF e, n, m, L, c
<1> QED
  BY <1>2, <1>3, <1>4 DEF c

LEMMA CombinedTold ==
    ASSUME NEW k \in Nat, NEW d \in Beta, d[2] <= k + 1, NEW x \in Beta \cup {NULL},
           k + 1 < Unit, x # NULL => k + x[2] < Unit
    PROVE  beta_dist_combine(d, x) \in Told
<1>0. Unit \in Nat /\ NULL \notin Beta
  BY TrustAssumption
<1> DEFINE g == d[1]
           f == d[2]
<1>1. g \in Nat \ {0} /\ f \in Nat \ {0} /\ f <= k + 1
  BY DEF Beta
<1>2. CASE x = NULL
  BY <1>0, <1>1, <1>2 DEF beta_dist_combine, Told
<1>3. CASE x # NULL
  <2> DEFINE h == x[1]
             i == x[2]
  <2>1. h \in Nat \ {0} /\ i \in Nat \ {0} /\ k + i < Unit
    BY <1>3 DEF Beta
  <2>2. beta_dist_combine(d, x) = <<g - 1 + h, f - 1 + i>>
    BY <1>3 DEF beta_dist_combine
  <2> HIDE DEF g, f, h, i
  <2>3. g - 1 + h \in Nat \ {0} /\ f - 1 + i \in Nat \ {0} /\ f - 1 + i < Unit
    BY <1>0, <1>1, <2>1
  <2> QED
    BY <2>2, <2>3 DEF Told, Beta
<1> QED
  BY <1>2, <1>3

LEMMA OwnTrustBounds ==
    ASSUME IInv, scenario.model # "hmm", NEW b \in Listed, Usable(b)
    PROVE  OwnTrust(b) \in 1..Unit
<1> DEFINE s == Stereotype(b)
           d1 == beta_dist_combine(edge[b].tm.sub, IF s = NULL THEN NULL ELSE s.sub)
           d2 == beta_dist_combine(edge[b].tm.res, IF s = NULL THEN NULL ELSE s.res)
           d3 == capability[edge[b].cap].qual
           tasks == scenario.reports
<1>0. EdgesOK /\ BlocksOK
  BY DEF IInv, CoreInv
<1>1. scenario \in Scenarios /\ tasks \in Nat /\ tasks + 1 < Unit /\ Unit \in Nat
  BY <1>0, TrustAssumption, UnitAssumption DEF EdgesOK
<1>2. s = NULL \/ \E t \in Tags : s = Typical[t]
  <2>1. edge[b].addr \in Edges
    BY <1>0 DEF BlocksOK
  <2> QED
    BY <2>1, TrustAssumption DEF Stereotype
<1>3. s # NULL => s.sub \in Beta /\ s.res \in Beta /\ tasks + s.sub[2] < Unit /\ tasks + s.res[2] < Unit
  BY <1>1, <1>2, TrustAssumption, UnitAssumption DEF EdgeTm
<1>4. /\ edge[b].tm.sub \in Beta /\ edge[b].tm.sub[2] <= tasks + 1
      /\ edge[b].tm.res \in Beta /\ edge[b].tm.res[2] <= tasks + 1
      /\ d3 \in Beta /\ d3[2] <= tasks + 1
  BY RecordsTold
<1> HIDE DEF s, tasks
<1>5. d1 \in Told /\ d2 \in Told
  BY <1>1, <1>3, <1>4, CombinedTold, TrustAssumption
<1>6. d3 \in Told
  <2>1. d3[2] \in Nat
    BY <1>4 DEF Beta
  <2> HIDE DEF d3
  <2>2. d3[2] < Unit
    BY <1>1, <1>4, <2>1
  <2> QED
    BY <1>4, <2>2 DEF Told
<1> DEFINE v1 == beta_dist_expected(d1)
           v2 == beta_dist_expected(d2)
           v3 == beta_dist_expected(d3)
<1>7. OwnTrust(b) = (v1 + v2 + v3) \div Metrics
  BY DEF OwnTrust, s
<1> HIDE DEF d1, d2, d3
<1>8. v1 \in 1..Unit /\ v2 \in 1..Unit /\ v3 \in 1..Unit
  BY <1>5, <1>6, ExpectedBounds
<1> HIDE DEF v1, v2, v3
<1> QED
  BY <1>1, <1>7, <1>8 DEF Metrics

LEMMA PeerTrustBounds ==
    ASSUME IInv, NEW p, NEW b, peer_info_find_edge(p, b) PROVE PeerTrust(p, b) \in 1..Unit
<1> DEFINE x == peer[p][b]
           c == edge[b].cap
           v1 == beta_dist_expected(x.tm.sub)
           v2 == beta_dist_expected(x.tm.res)
           v3 == beta_dist_expected(x.caps[c])
<1>0. Unit \in Nat
  BY TrustAssumption
<1>1. Kept(x)
  BY DEF IInv, CoreInv, PeersOK, peer_info_find_edge
<1>2. v1 \in 1..Unit /\ v2 \in 1..Unit /\ (c \in DOMAIN x.caps => v3 \in 1..Unit)
  BY <1>1, ExpectedBounds DEF Kept
<1>3. PeerTrust(p, b) = IF c \in DOMAIN x.caps THEN (v1 + v2 + v3) \div Metrics
                        ELSE (v1 + v2) \div (Metrics - 1)
  BY DEF PeerTrust
<1> HIDE DEF v1, v2, v3
<1>4. (v1 + v2) \div 2 \in 1..Unit /\ (c \in DOMAIN x.caps => (v1 + v2 + v3) \div 3 \in 1..Unit)
  BY <1>0, <1>2
<1>5. Metrics = 3 /\ Metrics - 1 = 2
  BY DEF Metrics
<1> QED
  BY <1>3, <1>4, <1>5

LEMMA ListOfSet ==
    ASSUME NEW S, IsFiniteSet(S), S # {}
    PROVE  SetToSeq(S) \in Seq(S) /\ Len(SetToSeq(S)) \in Nat \ {0}
<1> DEFINE n == Cardinality(S)
<1>1. n \in Nat /\ ExistsBijection(1..n, S)
  BY FS_CardinalityType
<1>2. n # 0
  BY FS_EmptySet
<1>3. PICK f \in [1..n -> S] : IsInjective(f)
  BY <1>1 DEF ExistsBijection, Bijection, Injection, IsInjective
<1>4. SetToSeq(S) \in [1..n -> S]
  BY <1>3 DEF SetToSeq
<1> HIDE DEF n
<1>5. SetToSeq(S) \in Seq(S)
  BY <1>1, <1>4
<1>6. Len(SetToSeq(S)) = n
  BY <1>1, <1>4, <1>5, LenProperties
<1> QED
  BY <1>1, <1>2, <1>5, <1>6

LEMMA TrustBounds ==
    ASSUME IInv, scenario.model # "hmm", NEW b \in Listed, Usable(b)
    PROVE  calculate_trust_value(b) \in 1..Unit
<1> DEFINE who == {p \in Peers : peer_info_find_edge(p, b)}
           ps == SetToSeq(who)
           view == [p \in who |-> PeerTrust(p, b)]
           n == Len(ps)
           rep == Total(ps, view) \div n
           own == OwnTrust(b)
           reputed == scenario.model = "basic_with_reputation" /\ who # {}
<1>0. Unit \in Nat /\ own \in 1..Unit
  BY OwnTrustBounds, TrustAssumption
<1>1. calculate_trust_value(b) = IF reputed THEN ((ReputationWeight - 1) * own + rep) \div ReputationWeight
                                 ELSE own
  BY DEF calculate_trust_value
<1>2. ASSUME reputed PROVE rep \in 1..Unit
  <2>1. IsFiniteSet(who) /\ who # {}
    <3>1. IsFiniteSet(DOMAIN peer) /\ who \in SUBSET (DOMAIN peer)
      BY DEF IInv, CoreInv, PeersOK, peer_info_find_edge
    <3> QED
      BY <1>2, <3>1, FS_Subset
  <2>2. \A p \in who : view[p] \in 1..Unit
    BY PeerTrustBounds
  <2> HIDE DEF who, view
  <2>3. ps \in Seq(who) /\ n \in Nat \ {0}
    BY <2>1, ListOfSet
  <2> HIDE DEF ps
  <2>4. \A i \in 1..n : view[ps[i]] \in 1..Unit
    BY <2>2, <2>3, LenProperties
  <2> DEFINE sum == Total(ps, view)
  <2>5. sum \in Nat /\ n <= sum /\ sum <= Unit * n
    BY <2>3, <2>4, TotalBounds
  <2> HIDE DEF sum, n
  <2>6. 1 * n <= sum
    BY <2>3, <2>5
  <2>7. sum \div n \in Nat /\ 1 <= sum \div n /\ sum \div n <= Unit
    BY <1>0, <2>3, <2>5, <2>6, QuotientBetween, Quotient
  <2> QED
    BY <1>0, <2>7 DEF sum
<1> HIDE DEF rep, own, reputed
<1>3. CASE reputed
  <2>1. rep \in 1..Unit
    BY <1>2, <1>3
  <2>2. (3 * own + rep) \div 4 \in 1..Unit
    BY <1>0, <2>1
  <2> QED
    BY <1>1, <1>3, <2>2 DEF ReputationWeight
<1>4. CASE ~reputed
  BY <1>0, <1>1, <1>4
<1> QED
  BY <1>3, <1>4

(* Of two Edges without stereotype or reputation the one with the better record is trusted as much. *)
LEMMA TrustFollows ==
    ASSUME IInv, scenario.model = "basic", NEW e \in Listed, Usable(e), NEW f \in Listed, Usable(f),
           Stereotype(e) = NULL, Stereotype(f) = NULL,
           AtLeast(edge[e].tm.sub, edge[f].tm.sub), AtLeast(edge[e].tm.res, edge[f].tm.res),
           AtLeast(capability[edge[e].cap].qual, capability[edge[f].cap].qual)
    PROVE  calculate_trust_value(e) >= calculate_trust_value(f)
<1> DEFINE v1(b) == beta_dist_expected(edge[b].tm.sub)
           v2(b) == beta_dist_expected(edge[b].tm.res)
           v3(b) == beta_dist_expected(capability[edge[b].cap].qual)
<1>0. scenario.model # "hmm" /\ scenario.model # "basic_with_reputation"
  OBVIOUS
<1>1. ASSUME NEW b \in {e, f}
      PROVE  /\ calculate_trust_value(b) = (v1(b) + v2(b) + v3(b)) \div 3
             /\ edge[b].tm.sub \in Told /\ edge[b].tm.res \in Told /\ capability[edge[b].cap].qual \in Told
  <2>1. calculate_trust_value(b) = OwnTrust(b)
    BY <1>0 DEF calculate_trust_value
  <2>2. Stereotype(b) = NULL
    BY <1>1
  <2>3. OwnTrust(b) = (v1(b) + v2(b) + v3(b)) \div 3
    BY <2>2 DEF OwnTrust, beta_dist_combine, Metrics
  <2>4. scenario.reports \in Nat /\ scenario.reports + 1 < Unit /\ Unit \in Nat
    BY TrustAssumption, UnitAssumption DEF IInv, CoreInv, EdgesOK
  <2>5. ASSUME NEW d \in Beta, d[2] <= scenario.reports + 1 PROVE d \in Told
    <3>1. d[2] \in Nat
      BY DEF Beta
    <3>2. d[2] < Unit
      BY <2>4, <2>5, <3>1
    <3> QED
      BY <3>2 DEF Told
  <2> QED
    BY <1>0, <2>1, <2>3, <2>5, RecordsTold
<1>2. v1(e) >= v1(f) /\ v2(e) >= v2(f) /\ v3(e) >= v3(f)
  BY <1>1, ExpectedMonotone
<1>3. \A b \in {e, f} : v1(b) \in Nat /\ v2(b) \in Nat /\ v3(b) \in Nat
  BY <1>1, ExpectedBounds
<1> HIDE DEF v1, v2, v3
<1> DEFINE x == v1(e) + v2(e) + v3(e)
           y == v1(f) + v2(f) + v3(f)
<1>4. x \in Nat /\ y \in Nat /\ y <= x
  BY <1>2, <1>3
<1>5. calculate_trust_value(e) = x \div 3 /\ calculate_trust_value(f) = y \div 3
  BY <1>1
<1> HIDE DEF x, y
<1> QED
  BY <1>4, <1>5

LEMMA InvChosen == ASSUME IInv PROVE ChosenIsBest
<1> DEFINE t == Trust
           c == Candidates
           es == ToSet(c)
<1> SUFFICES ASSUME scenario.model # "hmm"
             PROVE  /\ \A e \in es : t[e] \in 1..Unit
                    /\ RulesAgree(c, t, scenario.rules)
                    /\ \A e, f \in es :
                          (/\ scenario.model = "basic" /\ Stereotype(e) = NULL /\ Stereotype(f) = NULL
                           /\ AtLeast(edge[e].tm.sub, edge[f].tm.sub)
                           /\ AtLeast(edge[e].tm.res, edge[f].tm.res)
                           /\ AtLeast(capability[edge[e].cap].qual, capability[edge[f].cap].qual))
                          => t[e] >= t[f]
  BY DEF ChosenIsBest
<1>0. EdgesOK /\ Listed \subseteq EdgeBlocks
  BY ListedBlocks DEF IInv, CoreInv
<1>1. c \in Seq(EdgeBlocks) /\ IsInjective(c) /\ es = {b \in Listed : Usable(b)}
  BY <1>0, CandidatesUsable DEF EdgesOK, Listed
<1>2. \A e \in es : t[e] = calculate_trust_value(e)
  BY DEF Trust
<1> HIDE DEF t, c
<1>3. \A e \in es : t[e] \in 1..Unit
  BY <1>1, <1>2, TrustBounds
<1>4. RulesAgree(c, t, scenario.rules)
  <2>0. NULL \notin EdgeBlocks
    BY TrustAssumption DEF EdgeBlocks
  <2>1. NULL \notin es
    <3> HIDE DEF es
    <3> QED
      BY <1>0, <1>1, <2>0
  <2>2. \A e \in es : t[e] \in Nat \ {0}
    BY <1>3
  <2> QED
    BY <1>1, <2>1, <2>2, RulesAsIntended
<1>5. ASSUME NEW e \in es, NEW f \in es,
             /\ scenario.model = "basic" /\ Stereotype(e) = NULL /\ Stereotype(f) = NULL
             /\ AtLeast(edge[e].tm.sub, edge[f].tm.sub)
             /\ AtLeast(edge[e].tm.res, edge[f].tm.res)
             /\ AtLeast(capability[edge[e].cap].qual, capability[edge[f].cap].qual)
      PROVE  t[e] >= t[f]
  BY <1>1, <1>2, <1>5, TrustFollows
<1> QED
  BY <1>3, <1>4, <1>5

(* Trust is never zero, the rules favour whom they should with it, up to the *)
(* draws that proportional leaves over, and a record as good in every        *)
(* respect is trusted as much, in every state the node can reach:            *)
(* choose_edge of trust/choose and calculate_trust_value of the models.      *)
THEOREM ChosenIsBestAlways == Spec => []ChosenIsBest
<1>1. IInv => ChosenIsBest
  BY InvChosen
<1> QED
  BY <1>1, SpecInv, PTL

=============================================================================
