------------------------- MODULE EdgeDiscoveryProofs -------------------------
(***************************************************************************)
(* What the node's edge-info keeps, for any Edges, applications and limits   *)
(* of edge-info, whatever is lost, reordered or published.                   *)
(***************************************************************************)
EXTENDS EdgeDiscovery, SequenceTheorems, FiniteSetTheorems, WellFoundedInduction, TLAPS

Status == {"none", "inactive", "active"}

NodeType == [list : Seq(Edges), active : [Edges -> BOOLEAN], cap : [Edges -> [Apps -> Status]],
             pool : Nat, running : [Apps -> BOOLEAN]]

(* The memory of capabilities that is taken. *)
Owned(n) == {p \in Edges \X Apps : n.cap[p[1]][p[2]] # "none"}

(* edge-info within its limits: every capability belongs to an Edge that is   *)
(* listed, and its memory is accounted for.                                  *)
NodeOK(n) ==
    /\ n \in NodeType
    /\ IsInjective(n.list) /\ Len(n.list) <= NumEdgeResources
    /\ \A e \in Edges : /\ ~Known(n, e) => Capabilities(n, e) = {}
                        /\ IsFiniteSet(Capabilities(n, e))
                        /\ Cardinality(Capabilities(n, e)) <= NumEdgeCapabilities
    /\ IsFiniteSet(Owned(n))
    /\ n.pool + Cardinality(Owned(n)) = NumEdgeResources * NumEdgeCapabilities

-----------------------------------------------------------------------------
(* Lists. *)

LEMMA Limits ==
    /\ NumEdgeResources \in Nat /\ NumEdgeCapabilities \in Nat /\ NumEdgeResources > 0 /\ NumEdgeCapabilities > 0
    /\ NumEdgeResources * NumEdgeCapabilities \in Nat
  BY EdgeAssumption

LEMMA AddToList ==
    ASSUME NEW s \in Seq(Edges), IsInjective(s), NEW e \in Edges, e \notin ToSet(s)
    PROVE  LET t == <<e>> \o s
           IN  /\ t \in Seq(Edges) /\ Len(t) = Len(s) + 1
               /\ IsInjective(t) /\ ToSet(t) = ToSet(s) \cup {e}
<1> DEFINE t == <<e>> \o s
<1>1. t \in Seq(Edges) /\ Len(t) = Len(s) + 1 /\ Len(s) \in Nat
  BY LenProperties
<1>2. t[1] = e /\ \A i \in 2..Len(t) : t[i] = s[i - 1] /\ i - 1 \in 1..Len(s)
  BY <1>1
<1>3. DOMAIN t = 1..Len(t) /\ DOMAIN s = 1..Len(s)
  BY <1>1, LenProperties
<1>4. \A i \in 1..Len(s) : i + 1 \in 2..Len(t) /\ t[i + 1] = s[i]
  BY <1>1, <1>2
<1> HIDE DEF t
<1>5. ToSet(t) = ToSet(s) \cup {e}
  <2>1. 1 \in 1..Len(t)
    BY <1>1
  <2>2. ToSet(t) \subseteq ToSet(s) \cup {e}
    BY <1>1, <1>2, <1>3 DEF ToSet
  <2>3. ToSet(s) \subseteq ToSet(t)
    BY <1>1, <1>3, <1>4 DEF ToSet
  <2> QED
    BY <1>2, <1>3, <2>1, <2>2, <2>3 DEF ToSet
<1>6. IsInjective(t)
  <2> SUFFICES ASSUME NEW i \in 1..Len(t), NEW j \in 1..Len(t), t[i] = t[j], i # j PROVE FALSE
    BY <1>3 DEF IsInjective
  <2>1. \A k \in 1..Len(s) : s[k] # e
    BY <1>3 DEF ToSet
  <2>2. \A k \in 2..Len(t) : t[k] # e
    BY <1>2, <2>1
  <2>3. i \in Nat /\ j \in Nat /\ (i = 1 \/ i \in 2..Len(t)) /\ (j = 1 \/ j \in 2..Len(t))
    BY <1>1
  <2>4. i \in 2..Len(t) /\ j \in 2..Len(t)
    BY <1>2, <2>2, <2>3
  <2>5. s[i - 1] = s[j - 1] /\ i - 1 \in 1..Len(s) /\ j - 1 \in 1..Len(s)
    BY <1>2, <2>4
  <2>6. i - 1 = j - 1
    BY <1>3, <2>5 DEF IsInjective
  <2> QED
    BY <2>3, <2>6
<1> QED
  BY <1>1, <1>5, <1>6 DEF t

LEMMA RemoveAtElements ==
    ASSUME NEW S, NEW s \in Seq(S), NEW i \in 1..Len(s)
    PROVE  LET t == RemoveAt(s, i)
           IN  /\ t \in Seq(S) /\ Len(t) = Len(s) - 1 /\ DOMAIN t = 1..Len(t)
               /\ \A k \in 1..(Len(s) - 1) : t[k] = IF k < i THEN s[k] ELSE s[k + 1]
<1> DEFINE t == RemoveAt(s, i)
           u == SubSeq(s, 1, i - 1)
           v == SubSeq(s, i + 1, Len(s))
<1>0. Len(s) \in Nat /\ DOMAIN s = 1..Len(s) /\ i \in Nat /\ i >= 1 /\ i <= Len(s)
      /\ \A k \in 1..Len(s) : s[k] \in S
  BY LenProperties
<1>1. u \in Seq(S) /\ Len(u) = i - 1 /\ \A k \in 1..(i - 1) : u[k] = s[k]
  <2>1. i - 1 \in Int /\ \A k \in 1..(i - 1) : s[k] \in S
    BY <1>0
  <2>2. /\ u \in Seq(S) /\ Len(u) = IF 1 <= i - 1 THEN i - 1 - 1 + 1 ELSE 0
        /\ \A k \in 1..(i - 1 - 1 + 1) : u[k] = s[1 + k - 1]
    BY <2>1, SubSeqProperties
  <2> QED
    BY <1>0, <2>2
<1>2. v \in Seq(S) /\ Len(v) = Len(s) - i /\ \A k \in 1..(Len(s) - i) : v[k] = s[k + i]
  <2>1. i + 1 \in Int /\ Len(s) \in Int /\ \A k \in (i + 1)..Len(s) : s[k] \in S
    BY <1>0
  <2>2. /\ v \in Seq(S) /\ Len(v) = IF i + 1 <= Len(s) THEN Len(s) - (i + 1) + 1 ELSE 0
        /\ \A k \in 1..(Len(s) - (i + 1) + 1) : v[k] = s[i + 1 + k - 1]
    BY <2>1, SubSeqProperties
  <2> HIDE DEF t, u, v
  <2>3. Len(v) = Len(s) - i
    <3>1. Len(v) = IF i + 1 <= Len(s) THEN Len(s) - (i + 1) + 1 ELSE 0
      BY <2>2
    <3>2. Len(s) \in Nat /\ i \in Nat /\ i <= Len(s)
      BY <1>0
    <3> QED
      BY <3>1, <3>2
  <2>4. ASSUME NEW k \in 1..(Len(s) - i) PROVE v[k] = s[k + i]
    <3>1. i + 1 + k - 1 = k + i /\ k \in 1..(Len(s) - (i + 1) + 1)
      BY <1>0
    <3> QED
      BY <2>2, <3>1
  <2> QED
    BY <2>2, <2>3, <2>4
<1>3. t = u \o v
  BY DEF RemoveAt
<1> HIDE DEF t, u, v
<1>4. t \in Seq(S) /\ Len(t) = Len(u) + Len(v) /\ \A k \in 1..(Len(u) + Len(v)) : t[k] = IF k <= Len(u) THEN u[k] ELSE v[k - Len(u)]
  <2>1. u \in Seq(S) /\ v \in Seq(S)
    BY <1>1, <1>2
  <2> QED
    BY <1>3, <2>1, ConcatProperties
<1>5. Len(t) = Len(s) - 1 /\ DOMAIN t = 1..Len(t)
  BY <1>0, <1>1, <1>2, <1>4, LenProperties
<1>6. ASSUME NEW k \in 1..(Len(s) - 1) PROVE t[k] = IF k < i THEN s[k] ELSE s[k + 1]
  <2>0. k \in Nat
    OBVIOUS
  <2>1. CASE k < i
    <3>1. k \in 1..(i - 1) /\ k <= Len(u) /\ k \in 1..(Len(u) + Len(v))
      BY <1>0, <1>1, <1>2, <2>0, <2>1
    <3>2. t[k] = u[k] /\ u[k] = s[k]
      BY <1>1, <1>4, <3>1
    <3> QED
      BY <2>1, <3>2
  <2>2. CASE ~(k < i)
    <3>1. Len(s) \in Nat /\ i \in Nat /\ i >= 1 /\ i <= Len(s) /\ Len(u) = i - 1 /\ Len(v) = Len(s) - i
      BY <1>0, <1>1, <1>2
    <3>2. /\ k - Len(u) \in 1..(Len(s) - i) /\ k - Len(u) + i = k + 1
          /\ ~(k <= Len(u)) /\ k \in 1..(Len(u) + Len(v))
      BY <2>0, <2>2, <3>1
    <3>3. t[k] = v[k - Len(u)]
      BY <1>4, <3>2
    <3>4. v[k - Len(u)] = s[k - Len(u) + i]
      BY <1>2, <3>2
    <3> QED
      BY <2>2, <3>2, <3>3, <3>4
  <2> QED
    BY <2>1, <2>2
<1> QED
  BY <1>4, <1>5, <1>6 DEF t

LEMMA RemoveFromList ==
    ASSUME NEW s \in Seq(Edges), IsInjective(s), NEW i \in 1..Len(s)
    PROVE  LET t == RemoveAt(s, i)
           IN  /\ t \in Seq(Edges) /\ Len(t) = Len(s) - 1
               /\ IsInjective(t) /\ ToSet(t) = ToSet(s) \ {s[i]}
<1> DEFINE t == RemoveAt(s, i)
<1>0. Len(s) \in Nat /\ DOMAIN s = 1..Len(s) /\ i \in Nat
  BY LenProperties
<1>4. t \in Seq(Edges) /\ Len(t) = Len(s) - 1 /\ DOMAIN t = 1..Len(t)
  BY RemoveAtElements
<1>5. \A k \in 1..(Len(s) - 1) : t[k] = IF k < i THEN s[k] ELSE s[k + 1]
  BY RemoveAtElements
<1> HIDE DEF t
<1>6. IsInjective(t)
  <2> SUFFICES ASSUME NEW j \in 1..Len(t), NEW k \in 1..Len(t), t[j] = t[k] PROVE j = k
    BY <1>4 DEF IsInjective
  <2> DEFINE at(x) == IF x < i THEN x ELSE x + 1
  <2>1. \A x \in 1..Len(t) : at(x) \in 1..Len(s) /\ t[x] = s[at(x)]
    BY <1>0, <1>4, <1>5
  <2>2. at(j) = at(k)
    BY <1>0, <2>1 DEF IsInjective
  <2> QED
    BY <1>0, <1>4, <2>2
<1>7. ToSet(t) \subseteq ToSet(s) \ {s[i]}
  BY <1>0, <1>4, <1>5 DEF IsInjective, ToSet
<1>8. \A k \in 1..Len(s) : k # i => s[k] \in ToSet(t)
  <2> SUFFICES ASSUME NEW k \in 1..Len(s), k # i PROVE s[k] \in ToSet(t)
    OBVIOUS
  <2>1. CASE k < i
    <3>1. k \in 1..Len(t) /\ t[k] = s[k]
      BY <1>0, <1>4, <1>5, <2>1
    <3> QED
      BY <1>4, <3>1 DEF ToSet
  <2>2. CASE k > i
    <3>1. k - 1 \in 1..Len(t) /\ t[k - 1] = s[k]
      BY <1>0, <1>4, <1>5, <2>2
    <3> QED
      BY <1>4, <3>1 DEF ToSet
  <2> QED
    BY <1>0, <2>1, <2>2
<1>9. ToSet(s) \ {s[i]} \subseteq ToSet(t)
  BY <1>0, <1>8 DEF ToSet
<1> QED
  BY <1>4, <1>6, <1>7, <1>9 DEF t

(* The first of some places is one of them. *)
LEMMA MinIsMember ==
    ASSUME NEW S \in SUBSET Nat, S # {}
    PROVE  Min(S) \in S
<1> DEFINE R == {p \in Nat \X Nat : p[1] < p[2]}
<1>1. \E x \in S : \A y \in S : ~(<<y, x>> \in R)
  <2> HIDE DEF R
  <2>1. IsWellFoundedOn(R, Nat)
    BY NatLessThanWellFounded DEF R, OpToRel
  <2> QED
    BY <2>1, WFMin
<1>2. PICK x \in S : \A y \in S : ~(<<y, x>> \in R)
  BY <1>1
<1>3. \A y \in S : x <= y
  <2> SUFFICES ASSUME NEW y \in S PROVE x <= y
    OBVIOUS
  <2>1. x \in Nat /\ y \in Nat /\ <<y, x>> \in Nat \X Nat
    OBVIOUS
  <2>2. ~(y < x)
    BY <1>2, <2>1
  <2> QED
    BY <2>1, <2>2
<1> QED
  BY <1>3 DEF Min

-----------------------------------------------------------------------------
(* The operations of edge-info on its memory. *)

(* Two nodes whose edge-info has the same lists and memory. *)
SameBooks(n, m) ==
    /\ m.list = n.list /\ m.pool = n.pool
    /\ \A e \in Edges, a \in Apps : m.cap[e][a] = "none" <=> n.cap[e][a] = "none"

LEMMA SameBooksOK ==
    ASSUME NEW n, NEW m, NodeOK(n), m \in NodeType, SameBooks(n, m)
    PROVE  NodeOK(m) /\ \A e \in Edges : Capabilities(m, e) = Capabilities(n, e)
<1>1. \A e \in Edges : Capabilities(m, e) = Capabilities(n, e)
  BY DEF SameBooks, Capabilities
<1>2. Owned(m) = Owned(n)
  BY DEF SameBooks, Owned
<1>3. \A e : Known(m, e) <=> Known(n, e)
  BY DEF SameBooks, Known
<1> QED
  BY <1>1, <1>2, <1>3 DEF NodeOK, SameBooks

LEMMA TellFields ==
    ASSUME NEW n \in NodeType, NEW as
    PROVE  LET m == Tell(n, as)
           IN  /\ m \in NodeType /\ m.list = n.list /\ m.active = n.active /\ m.cap = n.cap /\ m.pool = n.pool
               /\ \A a \in Apps : /\ a \in as => (m.running[a] <=> edge_info_has_active_capability(n, a))
                                  /\ a \notin as => m.running[a] = n.running[a]
<1>1. \A a : edge_info_has_active_capability(n, a) \in BOOLEAN
  BY DEF edge_info_has_active_capability
<1> DEFINE run == [a \in Apps |-> IF a \in as THEN edge_info_has_active_capability(n, a) ELSE n.running[a]]
<1>2. run \in [Apps -> BOOLEAN]
  BY <1>1 DEF NodeType
<1>3. Tell(n, as) = [n EXCEPT !.running = run]
  BY DEF Tell, NodeType
<1>4. \A a \in Apps : /\ a \in as => (run[a] <=> edge_info_has_active_capability(n, a))
                      /\ a \notin as => run[a] = n.running[a]
  BY <1>1
<1> HIDE DEF run
<1> QED
  BY <1>2, <1>3, <1>4 DEF NodeType

LEMMA ClearFields ==
    ASSUME NEW n \in NodeType, NEW e \in Edges, IsFiniteSet(Capabilities(n, e))
    PROVE  LET m == edge_info_capability_clear(n, e)
           IN  /\ m \in NodeType /\ m.list = n.list /\ m.active = n.active /\ m.running = n.running
               /\ m.pool = n.pool + Cardinality(Capabilities(n, e))
               /\ \A a \in Apps : m.cap[e][a] = "none"
               /\ \A f \in Edges : f # e => m.cap[f] = n.cap[f]
<1>1. Cardinality(Capabilities(n, e)) \in Nat
  BY FS_CardinalityType
<1> DEFINE z == [a \in Apps |-> "none"]
           p == n.pool + Cardinality(Capabilities(n, e))
<1>2. z \in [Apps -> Status] /\ \A a \in Apps : z[a] = "none"
  BY DEF Status
<1>3. edge_info_capability_clear(n, e) = [n EXCEPT !.cap[e] = z, !.pool = p]
  BY DEF edge_info_capability_clear, edge_resource_free
<1>4. p \in Nat
  BY <1>1 DEF NodeType
<1> HIDE DEF z
<1>5. n.cap \in [Edges -> [Apps -> Status]]
  BY DEF NodeType
<1>6. LET k == [n.cap EXCEPT ![e] = z]
      IN  k \in [Edges -> [Apps -> Status]] /\ k[e] = z /\ \A f \in Edges : f # e => k[f] = n.cap[f]
  BY <1>2, <1>5
<1>7. LET m == [n EXCEPT !.cap[e] = z, !.pool = p]
      IN  /\ m \in NodeType /\ m.list = n.list /\ m.active = n.active /\ m.running = n.running
          /\ m.pool = p /\ m.cap = [n.cap EXCEPT ![e] = z]
  <2> HIDE DEF p
  <2> QED
    BY <1>4, <1>6 DEF NodeType
<1> QED
  BY <1>2, <1>3, <1>6, <1>7

(* Memory given back is accounted for. *)
LEMMA ClearOK ==
    ASSUME NEW n, NodeOK(n), NEW e \in Edges
    PROVE  NodeOK(edge_info_capability_clear(n, e))
<1> DEFINE m == edge_info_capability_clear(n, e)
           C == Capabilities(n, e)
           D == {e} \X C
<1>0. n \in NodeType /\ IsFiniteSet(C)
  BY DEF NodeOK
<1>1. /\ m \in NodeType /\ m.list = n.list /\ m.pool = n.pool + Cardinality(C)
      /\ \A a \in Apps : m.cap[e][a] = "none"
      /\ \A f \in Edges : f # e => m.cap[f] = n.cap[f]
  BY <1>0, ClearFields
<1>2. IsFiniteSet(D) /\ Cardinality(D) = Cardinality(C) /\ Cardinality(C) \in Nat
  <2>1. IsFiniteSet({e}) /\ Cardinality({e}) = 1 /\ Cardinality(C) \in Nat
    BY <1>0, FS_Singleton, FS_CardinalityType
  <2>2. IsFiniteSet(D) /\ Cardinality(D) = Cardinality({e}) * Cardinality(C)
    BY <1>0, <2>1, FS_Product
  <2> QED
    BY <2>1, <2>2
<1> HIDE DEF m
<1>3. Owned(m) = Owned(n) \ D
  BY <1>1 DEF Owned, Capabilities
<1>4. D \subseteq Owned(n)
  BY DEF Owned, Capabilities
<1>5. IsFiniteSet(Owned(m)) /\ Cardinality(Owned(m)) = Cardinality(Owned(n)) - Cardinality(D)
  <2>1. Owned(n) \cap D = D /\ IsFiniteSet(Owned(n))
    BY <1>4 DEF NodeOK
  <2> HIDE DEF D
  <2> QED
    BY <1>3, <2>1, FS_Difference
<1>6. Cardinality(Owned(n)) \in Nat /\ n.pool \in Nat /\ n.pool + Cardinality(Owned(n)) = NumEdgeResources * NumEdgeCapabilities
  BY FS_CardinalityType DEF NodeOK, NodeType
<1>7. m.pool + Cardinality(Owned(m)) = NumEdgeResources * NumEdgeCapabilities
  BY <1>1, <1>2, <1>5, <1>6
<1>8. \A f \in Edges : Capabilities(m, f) = IF f = e THEN {} ELSE Capabilities(n, f)
  BY <1>1 DEF Capabilities
<1>9. \A f : Known(m, f) <=> Known(n, f)
  BY <1>1 DEF Known
<1>10. \A f \in Edges : /\ ~Known(m, f) => Capabilities(m, f) = {}
                        /\ IsFiniteSet(Capabilities(m, f))
                        /\ Cardinality(Capabilities(m, f)) <= NumEdgeCapabilities
  <2> SUFFICES ASSUME NEW f \in Edges
               PROVE  /\ ~Known(m, f) => Capabilities(m, f) = {}
                      /\ IsFiniteSet(Capabilities(m, f))
                      /\ Cardinality(Capabilities(m, f)) <= NumEdgeCapabilities
    OBVIOUS
  <2>1. CASE f = e
    <3>1. Capabilities(m, f) = {}
      BY <1>8, <2>1
    <3> QED
      BY <3>1, FS_EmptySet, Limits
  <2>2. CASE f # e
    <3>1. Capabilities(m, f) = Capabilities(n, f)
      BY <1>8, <2>2
    <3> QED
      BY <1>9, <3>1 DEF NodeOK
  <2> QED
    BY <2>1, <2>2
<1> QED
  BY <1>1, <1>5, <1>7, <1>10 DEF NodeOK, m

(* An Edge that is dropped leaves the list, and nobody else does. *)
LEMMA RemoveOK ==
    ASSUME NEW n, NodeOK(n), NEW e \in Edges, Known(n, e)
    PROVE  LET m == edge_info_remove(n, e)
           IN  /\ NodeOK(m) /\ Len(m.list) = Len(n.list) - 1
               /\ ToSet(m.list) = ToSet(n.list) \ {e}
               /\ m.running = n.running
               /\ ~m.active[e] /\ \A f \in Edges : f # e => m.active[f] = n.active[f]
               /\ \A a \in Apps : m.cap[e][a] = "none"
               /\ \A f \in Edges : f # e => m.cap[f] = n.cap[f]
<1> DEFINE c == edge_info_capability_clear(n, e)
           i == CHOOSE j \in DOMAIN n.list : n.list[j] = e
           m == edge_info_remove(n, e)
<1>0. n \in NodeType /\ IsFiniteSet(Capabilities(n, e)) /\ n.list \in Seq(Edges) /\ IsInjective(n.list)
  BY DEF NodeOK, NodeType
<1>1. /\ c \in NodeType /\ c.list = n.list /\ c.active = n.active /\ c.running = n.running
      /\ \A a \in Apps : c.cap[e][a] = "none"
      /\ \A f \in Edges : f # e => c.cap[f] = n.cap[f]
  BY <1>0, ClearFields
<1>2. NodeOK(c)
  BY ClearOK
<1>3. i \in DOMAIN n.list /\ n.list[i] = e
  BY DEF Known, ToSet
<1>4. i \in 1..Len(n.list) /\ Len(n.list) \in Nat
  BY <1>0, <1>3, LenProperties
<1>5. m = [c EXCEPT !.list = RemoveAt(@, i), !.active[e] = FALSE]
  BY DEF edge_info_remove
<1> HIDE DEF c, i, m
<1>6. LET t == RemoveAt(n.list, i)
      IN  /\ t \in Seq(Edges) /\ Len(t) = Len(n.list) - 1
          /\ IsInjective(t) /\ ToSet(t) = ToSet(n.list) \ {e}
  BY <1>0, <1>3, <1>4, RemoveFromList
<1>7. /\ m \in NodeType /\ m.list = RemoveAt(n.list, i) /\ m.active = [n.active EXCEPT ![e] = FALSE]
      /\ m.cap = c.cap /\ m.pool = c.pool /\ m.running = n.running
  BY <1>1, <1>5, <1>6 DEF NodeType
<1>8. Owned(m) = Owned(c) /\ \A f \in Edges : Capabilities(m, f) = Capabilities(c, f)
  BY <1>7 DEF Owned, Capabilities
<1>9. \A f \in Edges : ~Known(m, f) => Capabilities(m, f) = {}
  <2> SUFFICES ASSUME NEW f \in Edges, ~Known(m, f) PROVE Capabilities(m, f) = {}
    OBVIOUS
  <2>1. f = e \/ ~Known(c, f)
    BY <1>1, <1>6, <1>7 DEF Known
  <2>2. CASE f = e
    BY <1>1, <1>7, <2>2 DEF Capabilities
  <2>3. CASE ~Known(c, f)
    BY <1>2, <1>8, <2>3 DEF NodeOK
  <2> QED
    BY <2>1, <2>2, <2>3
<1>10. Len(m.list) <= NumEdgeResources
  BY <1>4, <1>6, <1>7, Limits DEF NodeOK
<1>11. NodeOK(m)
  BY <1>2, <1>6, <1>7, <1>8, <1>9, <1>10 DEF NodeOK
<1>12. ~m.active[e] /\ \A f \in Edges : f # e => m.active[f] = n.active[f]
  BY <1>0, <1>7 DEF NodeType
<1> QED
  BY <1>1, <1>6, <1>7, <1>11, <1>12 DEF m

(* The other Edges stay as they are, but one that is not active may go. *)
OthersKept(n, m, e) ==
    \A f \in Edges : f # e => /\ m.active[f] = n.active[f]
                              /\ Known(m, f) => Known(n, f)
                              /\ Known(n, f) /\ n.active[f] => Known(m, f)

(* What room for an Edge costs the others. *)
Grown(n, m, e) ==
    /\ m.running = n.running
    /\ OthersKept(n, m, e)
    /\ \A f \in Edges : \/ m.cap[f] = n.cap[f]
                        \/ f # e /\ ~n.active[f] /\ \A a \in Apps : m.cap[f][a] = "none"
    /\ Known(n, e) => Known(m, e)

LEMMA GrownSelf ==
    ASSUME NEW n, NEW e
    PROVE  Grown(n, n, e)
  BY DEF Grown, OthersKept

LEMMA FreeUpOK ==
    ASSUME NEW n, NodeOK(n), NEW e \in Edges, ~Known(n, e)
    PROVE  LET m == free_up_edge_resource(n)
           IN  NodeOK(m) /\ Grown(n, m, e) /\ ~Known(m, e) /\ m.active = n.active
<1> DEFINE m == free_up_edge_resource(n)
<1>0. n \in NodeType /\ n.list \in Seq(Edges) /\ n.active \in [Edges -> BOOLEAN]
  BY DEF NodeOK, NodeType
<1>1. CASE Inactive(n) = {}
  <2>1. m = n
    BY <1>1 DEF free_up_edge_resource
  <2> HIDE DEF m
  <2> QED
    BY <2>1, GrownSelf DEF m
<1>2. CASE Inactive(n) # {}
  <2> DEFINE i == Min(Inactive(n))
             g == n.list[i]
  <2>1. Inactive(n) \subseteq Nat
    BY <1>0, LenProperties DEF Inactive
  <2>2. i \in Inactive(n)
    BY <1>2, <2>1, MinIsMember
  <2>3. i \in DOMAIN n.list /\ ~n.active[g]
    BY <2>2 DEF Inactive
  <2>4. g \in Edges
    BY <1>0, <2>3, LenProperties
  <2>5. Known(n, g) /\ g # e
    BY <2>3 DEF Known, ToSet
  <2>6. m = edge_info_remove(n, g)
    BY <1>2 DEF free_up_edge_resource
  <2> HIDE DEF g, m, i
  <2>7. /\ NodeOK(m)
        /\ ToSet(m.list) = ToSet(n.list) \ {g}
        /\ m.running = n.running
        /\ ~m.active[g] /\ \A f \in Edges : f # g => m.active[f] = n.active[f]
        /\ \A a \in Apps : m.cap[g][a] = "none"
        /\ \A f \in Edges : f # g => m.cap[f] = n.cap[f]
    BY <2>4, <2>5, <2>6, RemoveOK
  <2>8. m.active = n.active
    <3>1. m.active \in [Edges -> BOOLEAN]
      BY <2>7 DEF NodeOK, NodeType
    <3>2. \A f \in Edges : m.active[f] = n.active[f]
      BY <1>0, <2>3, <2>4, <2>7, <3>1
    <3> QED
      BY <1>0, <3>1, <3>2
  <2>9. \A f : Known(m, f) <=> Known(n, f) /\ f # g
    BY <2>7 DEF Known
  <2>10. \A f \in Edges : \/ m.cap[f] = n.cap[f]
                          \/ f # e /\ ~n.active[f] /\ \A a \in Apps : m.cap[f][a] = "none"
    BY <2>3, <2>5, <2>7
  <2>11. Grown(n, m, e) /\ ~Known(m, e)
    BY <2>3, <2>7, <2>8, <2>9, <2>10 DEF Grown, OthersKept
  <2> QED
    BY <2>7, <2>8, <2>11 DEF m
<1> QED
  BY <1>1, <1>2

LEMMA AddOK ==
    ASSUME NEW n, NodeOK(n), NEW e \in Edges
    PROVE  LET m == edge_info_add(n, e)
           IN  NodeOK(m) /\ Grown(n, m, e) /\ (Known(n, e) => m = n)
<1> DEFINE k == IF Len(n.list) < NumEdgeResources THEN n ELSE free_up_edge_resource(n)
           m == edge_info_add(n, e)
<1>1. CASE m = n
  <2> HIDE DEF m
  <2> QED
    BY <1>1, GrownSelf DEF m
<1>2. CASE ~Known(n, e) /\ Len(k.list) # NumEdgeResources /\ m = [k EXCEPT !.list = <<e>> \o @]
  <2>1. NodeOK(k) /\ Grown(n, k, e) /\ ~Known(k, e)
    <3>1. CASE Len(n.list) < NumEdgeResources
      <4>1. k = n
        BY <3>1
      <4> HIDE DEF k
      <4> QED
        BY <1>2, <4>1, GrownSelf
    <3>2. CASE ~(Len(n.list) < NumEdgeResources)
      <4>1. k = free_up_edge_resource(n)
        BY <3>2
      <4> HIDE DEF k
      <4> QED
        BY <1>2, <4>1, FreeUpOK
    <3> QED
      BY <3>1, <3>2
  <2> HIDE DEF k, m
  <2>2. /\ k \in NodeType /\ k.list \in Seq(Edges) /\ IsInjective(k.list) /\ e \notin ToSet(k.list)
        /\ Len(k.list) < NumEdgeResources /\ Len(k.list) \in Nat
    <3>1. k.list \in Seq(Edges) /\ k \in NodeType /\ Len(k.list) <= NumEdgeResources
      BY <2>1 DEF NodeOK, NodeType
    <3>2. Len(k.list) \in Nat
      BY <3>1, LenProperties
    <3> QED
      BY <1>2, <2>1, <3>1, <3>2, Limits DEF NodeOK, Known
  <2>3. LET t == <<e>> \o k.list
        IN  /\ t \in Seq(Edges) /\ Len(t) = Len(k.list) + 1
            /\ IsInjective(t) /\ ToSet(t) = ToSet(k.list) \cup {e}
    BY <2>2, AddToList
  <2>4. /\ m \in NodeType /\ m.list = <<e>> \o k.list /\ m.active = k.active /\ m.cap = k.cap
        /\ m.pool = k.pool /\ m.running = k.running
    BY <1>2, <2>2, <2>3 DEF NodeType
  <2>5. Owned(m) = Owned(k) /\ \A f \in Edges : Capabilities(m, f) = Capabilities(k, f)
    BY <2>4 DEF Owned, Capabilities
  <2>6. \A f : Known(m, f) <=> Known(k, f) \/ f = e
    BY <2>3, <2>4 DEF Known
  <2>7. Len(m.list) <= NumEdgeResources /\ IsInjective(m.list)
    BY <2>2, <2>3, <2>4, Limits
  <2>8. NodeOK(m)
    BY <2>1, <2>4, <2>5, <2>6, <2>7 DEF NodeOK
  <2>9. Grown(n, m, e)
    BY <2>1, <2>4, <2>6 DEF Grown, OthersKept
  <2> QED
    BY <1>2, <2>8, <2>9 DEF m
<1> QED
  BY <1>1, <1>2 DEF edge_info_add

(* An Edge whose certificate comes in is active, if there is room for it. *)
LEMMA CertificateOK ==
    ASSUME NEW n, NodeOK(n), NEW e \in Edges
    PROVE  LET m == process_certificate(n, e)
           IN  NodeOK(m) /\ Grown(n, m, e) /\ (Known(m, e) => m.active[e])
<1> DEFINE k == edge_info_add(n, e)
           m == process_certificate(n, e)
<1>1. NodeOK(k) /\ Grown(n, k, e)
  BY AddOK
<1>2. m = IF Known(k, e) THEN [k EXCEPT !.active[e] = TRUE] ELSE k
  BY DEF process_certificate
<1> HIDE DEF k, m
<1>3. CASE ~Known(k, e)
  BY <1>1, <1>2, <1>3 DEF m
<1>4. CASE Known(k, e)
  <2>1. k \in NodeType /\ k.active \in [Edges -> BOOLEAN]
    BY <1>1 DEF NodeOK, NodeType
  <2>2. /\ m \in NodeType /\ m.list = k.list /\ m.active = [k.active EXCEPT ![e] = TRUE] /\ m.cap = k.cap
        /\ m.pool = k.pool /\ m.running = k.running
    BY <1>2, <1>4, <2>1 DEF NodeType
  <2>3. SameBooks(k, m)
    BY <2>2 DEF SameBooks
  <2>4. NodeOK(m)
    BY <1>1, <2>2, <2>3, SameBooksOK
  <2>5. m.active[e] /\ \A f \in Edges : f # e => m.active[f] = k.active[f]
    BY <2>1, <2>2
  <2>6. \A f : Known(m, f) <=> Known(k, f)
    BY <2>2 DEF Known
  <2>7. Grown(n, m, e)
    BY <1>1, <2>2, <2>5, <2>6 DEF Grown, OthersKept
  <2> QED
    BY <2>4, <2>5, <2>7 DEF m
<1> QED
  BY <1>3, <1>4

(* A capability takes memory that is free. *)
LEMMA CapabilityAddOK ==
    ASSUME NEW n, NodeOK(n), NEW e \in Edges, NEW a \in Apps, Known(n, e), n.cap[e][a] = "none"
    PROVE  LET m == edge_info_capability_add(n, e, a)
           IN  /\ NodeOK(m) /\ m.list = n.list /\ m.active = n.active /\ m.running = n.running
               /\ \A f \in Edges, b \in Apps : <<f, b>> # <<e, a>> => m.cap[f][b] = n.cap[f][b]
               /\ m.cap[e][a] # "active"
<1> DEFINE m == edge_info_capability_add(n, e, a)
           C == Capabilities(n, e)
<1>0. /\ n \in NodeType /\ n.cap \in [Edges -> [Apps -> Status]] /\ n.pool \in Nat
      /\ IsFiniteSet(C) /\ Cardinality(C) <= NumEdgeCapabilities /\ Cardinality(C) \in Nat
      /\ IsFiniteSet(Owned(n)) /\ Cardinality(Owned(n)) \in Nat
  BY FS_CardinalityType DEF NodeOK, NodeType
<1>1. CASE m = n
  BY <1>1
<1>2. CASE /\ Cardinality(C) < NumEdgeCapabilities /\ n.pool # 0
           /\ m = [n EXCEPT !.cap[e][a] = "inactive", !.pool = @ - 1]
  <2> DEFINE k == [n.cap EXCEPT ![e][a] = "inactive"]
  <2>1. /\ k \in [Edges -> [Apps -> Status]] /\ k[e][a] = "inactive"
        /\ \A f \in Edges, b \in Apps : <<f, b>> # <<e, a>> => k[f][b] = n.cap[f][b]
    BY <1>0 DEF Status
  <2>2. n.pool - 1 \in Nat
    BY <1>0, <1>2
  <2>3. m = [n EXCEPT !.cap = k, !.pool = n.pool - 1]
    BY <1>0, <1>2 DEF NodeType
  <2> HIDE DEF k, m, C
  <2>4. /\ m \in NodeType /\ m.list = n.list /\ m.active = n.active /\ m.running = n.running
        /\ m.cap = k /\ m.pool = n.pool - 1
    BY <1>0, <2>1, <2>2, <2>3 DEF NodeType
  <2>5. Owned(m) = Owned(n) \cup {<<e, a>>} /\ <<e, a>> \notin Owned(n)
    BY <2>1, <2>4 DEF Owned
  <2>6. IsFiniteSet(Owned(m)) /\ Cardinality(Owned(m)) = Cardinality(Owned(n)) + 1
    <3> DEFINE S == Owned(n)
               x == <<e, a>>
    <3>1. IsFiniteSet(S) /\ x \notin S
      BY <1>0, <2>5
    <3> HIDE DEF S, x
    <3>2. IsFiniteSet(S \cup {x}) /\ Cardinality(S \cup {x}) = Cardinality(S) + 1
      BY <3>1, FS_AddElement
    <3>3. Owned(m) = S \cup {x} /\ S = Owned(n)
      BY <2>5 DEF S, x
    <3> QED
      BY <3>2, <3>3
  <2>7. \A f \in Edges : Capabilities(m, f) = IF f = e THEN C \cup {a} ELSE Capabilities(n, f)
    BY <2>1, <2>4 DEF Capabilities, C
  <2>8. IsFiniteSet(C \cup {a}) /\ Cardinality(C \cup {a}) <= NumEdgeCapabilities
    <3>1. IsFiniteSet(C \cup {a}) /\ (Cardinality(C \cup {a}) = Cardinality(C) \/ Cardinality(C \cup {a}) = Cardinality(C) + 1)
      BY <1>0, FS_AddElement
    <3>2. Cardinality(C) < NumEdgeCapabilities
      BY <1>2 DEF C
    <3> QED
      BY <1>0, <3>1, <3>2, Limits
  <2>9. \A f : Known(m, f) <=> Known(n, f)
    BY <2>4 DEF Known
  <2>10. m.pool + Cardinality(Owned(m)) = NumEdgeResources * NumEdgeCapabilities
    BY <1>0, <2>2, <2>4, <2>6 DEF NodeOK
  <2>11. ASSUME NEW f \in Edges
         PROVE  /\ ~Known(m, f) => Capabilities(m, f) = {}
                /\ IsFiniteSet(Capabilities(m, f))
                /\ Cardinality(Capabilities(m, f)) <= NumEdgeCapabilities
    BY <2>7, <2>8, <2>9 DEF NodeOK
  <2>12. NodeOK(m)
    BY <2>4, <2>6, <2>10, <2>11 DEF NodeOK
  <2> QED
    BY <2>1, <2>4, <2>12 DEF m
<1> QED
  BY <1>0, <1>1, <1>2, Limits DEF edge_info_capability_add

-----------------------------------------------------------------------------
(* The memory of capabilities. *)

(* The members of a finite set can be numbered. *)
LEMMA Numbering ==
    ASSUME NEW C, IsFiniteSet(C)
    PROVE  \E h \in [C -> 1..Cardinality(C)] : \A a, b \in C : h[a] = h[b] => a = b
<1>1. Cardinality(C) \in Nat /\ ExistsBijection(1..Cardinality(C), C)
  BY FS_CardinalityType
<1>2. PICK g : g \in Bijection(1..Cardinality(C), C)
  BY <1>1 DEF ExistsBijection
<1>3. \A a \in C : \E i \in 1..Cardinality(C) : g[i] = a
  BY <1>2 DEF Bijection, Surjection
<1> DEFINE h == [a \in C |-> CHOOSE i \in 1..Cardinality(C) : g[i] = a]
<1>4. \A a \in C : h[a] \in 1..Cardinality(C) /\ g[h[a]] = a
  BY <1>3
<1>5. h \in [C -> 1..Cardinality(C)]
  BY <1>4
<1> HIDE DEF h
<1> QED
  BY <1>4, <1>5

(* While an Edge that is listed may have another capability, not all of the   *)
(* memory can be taken: a capability is told apart by the place of its Edge   *)
(* in the list and its number among those of the Edge.                       *)
LEMMA PoolBound ==
    ASSUME NEW n, NodeOK(n), NEW e \in Edges, Known(n, e),
           Cardinality(Capabilities(n, e)) < NumEdgeCapabilities
    PROVE  n.pool > 0
<1> DEFINE C(f) == Capabilities(n, f)
           Numbers(f, h) == h \in [C(f) -> 1..Cardinality(C(f))] /\ \A a, b \in C(f) : h[a] = h[b] => a = b
           num == [f \in Edges |-> CHOOSE h : Numbers(f, h)]
           pos == [f \in Edges |-> CHOOSE j \in DOMAIN n.list : n.list[j] = f]
           P == 1..NumEdgeResources
           Q == 1..NumEdgeCapabilities
           place == [p \in Owned(n) |-> <<pos[p[1]], num[p[1]][p[2]]>>]
           hole == <<pos[e], NumEdgeCapabilities>>
<1>0. /\ n.list \in Seq(Edges) /\ Len(n.list) <= NumEdgeResources /\ Len(n.list) \in Nat /\ DOMAIN n.list = 1..Len(n.list)
      /\ n.pool \in Nat
  BY LenProperties DEF NodeOK, NodeType
<1>1. \A f \in Edges : IsFiniteSet(C(f)) /\ Cardinality(C(f)) <= NumEdgeCapabilities /\ Cardinality(C(f)) \in Nat
  BY FS_CardinalityType DEF NodeOK
<1>2. ASSUME NEW f \in Edges PROVE Numbers(f, num[f])
  <2>1. IsFiniteSet(C(f))
    BY <1>1
  <2> HIDE DEF C
  <2>2. \E h : Numbers(f, h)
    BY <2>1, Numbering
  <2> HIDE DEF Numbers
  <2> QED
    BY <2>2
<1>3. ASSUME NEW f \in Edges, Known(n, f) PROVE pos[f] \in P /\ n.list[pos[f]] = f
  <2>1. \E j \in DOMAIN n.list : n.list[j] = f
    BY <1>3 DEF Known, ToSet
  <2>2. pos[f] \in DOMAIN n.list /\ n.list[pos[f]] = f
    BY <2>1
  <2> HIDE DEF pos
  <2> QED
    BY <1>0, <2>2, Limits
<1>4. ASSUME NEW p \in Owned(n)
      PROVE  p[1] \in Edges /\ p[2] \in C(p[1]) /\ Known(n, p[1]) /\ p = <<p[1], p[2]>>
  <2>1. p \in Edges \X Apps /\ n.cap[p[1]][p[2]] # "none"
    BY DEF Owned
  <2>2. p[1] \in Edges /\ p[2] \in Apps /\ p = <<p[1], p[2]>>
    BY <2>1
  <2>3. p[2] \in C(p[1])
    BY <2>1, <2>2 DEF Capabilities
  <2>4. Known(n, p[1])
    BY <2>2, <2>3 DEF NodeOK
  <2> QED
    BY <2>2, <2>3, <2>4
<1> HIDE DEF pos, num
<1>5. ASSUME NEW f \in Edges, NEW a \in C(f) PROVE num[f][a] \in 1..Cardinality(C(f)) /\ num[f][a] \in Q
  <2>1. num[f][a] \in 1..Cardinality(C(f))
    BY <1>2
  <2> QED
    BY <1>1, <2>1, Limits
<1>6. place \in [Owned(n) -> (P \X Q) \ {hole}]
  <2> SUFFICES ASSUME NEW p \in Owned(n) PROVE <<pos[p[1]], num[p[1]][p[2]]>> \in (P \X Q) \ {hole}
    OBVIOUS
  <2>1. p[1] \in Edges /\ p[2] \in C(p[1]) /\ Known(n, p[1])
    BY <1>4
  <2>2. pos[p[1]] \in P /\ n.list[pos[p[1]]] = p[1] /\ n.list[pos[e]] = e
    BY <1>3, <2>1
  <2>3. num[p[1]][p[2]] \in 1..Cardinality(C(p[1])) /\ num[p[1]][p[2]] \in Q
    BY <1>5, <2>1
  <2>4. ASSUME pos[p[1]] = pos[e] PROVE num[p[1]][p[2]] # NumEdgeCapabilities
    <3>1. p[1] = e
      BY <2>2, <2>4
    <3>2. Cardinality(C(e)) < NumEdgeCapabilities /\ Cardinality(C(e)) \in Nat
      BY <1>1
    <3> QED
      BY <2>3, <3>1, <3>2, Limits
  <2> QED
    BY <2>2, <2>3, <2>4
<1>7. ASSUME NEW p \in Owned(n), NEW q \in Owned(n), place[p] = place[q] PROVE p = q
  <2>1. pos[p[1]] = pos[q[1]] /\ num[p[1]][p[2]] = num[q[1]][q[2]]
    BY <1>7
  <2>2. /\ p[1] \in Edges /\ p[2] \in C(p[1]) /\ Known(n, p[1]) /\ p = <<p[1], p[2]>>
        /\ q[1] \in Edges /\ q[2] \in C(q[1]) /\ Known(n, q[1]) /\ q = <<q[1], q[2]>>
    BY <1>4
  <2>3. p[1] = q[1]
    BY <1>3, <2>1, <2>2
  <2>4. p[2] = q[2]
    BY <1>2, <2>1, <2>2, <2>3
  <2> QED
    BY <2>2, <2>3, <2>4
<1>8. IsFiniteSet(P \X Q) /\ Cardinality(P \X Q) = NumEdgeResources * NumEdgeCapabilities
  <2>1. IsFiniteSet(P) /\ Cardinality(P) = NumEdgeResources /\ IsFiniteSet(Q) /\ Cardinality(Q) = NumEdgeCapabilities
    BY Limits, FS_Interval
  <2> HIDE DEF P, Q
  <2> QED
    BY <2>1, FS_Product
<1>9. hole \in P \X Q
  BY <1>3, Limits
<1>10. /\ IsFiniteSet((P \X Q) \ {hole})
       /\ Cardinality((P \X Q) \ {hole}) = NumEdgeResources * NumEdgeCapabilities - 1
  <2> HIDE DEF P, Q, hole
  <2> QED
    BY <1>8, <1>9, FS_RemoveElement
<1> HIDE DEF place, P, Q, hole
<1>11. place \in Injection(Owned(n), (P \X Q) \ {hole})
  <2>1. IsInjective(place)
    BY <1>6, <1>7 DEF IsInjective
  <2> QED
    BY <1>6, <2>1 DEF Injection
<1>12. Cardinality(Owned(n)) <= NumEdgeResources * NumEdgeCapabilities - 1 /\ Cardinality(Owned(n)) \in Nat
  <2>1. IsFiniteSet(Owned(n)) /\ Cardinality(Owned(n)) <= Cardinality((P \X Q) \ {hole})
    BY <1>10, <1>11, FS_Injection
  <2> QED
    BY <1>10, <2>1, FS_CardinalityType
<1>13. n.pool + Cardinality(Owned(n)) = NumEdgeResources * NumEdgeCapabilities
  BY DEF NodeOK
<1> QED
  BY <1>0, <1>12, <1>13, Limits

-----------------------------------------------------------------------------
(* What the applications have been told. *)

ActiveIfKnown(n, e) == Known(n, e) => n.active[e]

ActiveOnly(n) == \A e \in Edges, a \in Apps : n.cap[e][a] = "active" => n.active[e]

Serves(n, a) == \E e \in Edges : n.cap[e][a] = "active"

(* Only active Edges have active capabilities, and the applications that run  *)
(* are those some Edge serves.                                               *)
Told(n) == ActiveOnly(n) /\ \A a \in Apps : n.running[a] <=> Serves(n, a)

LEMMA OthersKeptTransitive ==
    ASSUME NEW n, NEW m, NEW k, NEW e, OthersKept(n, m, e), OthersKept(m, k, e)
    PROVE  OthersKept(n, k, e)
  BY DEF OthersKept

(* A capability belongs to an Edge that is listed. *)
LEMMA OwnerKnown ==
    ASSUME NEW n, NodeOK(n), NEW e \in Edges, NEW a \in Apps, n.cap[e][a] # "none"
    PROVE  Known(n, e)
  BY DEF NodeOK, Capabilities

LEMMA HasActive ==
    ASSUME NEW n, NodeOK(n), ActiveOnly(n), NEW a \in Apps
    PROVE  edge_info_has_active_capability(n, a) <=> Serves(n, a)
<1>1. ASSUME Serves(n, a) PROVE edge_info_has_active_capability(n, a)
  <2>1. PICK e \in Edges : n.cap[e][a] = "active"
    BY <1>1 DEF Serves
  <2>2. Known(n, e) /\ n.active[e]
    BY <2>1, OwnerKnown DEF ActiveOnly
  <2> QED
    BY <2>1, <2>2 DEF edge_info_has_active_capability, Known
<1>2. ASSUME edge_info_has_active_capability(n, a) PROVE Serves(n, a)
  <2>1. ToSet(n.list) \subseteq Edges
    BY LenProperties DEF NodeOK, NodeType, ToSet
  <2> QED
    BY <1>2, <2>1 DEF edge_info_has_active_capability, Serves
<1> QED
  BY <1>1, <1>2

LEMMA TellOK ==
    ASSUME NEW n, NodeOK(n), NEW as
    PROVE  LET m == Tell(n, as)
           IN  /\ NodeOK(m) /\ m.list = n.list /\ m.active = n.active /\ m.cap = n.cap /\ m.pool = n.pool
               /\ (ActiveOnly(n) /\ \A a \in Apps \ as : n.running[a] <=> Serves(n, a)) => Told(m)
<1> DEFINE m == Tell(n, as)
<1>0. n \in NodeType
  BY DEF NodeOK
<1>1. /\ m \in NodeType /\ m.list = n.list /\ m.active = n.active /\ m.cap = n.cap /\ m.pool = n.pool
      /\ \A a \in Apps : /\ a \in as => (m.running[a] <=> edge_info_has_active_capability(n, a))
                         /\ a \notin as => m.running[a] = n.running[a]
  BY <1>0, TellFields
<1> HIDE DEF m
<1>2. SameBooks(n, m)
  BY <1>1 DEF SameBooks
<1>3. NodeOK(m)
  BY <1>1, <1>2, SameBooksOK
<1>4. ASSUME ActiveOnly(n), \A a \in Apps \ as : n.running[a] <=> Serves(n, a) PROVE Told(m)
  <2>1. ActiveOnly(m) /\ \A a : Serves(m, a) <=> Serves(n, a)
    BY <1>1, <1>4 DEF ActiveOnly, Serves
  <2>2. ASSUME NEW a \in Apps PROVE m.running[a] <=> Serves(m, a)
    <3>1. CASE a \in as
      <4>1. edge_info_has_active_capability(n, a) <=> Serves(n, a)
        BY <1>4, HasActive
      <4> QED
        BY <1>1, <2>1, <3>1, <4>1
    <3>2. CASE a \notin as
      BY <1>1, <1>4, <2>1, <3>2
    <3> QED
      BY <3>1, <3>2
  <2> QED
    BY <2>1, <2>2 DEF Told
<1> QED
  BY <1>1, <1>3, <1>4 DEF m

(* Room made for an Edge is nothing an application would have to be told. *)
LEMMA CertificateTold ==
    ASSUME NEW n, NodeOK(n), NEW e \in Edges, Told(n)
    PROVE  Told(process_certificate(n, e))
<1> DEFINE m == process_certificate(n, e)
<1>1. NodeOK(m) /\ Grown(n, m, e) /\ (Known(m, e) => m.active[e])
  BY CertificateOK
<1> HIDE DEF m
<1>2. ASSUME NEW f \in Edges, NEW a \in Apps
      PROVE  m.cap[f][a] = "active" <=> n.cap[f][a] = "active"
  <2>1. n.cap[f][a] = "active" => n.active[f]
    BY DEF Told, ActiveOnly
  <2>2. m.cap[f] = n.cap[f] \/ (~n.active[f] /\ m.cap[f][a] = "none")
    BY <1>1 DEF Grown
  <2> QED
    BY <2>1, <2>2
<1>3. ActiveOnly(m)
  <2> SUFFICES ASSUME NEW f \in Edges, NEW a \in Apps, m.cap[f][a] = "active" PROVE m.active[f]
    BY DEF ActiveOnly
  <2>1. CASE f = e
    BY <1>1, <2>1, OwnerKnown
  <2>2. CASE f # e
    <3>1. n.active[f]
      BY <1>2 DEF Told, ActiveOnly
    <3>2. m.active[f] = n.active[f]
      BY <1>1, <2>2 DEF Grown, OthersKept
    <3> QED
      BY <3>1, <3>2
  <2> QED
    BY <2>1, <2>2
<1>4. \A a \in Apps : Serves(m, a) <=> Serves(n, a)
  BY <1>2 DEF Serves
<1>5. m.running = n.running
  BY <1>1 DEF Grown
<1> QED
  BY <1>3, <1>4, <1>5 DEF Told, m

(* Nor is a capability that was not active. *)
LEMMA DropTold ==
    ASSUME NEW n, NEW m, NEW e \in Edges, Told(n), m.running = n.running,
           \A f \in Edges, a \in Apps : f # e => m.cap[f][a] = n.cap[f][a] /\ m.active[f] = n.active[f],
           \A a \in Apps : n.cap[e][a] # "active" /\ m.cap[e][a] # "active"
    PROVE  Told(m)
<1>1. \A a \in Apps : Serves(m, a) <=> Serves(n, a)
  BY DEF Serves
<1>2. ActiveOnly(m)
  BY DEF Told, ActiveOnly
<1> QED
  BY <1>1, <1>2 DEF Told

-----------------------------------------------------------------------------
(* The handlers. *)

LEMMA UnannounceOK ==
    ASSUME NEW n, NodeOK(n), NEW e \in Edges, scenario.build \in Builds
    PROVE  LET h == mqtt_publish_unannounce_handler(n, e)
           IN  /\ NodeOK(h) /\ OthersKept(n, h, e) /\ (Told(n) => Told(h))
               /\ scenario.build = "aggressive" => ActiveIfKnown(h, e)
<1> DEFINE A == [n.active EXCEPT ![e] = FALSE]
           z == [a \in Apps |-> IF n.cap[e][a] = "none" THEN "none" ELSE "inactive"]
           K == [n.cap EXCEPT ![e] = z]
           off == [n EXCEPT !.active[e] = FALSE,
                            !.cap[e] = [a \in Apps |-> IF @[a] = "none" THEN "none" ELSE "inactive"]]
           told == Tell(off, Capabilities(n, e))
           h == mqtt_publish_unannounce_handler(n, e)
<1>0. n \in NodeType /\ n.active \in [Edges -> BOOLEAN] /\ n.cap \in [Edges -> [Apps -> Status]]
  BY DEF NodeOK, NodeType
<1>1. off = [n EXCEPT !.active = A, !.cap = K]
  BY <1>0 DEF NodeType
<1>2. CASE ~Known(n, e)
  <2>1. h = n
    BY <1>2 DEF mqtt_publish_unannounce_handler
  <2> HIDE DEF h
  <2>2. OthersKept(n, n, e)
    BY DEF OthersKept
  <2> QED
    BY <1>2, <2>1, <2>2 DEF ActiveIfKnown, h
<1>3. CASE Known(n, e)
  <2>1. /\ z \in [Apps -> Status] /\ \A a \in Apps : z[a] # "active" /\ (z[a] = "none" <=> n.cap[e][a] = "none")
    BY DEF Status
  <2>2. h = CASE scenario.build = "lazy"       -> told
              [] scenario.build = "default"    -> edge_info_capability_clear(told, e)
              [] scenario.build = "aggressive" -> edge_info_remove(told, e)
    BY <1>3 DEF mqtt_publish_unannounce_handler
  <2> HIDE DEF z
  <2>3. /\ K \in [Edges -> [Apps -> Status]] /\ K[e] = z /\ \A f \in Edges : f # e => K[f] = n.cap[f]
    BY <1>0, <2>1
  <2>4. A \in [Edges -> BOOLEAN] /\ ~A[e] /\ \A f \in Edges : f # e => A[f] = n.active[f]
    BY <1>0
  <2> HIDE DEF A, K, off
  <2>5. /\ off \in NodeType /\ off.list = n.list /\ off.pool = n.pool /\ off.running = n.running
        /\ off.active = A /\ off.cap = K
    BY <1>0, <1>1, <2>3, <2>4 DEF NodeType
  <2>6. NodeOK(off)
    <3>1. SameBooks(n, off)
      BY <2>1, <2>3, <2>5 DEF SameBooks
    <3> QED
      BY <2>5, <3>1, SameBooksOK
  <2>7. /\ NodeOK(told) /\ told.list = off.list /\ told.active = off.active /\ told.cap = off.cap
        /\ (ActiveOnly(off) /\ \A a \in Apps \ Capabilities(n, e) : off.running[a] <=> Serves(off, a)) => Told(told)
    BY <2>6, TellOK
  <2>8. ASSUME Told(n) PROVE Told(told)
    <3>1. ActiveOnly(off)
      BY <2>1, <2>3, <2>4, <2>5, <2>8 DEF Told, ActiveOnly
    <3>2. \A a \in Apps \ Capabilities(n, e) : n.cap[e][a] # "active" /\ off.cap[e][a] # "active"
      BY <2>1, <2>3, <2>5 DEF Capabilities
    <3>3. \A a \in Apps \ Capabilities(n, e) : Serves(off, a) <=> Serves(n, a)
      BY <2>3, <2>5, <3>2 DEF Serves
    <3> QED
      BY <2>5, <2>7, <2>8, <3>1, <3>3 DEF Told
  <2> HIDE DEF told, h
  <2>9. Known(told, e) /\ ~told.active[e] /\ \A a \in Apps : told.cap[e][a] # "active"
    BY <1>3, <2>1, <2>3, <2>4, <2>5, <2>7 DEF Known
  <2>10. OthersKept(n, told, e)
    BY <2>4, <2>5, <2>7 DEF OthersKept, Known
  <2>11. CASE scenario.build = "lazy"
    <3>1. h = told
      BY <2>2, <2>11
    <3> QED
      BY <2>7, <2>8, <2>10, <2>11, <3>1 DEF h
  <2>12. CASE scenario.build = "default"
    <3>1. h = edge_info_capability_clear(told, e)
      BY <2>2, <2>12
    <3>2. told \in NodeType /\ IsFiniteSet(Capabilities(told, e))
      BY <2>7 DEF NodeOK
    <3>3. /\ h.list = told.list /\ h.active = told.active /\ h.running = told.running
          /\ \A a \in Apps : h.cap[e][a] = "none"
          /\ \A f \in Edges : f # e => h.cap[f] = told.cap[f]
      BY <3>1, <3>2, ClearFields
    <3>4. NodeOK(h)
      BY <2>7, <3>1, ClearOK
    <3>5. OthersKept(n, h, e)
      BY <2>10, <3>3 DEF OthersKept, Known
    <3>6. Told(told) => Told(h)
      BY <2>9, <3>3, DropTold
    <3> QED
      BY <2>8, <2>12, <3>4, <3>5, <3>6 DEF h
  <2>13. CASE scenario.build = "aggressive"
    <3>1. h = edge_info_remove(told, e)
      BY <2>2, <2>13
    <3>2. /\ NodeOK(h)
          /\ ToSet(h.list) = ToSet(told.list) \ {e}
          /\ h.running = told.running
          /\ ~h.active[e] /\ \A f \in Edges : f # e => h.active[f] = told.active[f]
          /\ \A a \in Apps : h.cap[e][a] = "none"
          /\ \A f \in Edges : f # e => h.cap[f] = told.cap[f]
      <4>1. NodeOK(told) /\ Known(told, e)
        BY <2>7, <2>9
      <4> QED
        BY <3>1, <4>1, RemoveOK
    <3>3. \A f \in Edges : f # e => h.active[f] = told.active[f]
      BY <3>2
    <3>4. \A f : Known(h, f) <=> Known(told, f) /\ f # e
      BY <3>2 DEF Known
    <3>5. OthersKept(n, h, e)
      BY <2>10, <3>3, <3>4 DEF OthersKept
    <3>6. Told(told) => Told(h)
      BY <2>9, <3>2, <3>3, DropTold
    <3>7. ActiveIfKnown(h, e)
      BY <3>4 DEF ActiveIfKnown
    <3> QED
      BY <2>8, <3>2, <3>5, <3>6, <3>7 DEF h
  <2> QED
    BY <2>11, <2>12, <2>13 DEF Builds
<1> QED
  BY <1>2, <1>3

(* What every handler begins with. *)
LEMMA CertifiedOK ==
    ASSUME NEW n, NodeOK(n), NEW e \in Edges, NEW m
    PROVE  LET c == Certified(n, e, m)
           IN  /\ NodeOK(c) /\ OthersKept(n, c, e) /\ (Told(n) => Told(c))
               /\ (m.certificate \/ ActiveIfKnown(n, e)) => ActiveIfKnown(c, e)
<1> DEFINE c == Certified(n, e, m)
<1>1. CASE m.certificate
  <2>1. c = process_certificate(n, e)
    BY <1>1 DEF Certified
  <2> HIDE DEF c
  <2>2. NodeOK(c) /\ Grown(n, c, e) /\ (Known(c, e) => c.active[e])
    BY <2>1, CertificateOK
  <2>3. Told(n) => Told(c)
    BY <2>1, CertificateTold
  <2> QED
    BY <2>2, <2>3 DEF Grown, ActiveIfKnown, c
<1>2. CASE ~m.certificate
  <2>1. c = n
    BY <1>2 DEF Certified
  <2> HIDE DEF c
  <2>2. OthersKept(n, n, e)
    BY DEF OthersKept
  <2> QED
    BY <1>2, <2>1, <2>2 DEF c
<1> QED
  BY <1>1, <1>2

(* A capability that is kept changes no books. *)
LEMMA SetStatus ==
    ASSUME NEW n, NodeOK(n), NEW e \in Edges, NEW a \in Apps, n.cap[e][a] # "none",
           NEW v \in {"inactive", "active"}, NEW m, m = [n EXCEPT !.cap[e][a] = v]
    PROVE  /\ NodeOK(m) /\ m.list = n.list /\ m.active = n.active /\ m.running = n.running /\ m.pool = n.pool
           /\ m.cap[e][a] = v
           /\ \A f \in Edges, b \in Apps : <<f, b>> # <<e, a>> => m.cap[f][b] = n.cap[f][b]
<1> DEFINE k == [n.cap EXCEPT ![e][a] = v]
<1>0. n \in NodeType /\ n.cap \in [Edges -> [Apps -> Status]]
  BY DEF NodeOK, NodeType
<1>1. /\ k \in [Edges -> [Apps -> Status]] /\ k[e][a] = v
      /\ \A f \in Edges, b \in Apps : <<f, b>> # <<e, a>> => k[f][b] = n.cap[f][b]
  BY <1>0 DEF Status
<1>2. m = [n EXCEPT !.cap = k]
  BY <1>0 DEF NodeType
<1> HIDE DEF k
<1>3. /\ m \in NodeType /\ m.list = n.list /\ m.active = n.active /\ m.running = n.running /\ m.pool = n.pool
      /\ m.cap = k
  BY <1>0, <1>1, <1>2 DEF NodeType
<1>4. SameBooks(n, m)
  BY <1>1, <1>3 DEF SameBooks
<1>5. NodeOK(m)
  BY <1>3, <1>4, SameBooksOK
<1> QED
  BY <1>1, <1>3, <1>5

Dropped(n, e, a) == [n EXCEPT !.cap[e][a] = "none", !.pool = @ + 1]

(* One that is dropped gives its memory back. *)
LEMMA DropCapability ==
    ASSUME NEW n, NodeOK(n), NEW e \in Edges, NEW a \in Apps, n.cap[e][a] # "none",
           NEW m, m = Dropped(n, e, a)
    PROVE  /\ NodeOK(m) /\ m.list = n.list /\ m.active = n.active /\ m.running = n.running
           /\ m.cap[e][a] = "none"
           /\ \A f \in Edges, b \in Apps : <<f, b>> # <<e, a>> => m.cap[f][b] = n.cap[f][b]
<1> DEFINE p == n.pool + 1
           k == [n.cap EXCEPT ![e][a] = "none"]
           C == Capabilities(n, e)
<1>0. /\ n \in NodeType /\ n.cap \in [Edges -> [Apps -> Status]] /\ n.pool \in Nat
      /\ IsFiniteSet(C) /\ Cardinality(C) <= NumEdgeCapabilities /\ Cardinality(C) \in Nat
      /\ IsFiniteSet(Owned(n)) /\ Cardinality(Owned(n)) \in Nat
  BY FS_CardinalityType DEF NodeOK, NodeType
<1>1. /\ k \in [Edges -> [Apps -> Status]] /\ k[e][a] = "none"
      /\ \A f \in Edges, b \in Apps : <<f, b>> # <<e, a>> => k[f][b] = n.cap[f][b]
  BY <1>0 DEF Status
<1>2. m = [n EXCEPT !.cap = k, !.pool = p] /\ p \in Nat
  BY <1>0 DEF NodeType, Dropped
<1> HIDE DEF k, C, p
<1>3. /\ m \in NodeType /\ m.list = n.list /\ m.active = n.active /\ m.running = n.running
      /\ m.cap = k /\ m.pool = p
  BY <1>0, <1>1, <1>2 DEF NodeType
<1>4. Owned(m) = Owned(n) \ {<<e, a>>} /\ <<e, a>> \in Owned(n)
  BY <1>1, <1>3 DEF Owned
<1>5. IsFiniteSet(Owned(m)) /\ Cardinality(Owned(m)) = Cardinality(Owned(n)) - 1
  <2> DEFINE S == Owned(n)
             x == <<e, a>>
  <2>1. IsFiniteSet(S) /\ x \in S
    BY <1>0, <1>4
  <2> HIDE DEF S, x
  <2>2. IsFiniteSet(S \ {x}) /\ Cardinality(S \ {x}) = Cardinality(S) - 1
    BY <2>1, FS_RemoveElement
  <2>3. Owned(m) = S \ {x} /\ S = Owned(n)
    BY <1>4 DEF S, x
  <2> QED
    BY <2>2, <2>3
<1>6. \A f \in Edges : Capabilities(m, f) = IF f = e THEN C \ {a} ELSE Capabilities(n, f)
  BY <1>1, <1>3 DEF Capabilities, C
<1>7. IsFiniteSet(C \ {a}) /\ Cardinality(C \ {a}) <= NumEdgeCapabilities
  <2>1. IsFiniteSet(C \ {a}) /\ (Cardinality(C \ {a}) = Cardinality(C) \/ Cardinality(C \ {a}) = Cardinality(C) - 1)
    BY <1>0, FS_RemoveElement
  <2> QED
    BY <1>0, <2>1, Limits
<1>8. \A f : Known(m, f) <=> Known(n, f)
  BY <1>3 DEF Known
<1>9. m.pool + Cardinality(Owned(m)) = NumEdgeResources * NumEdgeCapabilities
  <2>1. n.pool + Cardinality(Owned(n)) = NumEdgeResources * NumEdgeCapabilities
    BY DEF NodeOK
  <2>2. m.pool = n.pool + 1
    BY <1>3 DEF p
  <2> QED
    BY <1>0, <1>5, <2>1, <2>2
<1>10. ASSUME NEW f \in Edges
       PROVE  /\ ~Known(m, f) => Capabilities(m, f) = {}
              /\ IsFiniteSet(Capabilities(m, f))
              /\ Cardinality(Capabilities(m, f)) <= NumEdgeCapabilities
  <2>1. Known(n, e)
    BY OwnerKnown
  <2> QED
    BY <1>6, <1>7, <1>8, <2>1 DEF NodeOK
<1>11. NodeOK(m)
  BY <1>3, <1>5, <1>9, <1>10 DEF NodeOK
<1> QED
  BY <1>1, <1>3, <1>11

LEMMA AddHandlerOK ==
    ASSUME NEW n, NodeOK(n), NEW e \in Edges, NEW m, m.app \in Apps
    PROVE  LET g == mqtt_publish_capability_add_handler(n, e, m)
           IN  /\ NodeOK(g) /\ OthersKept(n, g, e)
               /\ (m.certificate \/ ActiveIfKnown(n, e)) => ActiveIfKnown(g, e) /\ (Told(n) => Told(g))
<1> DEFINE a == m.app
           c == Certified(n, e, m)
           k == IF Known(c, e) THEN c ELSE process_certificate(c, e)
           h == IF Known(k, e) /\ k.cap[e][a] = "none" THEN edge_info_capability_add(k, e, a) ELSE k
           s == [h EXCEPT !.cap[e][a] = "active"]
           g == mqtt_publish_capability_add_handler(n, e, m)
           Heeded == m.certificate \/ ActiveIfKnown(n, e)
<1>0. a \in Apps
  OBVIOUS
<1>1. g = IF h.cap[e][a] # "inactive" THEN h ELSE Tell(s, {a})
  BY DEF mqtt_publish_capability_add_handler
<1> HIDE DEF a, g
<1>2. NodeOK(c) /\ OthersKept(n, c, e) /\ (Told(n) => Told(c)) /\ (Heeded => ActiveIfKnown(c, e))
  BY CertifiedOK
<1> HIDE DEF c, Heeded
<1>3. NodeOK(k) /\ OthersKept(n, k, e) /\ (Told(n) => Told(k)) /\ (Heeded => ActiveIfKnown(k, e))
  <2>1. CASE Known(c, e)
    <3>1. k = c
      BY <2>1
    <3> QED
      BY <1>2, <3>1
  <2>2. CASE ~Known(c, e)
    <3>1. k = process_certificate(c, e)
      BY <2>2
    <3> HIDE DEF k
    <3>2. NodeOK(k) /\ Grown(c, k, e) /\ (Known(k, e) => k.active[e])
      BY <1>2, <3>1, CertificateOK
    <3>3. Told(c) => Told(k)
      BY <1>2, <3>1, CertificateTold
    <3>4. OthersKept(c, k, e) /\ ActiveIfKnown(k, e)
      BY <3>2 DEF Grown, ActiveIfKnown
    <3>5. OthersKept(n, k, e)
      BY <1>2, <3>4, OthersKeptTransitive
    <3> QED
      BY <1>2, <3>2, <3>3, <3>4, <3>5
  <2> QED
    BY <2>1, <2>2
<1> HIDE DEF k
<1>4. /\ NodeOK(h) /\ h.list = k.list /\ h.active = k.active /\ h.running = k.running
      /\ \A f \in Edges, b \in Apps : h.cap[f][b] = "active" <=> k.cap[f][b] = "active"
  <2>1. CASE Known(k, e) /\ k.cap[e][a] = "none"
    <3>1. h = edge_info_capability_add(k, e, a)
      BY <2>1
    <3> HIDE DEF h
    <3>2. /\ NodeOK(h) /\ h.list = k.list /\ h.active = k.active /\ h.running = k.running
          /\ \A f \in Edges, b \in Apps : <<f, b>> # <<e, a>> => h.cap[f][b] = k.cap[f][b]
          /\ h.cap[e][a] # "active"
      BY <1>0, <1>3, <2>1, <3>1, CapabilityAddOK
    <3> QED
      BY <2>1, <3>2
  <2>2. CASE ~(Known(k, e) /\ k.cap[e][a] = "none")
    <3>1. h = k
      BY <2>2
    <3> HIDE DEF h
    <3> QED
      BY <1>3, <3>1
  <2> QED
    BY <2>1, <2>2
<1> HIDE DEF h
<1>5. \A f : Known(h, f) <=> Known(k, f)
  BY <1>4 DEF Known
<1>6. OthersKept(n, h, e)
  BY <1>3, <1>4, <1>5 DEF OthersKept
<1>7. Heeded => ActiveIfKnown(h, e)
  BY <1>3, <1>4, <1>5 DEF ActiveIfKnown
<1>8. Told(n) => Told(h)
  <2>1. (\A b \in Apps : Serves(h, b) <=> Serves(k, b)) /\ (ActiveOnly(k) => ActiveOnly(h))
    BY <1>4 DEF Serves, ActiveOnly
  <2> QED
    BY <1>3, <1>4, <2>1 DEF Told
<1>9. CASE h.cap[e][a] # "inactive"
  <2>1. g = h
    BY <1>1, <1>9
  <2> QED
    BY <1>4, <1>6, <1>7, <1>8, <2>1 DEF g, Heeded
<1>10. CASE h.cap[e][a] = "inactive"
  <2>1. g = Tell(s, {a})
    BY <1>1, <1>10
  <2>0. s = [h EXCEPT !.cap[e][a] = "active"] /\ h.cap[e][a] # "none"
    BY <1>10
  <2> HIDE DEF s
  <2>2. /\ NodeOK(s) /\ s.list = h.list /\ s.active = h.active /\ s.running = h.running
        /\ s.cap[e][a] = "active"
        /\ \A f \in Edges, b \in Apps : <<f, b>> # <<e, a>> => s.cap[f][b] = h.cap[f][b]
    BY <1>0, <1>4, <2>0, SetStatus
  <2>3. /\ NodeOK(g) /\ g.list = s.list /\ g.active = s.active
        /\ (ActiveOnly(s) /\ \A b \in Apps \ {a} : s.running[b] <=> Serves(s, b)) => Told(g)
    BY <2>1, <2>2, TellOK
  <2>4. \A f : Known(g, f) <=> Known(h, f)
    BY <2>2, <2>3 DEF Known
  <2>5. OthersKept(n, g, e)
    BY <1>6, <2>2, <2>3, <2>4 DEF OthersKept
  <2>6. Heeded => ActiveIfKnown(g, e)
    BY <1>7, <2>2, <2>3, <2>4 DEF ActiveIfKnown
  <2>7. ASSUME Heeded, Told(n) PROVE Told(g)
    <3>1. h.active[e]
      <4>1. Known(h, e)
        BY <1>0, <1>4, <1>10, OwnerKnown
      <4> QED
        BY <1>7, <2>7, <4>1 DEF ActiveIfKnown
    <3>2. ActiveOnly(s)
      BY <1>8, <2>2, <2>7, <3>1 DEF Told, ActiveOnly
    <3>3. \A b \in Apps \ {a} : Serves(s, b) <=> Serves(h, b)
      BY <2>2 DEF Serves
    <3> QED
      BY <1>8, <2>2, <2>3, <2>7, <3>2, <3>3 DEF Told
  <2> QED
    BY <2>3, <2>5, <2>6, <2>7 DEF g, Heeded
<1> QED
  BY <1>9, <1>10

LEMMA RemoveHandlerOK ==
    ASSUME NEW n, NodeOK(n), NEW e \in Edges, NEW m, m.app \in Apps
    PROVE  LET g == mqtt_publish_capability_remove_handler(n, e, m)
           IN  /\ NodeOK(g) /\ OthersKept(n, g, e)
               /\ (m.certificate \/ ActiveIfKnown(n, e)) => ActiveIfKnown(g, e)
               /\ Told(n) => Told(g)
<1> DEFINE a == m.app
           c == Certified(n, e, m)
           q == [c EXCEPT !.cap[e][a] = "inactive"]
           t == Tell(q, {a})
           r == [t EXCEPT !.cap[e][a] = "none", !.pool = @ + 1]
           g == mqtt_publish_capability_remove_handler(n, e, m)
           Heeded == m.certificate \/ ActiveIfKnown(n, e)
           Good(x) == NodeOK(x) /\ OthersKept(n, x, e) /\ (Heeded => ActiveIfKnown(x, e)) /\ (Told(n) => Told(x))
<1>0. a \in Apps
  OBVIOUS
<1>1. g = IF ~Known(c, e) \/ c.cap[e][a] = "none" THEN c
          ELSE CASE scenario.build = "lazy" -> t
                 [] scenario.build = "aggressive" /\ Capabilities(r, e) = {} -> edge_info_remove(r, e)
                 [] OTHER -> r
  BY DEF mqtt_publish_capability_remove_handler
<1> HIDE DEF a, g
<1>2. Good(c)
  BY CertifiedOK
<1> HIDE DEF c, Heeded
<1>3. CASE ~Known(c, e) \/ c.cap[e][a] = "none"
  <2>1. g = c
    BY <1>1, <1>3
  <2> QED
    BY <1>2, <2>1 DEF g, Heeded
<1>4. CASE Known(c, e) /\ c.cap[e][a] # "none"
  <2>1. q = [c EXCEPT !.cap[e][a] = "inactive"] /\ t = Tell(q, {a}) /\ r = [t EXCEPT !.cap[e][a] = "none", !.pool = @ + 1]
    OBVIOUS
  <2> HIDE DEF q, t, r
  <2>2. /\ NodeOK(q) /\ q.list = c.list /\ q.active = c.active /\ q.running = c.running
        /\ q.cap[e][a] = "inactive"
        /\ \A f \in Edges, b \in Apps : <<f, b>> # <<e, a>> => q.cap[f][b] = c.cap[f][b]
    BY <1>0, <1>2, <1>4, <2>1, SetStatus
  <2>3. /\ NodeOK(t) /\ t.list = q.list /\ t.active = q.active /\ t.cap = q.cap
        /\ (ActiveOnly(q) /\ \A b \in Apps \ {a} : q.running[b] <=> Serves(q, b)) => Told(t)
    BY <2>1, <2>2, TellOK
  <2>4. Told(n) => Told(t)
    <3>1. ActiveOnly(c) => ActiveOnly(q)
      BY <2>2 DEF ActiveOnly
    <3>2. \A b \in Apps \ {a} : Serves(q, b) <=> Serves(c, b)
      BY <2>2 DEF Serves
    <3> QED
      BY <1>2, <2>2, <2>3, <3>1, <3>2 DEF Told
  <2>5. \A f : Known(t, f) <=> Known(c, f)
    BY <2>2, <2>3 DEF Known
  <2>6. OthersKept(n, t, e) /\ (Heeded => ActiveIfKnown(t, e))
    BY <1>2, <2>2, <2>3, <2>5 DEF OthersKept, ActiveIfKnown
  <2>7. Good(t)
    BY <2>3, <2>4, <2>6
  <2>8. /\ NodeOK(r) /\ r.list = t.list /\ r.active = t.active /\ r.running = t.running
        /\ r.cap[e][a] = "none"
        /\ \A f \in Edges, b \in Apps : <<f, b>> # <<e, a>> => r.cap[f][b] = t.cap[f][b]
    <3>1. t.cap[e][a] = "inactive" /\ NodeOK(t)
      BY <2>2, <2>3
    <3>2. r = Dropped(t, e, a)
      BY <2>1 DEF Dropped
    <3>3. t.cap[e][a] # "none" /\ NodeOK(t) /\ a \in Apps
      BY <1>0, <3>1
    <3> QED
      BY <3>2, <3>3, DropCapability
  <2>9. \A f : Known(r, f) <=> Known(t, f)
    BY <2>8 DEF Known
  <2>10. Told(n) => Told(r)
    <3>1. \A f \in Edges, b \in Apps : r.cap[f][b] = "active" <=> t.cap[f][b] = "active"
      BY <2>2, <2>3, <2>8
    <3>2. (\A b \in Apps : Serves(r, b) <=> Serves(t, b)) /\ (ActiveOnly(t) => ActiveOnly(r))
      BY <2>8, <3>1 DEF Serves, ActiveOnly
    <3> QED
      BY <2>4, <2>8, <3>2 DEF Told
  <2>11. OthersKept(n, r, e) /\ (Heeded => ActiveIfKnown(r, e))
    BY <2>6, <2>8, <2>9 DEF OthersKept, ActiveIfKnown
  <2>12. Good(r)
    BY <2>8, <2>10, <2>11
  <2>13. ASSUME Capabilities(r, e) = {} PROVE Good(edge_info_remove(r, e))
    <3> DEFINE h == edge_info_remove(r, e)
    <3>1. Known(r, e) /\ NodeOK(r)
      BY <1>4, <2>5, <2>8, <2>9
    <3>2. /\ NodeOK(h)
          /\ ToSet(h.list) = ToSet(r.list) \ {e}
          /\ h.running = r.running
          /\ ~h.active[e] /\ \A f \in Edges : f # e => h.active[f] = r.active[f]
          /\ \A b \in Apps : h.cap[e][b] = "none"
          /\ \A f \in Edges : f # e => h.cap[f] = r.cap[f]
      BY <3>1, RemoveOK
    <3> HIDE DEF h
    <3>3. \A f : Known(h, f) <=> Known(r, f) /\ f # e
      BY <3>2 DEF Known
    <3>4. OthersKept(n, h, e) /\ ActiveIfKnown(h, e)
      BY <2>11, <3>2, <3>3 DEF OthersKept, ActiveIfKnown
    <3>5. \A b \in Apps : r.cap[e][b] # "active"
      BY <2>13 DEF Capabilities
    <3>6. Told(r) => Told(h)
      BY <3>2, <3>5, DropTold
    <3> QED
      BY <2>10, <3>2, <3>4, <3>6 DEF h
  <2> HIDE DEF Good
  <2>14. Good(g)
    BY <1>1, <1>4, <2>7, <2>12, <2>13
  <2> QED
    BY <2>14 DEF Good, g, Heeded
<1> QED
  BY <1>3, <1>4

(* Publications that make an Edge active *)
Positive(m) == m.kind = "announce" \/ (m.kind \in {"add", "remove"} /\ m.certificate)

(* Every handler leaves edge-info within its limits, takes out none but the   *)
(* publishing Edge of those that are active, and tells the applications what  *)
(* has become of them, if no capability is added to an Edge that is listed    *)
(* but not active.                                                           *)
LEMMA HandlerOK ==
    ASSUME NEW n, NodeOK(n), NEW e \in Edges, NEW m \in Message, scenario.build \in Builds
    PROVE  LET h == mqtt_publish_handler(n, e, m)
           IN  /\ NodeOK(h) /\ OthersKept(n, h, e)
               /\ (m.kind = "add" => Positive(m) \/ ActiveIfKnown(n, e)) => (Told(n) => Told(h))
               /\ Positive(m) => ActiveIfKnown(h, e)
               /\ ActiveIfKnown(n, e) /\ (m.kind = "unannounce" => scenario.build = "aggressive") => ActiveIfKnown(h, e)
<1> DEFINE h == mqtt_publish_handler(n, e, m)
<1>1. m.kind \in {"announce", "unannounce", "add", "remove"}
  BY DEF Message
<1>2. m.kind \in {"add", "remove"} => m.app \in Apps
  BY DEF Message
<1>3. CASE m.kind = "announce"
  <2>1. h = process_certificate(n, e)
    BY <1>3 DEF mqtt_publish_handler
  <2> HIDE DEF h, Positive
  <2>2. NodeOK(h) /\ Grown(n, h, e) /\ (Known(h, e) => h.active[e])
    BY <2>1, CertificateOK
  <2>3. Told(n) => Told(h)
    BY <2>1, CertificateTold
  <2> QED
    BY <2>2, <2>3 DEF Grown, ActiveIfKnown, Positive, h
<1>4. CASE m.kind = "unannounce"
  <2>1. h = mqtt_publish_unannounce_handler(n, e)
    BY <1>4 DEF mqtt_publish_handler
  <2> HIDE DEF h, Positive
  <2>2. /\ NodeOK(h) /\ OthersKept(n, h, e) /\ (Told(n) => Told(h))
        /\ scenario.build = "aggressive" => ActiveIfKnown(h, e)
    BY <2>1, UnannounceOK
  <2> QED
    BY <1>4, <2>2 DEF h, Positive
<1>5. CASE m.kind = "add"
  <2>1. h = mqtt_publish_capability_add_handler(n, e, m)
    BY <1>5 DEF mqtt_publish_handler
  <2> HIDE DEF h, Positive
  <2>2. /\ NodeOK(h) /\ OthersKept(n, h, e)
        /\ (m.certificate \/ ActiveIfKnown(n, e)) => ActiveIfKnown(h, e) /\ (Told(n) => Told(h))
    BY <1>2, <1>5, <2>1, AddHandlerOK
  <2> QED
    BY <1>5, <2>2 DEF h, Positive
<1>6. CASE m.kind = "remove"
  <2>1. h = mqtt_publish_capability_remove_handler(n, e, m)
    BY <1>6 DEF mqtt_publish_handler
  <2> HIDE DEF h, Positive
  <2>2. /\ NodeOK(h) /\ OthersKept(n, h, e)
        /\ (m.certificate \/ ActiveIfKnown(n, e)) => ActiveIfKnown(h, e)
        /\ Told(n) => Told(h)
    BY <1>2, <1>6, <2>1, RemoveHandlerOK
  <2> QED
    BY <1>6, <2>2 DEF h, Positive
<1> QED
  BY <1>1, <1>3, <1>4, <1>5, <1>6

-----------------------------------------------------------------------------
(* The Edges and the network. *)

(* The types of everything but the node *)
OutsideOK ==
    /\ scenario \in Scenarios
    /\ settled \in BOOLEAN
    /\ up \in [Edges -> BOOLEAN]
    /\ available \in [Edges -> SUBSET Apps]
    /\ idx \in [Edges -> Nat] /\ \A e \in Edges : idx[e] \in 1..Len(Offers[e])
    /\ timer \in [Edges -> {"off", "set", "expired"}]
    /\ channel \in [Edges -> Seq(Message)]

IInv == OutsideOK /\ NodeOK(node)

LEMMA ScenarioFields ==
    ASSUME scenario \in Scenarios
    PROVE  scenario.build \in Builds /\ scenario.faults \in SUBSET Faults /\ scenario.edges \in SUBSET Edges
  BY EdgeAssumption

LEMMA OffersOK ==
    ASSUME NEW e \in Edges
    PROVE  /\ Len(Offers[e]) \in Nat /\ Len(Offers[e]) >= 1
           /\ \A i \in 1..Len(Offers[e]) : Offers[e][i] \in Apps
           /\ ToSet(Offers[e]) \subseteq Apps
<1>1. Offers[e] \in Seq(Apps) /\ Offers[e] # <<>>
  BY EdgeAssumption
<1>2. DOMAIN Offers[e] = 1..Len(Offers[e]) /\ Len(Offers[e]) \in Nat
  BY <1>1, LenProperties
<1>3. \A i \in 1..Len(Offers[e]) : Offers[e][i] \in Apps
  BY <1>1
<1>4. Len(Offers[e]) # 0
  BY <1>1, EmptySeq
<1> QED
  BY <1>2, <1>3, <1>4 DEF ToSet

LEMMA PublishOK ==
    ASSUME OutsideOK, NEW e \in Edges, NEW m \in Message, Publish(e, m)
    PROVE  channel' \in [Edges -> Seq(Message)]
<1>1. channel[e] \in Seq(Message) /\ channel \in [Edges -> Seq(Message)]
  BY DEF OutsideOK
<1>2. Append(channel[e], m) \in Seq(Message)
  BY <1>1, AppendProperties
<1> QED
  BY <1>1, <1>2 DEF Publish

LEMMA MessagesOK ==
    /\ Announce \in Message /\ Unannounce \in Message
    /\ \A k \in {"add", "remove"}, a \in Apps, c \in BOOLEAN : Capability(k, a, c) \in Message
  BY DEF Announce, Unannounce, Capability, Message

LEMMA NextIdxOK ==
    ASSUME OutsideOK, NEW e \in Edges
    PROVE  NextIdx(e) \in 1..Len(Offers[e]) /\ NextIdx(e) \in Nat
<1>1. idx[e] \in Nat /\ Len(Offers[e]) \in Nat /\ Len(Offers[e]) >= 1
  BY OffersOK DEF OutsideOK
<1>2. \A i \in Nat, l \in Nat : l >= 1 => i % l \in 0..(l - 1)
  OBVIOUS
<1>3. idx[e] % Len(Offers[e]) \in 0..(Len(Offers[e]) - 1)
  BY <1>1, <1>2
<1> DEFINE r == idx[e] % Len(Offers[e])
<1>4. NextIdx(e) = r + 1
  BY DEF NextIdx
<1> HIDE DEF r
<1>5. r \in 0..(Len(Offers[e]) - 1)
  BY <1>3 DEF r
<1> QED
  BY <1>1, <1>4, <1>5

LEMMA OutsideStep ==
    ASSUME OutsideOK, [Next]_vars
    PROVE  OutsideOK'
<1>1. CASE UNCHANGED vars
  BY <1>1 DEF OutsideOK, vars, edgeSide
<1>2. CASE Settle
  BY <1>2 DEF OutsideOK, Settle, edgeSide
<1>3. ASSUME NEW e \in scenario.edges,
             \/ BridgeStarted(e) \/ BridgeStopped(e)
             \/ \E a \in ToSet(Offers[e]) : ApplicationStarted(e, a) \/ ApplicationStopped(e, a)
             \/ periodic_publish_announce(e) \/ CapabilityTimerExpires(e) \/ periodic_publish_capability(e)
             \/ Deliver(e) \/ Lose(e)
      PROVE  OutsideOK'
  <2>0. /\ e \in Edges /\ Stopped(e) \in {"off", "set", "expired"}
        /\ Len(Offers[e]) \in Nat /\ Len(Offers[e]) >= 1 /\ channel[e] \in Seq(Message)
    BY ScenarioFields, OffersOK DEF OutsideOK, Stopped
  <2>1. ASSUME trigger_faster_publish(e)
        PROVE  /\ idx' \in [Edges -> Nat] /\ \A f \in Edges : idx'[f] \in 1..Len(Offers[f])
               /\ timer' \in [Edges -> {"off", "set", "expired"}]
    BY <2>0, <2>1 DEF trigger_faster_publish, OutsideOK
  <2>2. CASE BridgeStarted(e)
    BY <2>1, <2>2 DEF BridgeStarted, OutsideOK
  <2>3. CASE BridgeStopped(e)
    BY <2>1, <2>3 DEF BridgeStopped, OutsideOK
  <2>4. ASSUME NEW a \in ToSet(Offers[e]), ApplicationStarted(e, a) \/ ApplicationStopped(e, a) PROVE OutsideOK'
    <3>1. a \in Apps /\ Capability("add", a, TRUE) \in Message /\ Capability("remove", a, TRUE) \in Message
      BY <2>0, OffersOK, MessagesOK
    <3>2. channel' \in [Edges -> Seq(Message)]
      BY <2>0, <2>4, <3>1, PublishOK DEF ApplicationStarted, ApplicationStopped, PublishFails, OutsideOK
    <3>3. available' \in [Edges -> SUBSET Apps]
      <4>1. available \in [Edges -> SUBSET Apps] /\ available[e] \in SUBSET Apps
        BY <2>0 DEF OutsideOK
      <4>2. available[e] \cup {a} \in SUBSET Apps /\ available[e] \ {a} \in SUBSET Apps
        BY <3>1, <4>1
      <4>3. CASE ApplicationStarted(e, a)
        BY <4>1, <4>2, <4>3 DEF ApplicationStarted
      <4>4. CASE ApplicationStopped(e, a)
        BY <4>1, <4>2, <4>4 DEF ApplicationStopped
      <4> QED
        BY <2>4, <4>3, <4>4
    <3> QED
      BY <2>4, <3>2, <3>3 DEF ApplicationStarted, ApplicationStopped, OutsideOK
  <2>5. CASE periodic_publish_announce(e)
    <3>1. channel' \in [Edges -> Seq(Message)]
      BY <2>0, <2>5, MessagesOK, PublishOK DEF periodic_publish_announce, AnnounceWith
    <3>2. timer' \in [Edges -> {"off", "set", "expired"}]
      BY <2>0, <2>5 DEF periodic_publish_announce, AnnounceWith, OutsideOK
    <3> QED
      BY <2>5, <3>1, <3>2 DEF periodic_publish_announce, AnnounceWith, OutsideOK
  <2>6. CASE CapabilityTimerExpires(e)
    BY <2>6 DEF CapabilityTimerExpires, OutsideOK
  <2>7. CASE periodic_publish_capability(e)
    <3> DEFINE a == Offers[e][idx[e]]
               k == IF a \in available[e] THEN "add" ELSE "remove"
    <3>1. a \in Apps
      BY <2>0, OffersOK DEF OutsideOK
    <3>2. Capability(k, a, FALSE) \in Message
      BY <3>1, MessagesOK
    <3>3. /\ timer' = [timer EXCEPT ![e] = "set"] /\ UNCHANGED <<scenario, settled, up, available, node>>
          /\ \/ Publish(e, Capability(k, a, FALSE)) /\ idx' = [idx EXCEPT ![e] = NextIdx(e)]
             \/ PublishFails /\ UNCHANGED idx
      BY <2>7 DEF periodic_publish_capability
    <3> HIDE DEF k, a
    <3>4. channel' \in [Edges -> Seq(Message)]
      BY <2>0, <3>2, <3>3, PublishOK DEF PublishFails, OutsideOK
    <3>5. idx' \in [Edges -> Nat] /\ \A f \in Edges : idx'[f] \in 1..Len(Offers[f])
      BY <2>0, <3>3, NextIdxOK DEF OutsideOK
    <3> QED
      BY <2>0, <3>3, <3>4, <3>5 DEF OutsideOK
  <2>8. CASE Deliver(e)
    <3>1. PICK i \in 1..Len(channel[e]) : channel' = [channel EXCEPT ![e] = RemoveAt(@, i)]
      BY <2>8 DEF Deliver
    <3>2. RemoveAt(channel[e], i) \in Seq(Message)
      BY <2>0, RemoveAtElements
    <3>3. channel' \in [Edges -> Seq(Message)]
      BY <2>0, <3>1, <3>2 DEF OutsideOK
    <3> QED
      BY <2>8, <3>3 DEF Deliver, OutsideOK, edgeSide
  <2>9. CASE Lose(e)
    <3>1. Tail(channel[e]) \in Seq(Message)
      BY <2>0, <2>9, HeadTailProperties DEF Lose
    <3>2. channel' \in [Edges -> Seq(Message)]
      BY <2>0, <2>9, <3>1 DEF Lose, OutsideOK
    <3> QED
      BY <2>9, <3>2 DEF Lose, OutsideOK, edgeSide
  <2> QED
    BY <1>3, <2>2, <2>3, <2>4, <2>5, <2>6, <2>7, <2>8, <2>9
<1> QED
  BY <1>1, <1>2, <1>3 DEF Next

(* Only what is delivered changes the node. *)
LEMMA NodeStep ==
    ASSUME OutsideOK, [Next]_vars
    PROVE  UNCHANGED node \/ \E e \in Edges : Deliver(e)
<1>1. scenario.edges \in SUBSET Edges
  BY ScenarioFields DEF OutsideOK
<1> QED
  BY <1>1 DEF Next, vars, Settle, BridgeStarted, BridgeStopped, ApplicationStarted, ApplicationStopped,
              periodic_publish_announce, AnnounceWith, CapabilityTimerExpires, periodic_publish_capability, Lose

LEMMA DeliverOK ==
    ASSUME IInv, NEW e \in Edges, NEW i \in 1..Len(channel[e]), node' = mqtt_publish_handler(node, e, channel[e][i])
    PROVE  LET m == channel[e][i]
           IN  /\ NodeOK(node') /\ OthersKept(node, node', e)
               /\ (m.kind = "add" => Positive(m) \/ ActiveIfKnown(node, e)) => (Told(node) => Told(node'))
               /\ Positive(m) => ActiveIfKnown(node', e)
               /\ ActiveIfKnown(node, e) /\ (m.kind = "unannounce" => scenario.build = "aggressive") => ActiveIfKnown(node', e)
<1>1. NodeOK(node) /\ channel[e] \in Seq(Message) /\ scenario.build \in Builds
  BY ScenarioFields DEF IInv, OutsideOK
<1>2. channel[e][i] \in Message
  BY <1>1
<1> DEFINE m == channel[e][i]
<1> HIDE DEF m
<1>3. m \in Message /\ node' = mqtt_publish_handler(node, e, m)
  BY <1>2 DEF m
<1>4. /\ NodeOK(node') /\ OthersKept(node, node', e)
      /\ (m.kind = "add" => Positive(m) \/ ActiveIfKnown(node, e)) => (Told(node) => Told(node'))
      /\ Positive(m) => ActiveIfKnown(node', e)
      /\ ActiveIfKnown(node, e) /\ (m.kind = "unannounce" => scenario.build = "aggressive") => ActiveIfKnown(node', e)
  BY <1>1, <1>3, HandlerOK
<1> QED
  BY <1>4 DEF m

LEMMA InitOK ==
    ASSUME Init
    PROVE  IInv
<1>1. OutsideOK
  <2>1. \A e \in Edges : 1 \in 1..Len(Offers[e])
    BY OffersOK
  <2>2. <<>> \in Seq(Message)
    BY EmptySeq
  <2> QED
    BY <2>1, <2>2 DEF Init, OutsideOK
<1>2. node \in NodeType
  <2>1. <<>> \in Seq(Edges)
    BY EmptySeq
  <2> QED
    BY <2>1, Limits DEF Init, NodeType, Status
<1>3. node.list = <<>> /\ \A e \in Edges, a \in Apps : node.cap[e][a] = "none"
  BY DEF Init
<1>4. Len(node.list) = 0 /\ IsInjective(node.list)
  BY <1>3, EmptySeq DEF IsInjective
<1>5. Owned(node) = {} /\ \A e \in Edges : Capabilities(node, e) = {}
  BY <1>3 DEF Owned, Capabilities
<1>6. IsFiniteSet({}) /\ Cardinality({}) = 0
  BY FS_EmptySet
<1>7. node.pool + Cardinality(Owned(node)) = NumEdgeResources * NumEdgeCapabilities
  <2>1. node.pool = NumEdgeResources * NumEdgeCapabilities
    BY DEF Init
  <2>2. Cardinality(Owned(node)) = 0
    BY <1>5, <1>6
  <2> QED
    BY <2>1, <2>2, Limits
<1>8. NodeOK(node)
  <2>1. Len(node.list) <= NumEdgeResources
    BY <1>4, Limits
  <2>2. ASSUME NEW e \in Edges PROVE IsFiniteSet(Capabilities(node, e)) /\ Cardinality(Capabilities(node, e)) <= NumEdgeCapabilities
    BY <1>5, <1>6, Limits
  <2>3. IsFiniteSet(Owned(node))
    BY <1>5, <1>6
  <2> QED
    BY <1>2, <1>4, <1>5, <1>7, <2>1, <2>2, <2>3 DEF NodeOK
<1> QED
  BY <1>1, <1>8 DEF IInv

LEMMA StepOK ==
    ASSUME IInv, [Next]_vars
    PROVE  IInv'
<1>1. OutsideOK'
  BY OutsideStep DEF IInv
<1>2. UNCHANGED node \/ \E e \in Edges : Deliver(e)
  BY NodeStep DEF IInv
<1>3. CASE UNCHANGED node
  <2>1. NodeOK(node')
    BY <1>3 DEF IInv
  <2> QED
    BY <1>1, <2>1 DEF IInv
<1>4. ASSUME NEW e \in Edges, Deliver(e) PROVE IInv'
  <2>1. PICK i \in 1..Len(channel[e]) : node' = mqtt_publish_handler(node, e, channel[e][i])
    BY <1>4 DEF Deliver
  <2>2. NodeOK(node')
    BY <2>1, DeliverOK
  <2> QED
    BY <1>1, <2>2 DEF IInv
<1> QED
  BY <1>2, <1>3, <1>4

LEMMA Invariance == Spec => []IInv
<1>1. Init => IInv
  BY InitOK
<1>2. IInv /\ [Next]_vars => IInv'
  BY StepOK
<1> QED
  BY <1>1, <1>2, PTL DEF Spec

(* edge-info.c: whatever is published, lost or reordered, edge-info stays      *)
(* within its limits and an Edge that may have another capability finds       *)
(* memory for it.                                                            *)
THEOREM EdgeInfoPoolSuffices == Spec => []PoolSuffices
<1>1. ASSUME IInv PROVE PoolSuffices
  <2>1. /\ NodeOK(node) /\ node \in NodeType /\ node.list \in Seq(Edges)
        /\ IsFiniteSet(Owned(node)) /\ node.pool \in Nat
        /\ node.pool + Cardinality(Owned(node)) = NumEdgeResources * NumEdgeCapabilities
    BY <1>1 DEF IInv, NodeOK, NodeType
  <2>2. node.pool \in 0..(NumEdgeResources * NumEdgeCapabilities)
    <3>1. Cardinality(Owned(node)) \in Nat
      BY <2>1, FS_CardinalityType
    <3> QED
      BY <2>1, <3>1, Limits
  <2>3. node \in [list : Seq(Edges), active : [Edges -> BOOLEAN],
                   cap : [Edges -> [Apps -> {"none", "inactive", "active"}]],
                   pool : 0..(NumEdgeResources * NumEdgeCapabilities), running : [Apps -> BOOLEAN]]
    <3> DEFINE N == 0..(NumEdgeResources * NumEdgeCapabilities)
    <3>1. node.pool \in N
      BY <2>2
    <3> HIDE DEF N
    <3>2. node \in [list : Seq(Edges), active : [Edges -> BOOLEAN], cap : [Edges -> [Apps -> Status]],
                   pool : N, running : [Apps -> BOOLEAN]]
      BY <2>1, <3>1 DEF NodeType
    <3> QED
      BY <3>2 DEF N, Status
  <2>4. TypeOK
    BY <1>1, <2>1, <2>3 DEF TypeOK, IInv, OutsideOK, NodeOK
  <2>5. \A e \in ToSet(node.list) : e \in Edges /\ Known(node, e)
    BY <2>1, LenProperties DEF ToSet, Known
  <2>6. \A e \in ToSet(node.list) : Cardinality(Capabilities(node, e)) < NumEdgeCapabilities => node.pool > 0
    BY <2>1, <2>5, PoolBound
  <2> QED
    BY <2>4, <2>6 DEF PoolSuffices
<1> QED
  BY <1>1, Invariance, PTL

(* edge-info.c free_up_edge_resource: an active Edge leaves edge-info only      *)
(* with a publication of its own.                                            *)
THEOREM ActiveEdgesAreKept == Spec => OnlyInactiveEvicted
<1>1. ASSUME IInv, [Next]_vars
      PROVE  [\A e \in Edges : Known(node, e) /\ node.active[e] /\ ~Known(node', e)
                               => channel'[e] # channel[e]]_vars
  <2> SUFFICES ASSUME NEW f \in Edges, Known(node, f), node.active[f], ~Known(node', f)
               PROVE  channel'[f] # channel[f]
    OBVIOUS
  <2>1. UNCHANGED node \/ \E e \in Edges : Deliver(e)
    BY <1>1, NodeStep DEF IInv
  <2>2. ~UNCHANGED node
    OBVIOUS
  <2>3. PICK e \in Edges : Deliver(e)
    BY <2>1, <2>2
  <2>4. PICK i \in 1..Len(channel[e]) :
             /\ channel' = [channel EXCEPT ![e] = RemoveAt(@, i)]
             /\ node' = mqtt_publish_handler(node, e, channel[e][i])
    BY <2>3 DEF Deliver
  <2>5. OthersKept(node, node', e)
    BY <1>1, <2>4, DeliverOK
  <2>6. f = e
    BY <2>5 DEF OthersKept
  <2>7. channel \in [Edges -> Seq(Message)] /\ channel[e] \in Seq(Message)
    BY <1>1 DEF IInv, OutsideOK
  <2>8. Len(RemoveAt(channel[e], i)) = Len(channel[e]) - 1 /\ Len(channel[e]) \in Nat
    BY <2>7, RemoveAtElements, LenProperties
  <2>9. channel'[e] = RemoveAt(channel[e], i)
    BY <2>4, <2>7
  <2>10. channel'[e] # channel[e]
    BY <2>8, <2>9
  <2> QED
    BY <2>6, <2>10
<1> QED
  BY <1>1, Invariance, PTL DEF Spec, OnlyInactiveEvicted

-----------------------------------------------------------------------------
(* The applications are told in time. *)

(* When the node comes to hear the i-th of the publications s under way, their *)
(* Edge is active if it is listed; q says whether it is so now.               *)
ActiveAt(s, q, i) ==
    \/ q /\ \A j \in 1..(i - 1) : s[j].kind # "unannounce"
    \/ \E j \in 1..(i - 1) : Positive(s[j]) /\ \A k \in (j + 1)..(i - 1) : s[k].kind # "unannounce"

Bare(m) == m.kind = "add" /\ ~Positive(m)

(* Nothing fails: an Edge that is listed is active when the node hears of a   *)
(* capability without a certificate, and when it would hear of the next one.  *)
InOrder(e, n) ==
    /\ \A i \in 1..Len(channel[e]) : Bare(channel[e][i]) => ActiveAt(channel[e], ActiveIfKnown(n, e), i)
    /\ available[e] # {} => up[e] /\ ActiveAt(channel[e], ActiveIfKnown(n, e), Len(channel[e]) + 1)

RunInv ==
    /\ scenario.faults = {} => Told(node) /\ \A e \in Edges : InOrder(e, node)
    /\ scenario.build = "aggressive" => Told(node) /\ \A e \in Edges : ActiveIfKnown(node, e)

LEMMA ActiveAtAppend ==
    ASSUME NEW s \in Seq(Message), NEW m \in Message, NEW q \in BOOLEAN
    PROVE  LET t == Append(s, m)
           IN  /\ Len(t) = Len(s) + 1 /\ t[Len(s) + 1] = m /\ \A i \in 1..Len(s) : t[i] = s[i]
               /\ \A i \in 1..(Len(s) + 1) : ActiveAt(s, q, i) => ActiveAt(t, q, i)
               /\ ActiveAt(s, q, Len(s) + 1) /\ m.kind # "unannounce" => ActiveAt(t, q, Len(s) + 2)
               /\ Positive(m) => ActiveAt(t, q, Len(s) + 2)
<1> DEFINE t == Append(s, m)
<1>1. Len(s) \in Nat /\ Len(t) = Len(s) + 1 /\ t[Len(s) + 1] = m /\ \A i \in 1..Len(s) : t[i] = s[i]
  BY LenProperties, AppendProperties
<1> HIDE DEF t
<1>2. ASSUME NEW i \in 1..(Len(s) + 1), ActiveAt(s, q, i) PROVE ActiveAt(t, q, i)
  <2>1. \A j \in 1..(i - 1) : t[j] = s[j] /\ \A k \in (j + 1)..(i - 1) : t[k] = s[k]
    BY <1>1
  <2> QED
    BY <1>2, <2>1 DEF ActiveAt
<1>3. ASSUME ActiveAt(s, q, Len(s) + 1), m.kind # "unannounce" PROVE ActiveAt(t, q, Len(s) + 2)
  <2>0. Len(s) + 1 - 1 = Len(s) /\ Len(s) + 2 - 1 = Len(s) + 1
    BY <1>1
  <2>1. CASE q /\ \A j \in 1..Len(s) : s[j].kind # "unannounce"
    <3>1. \A j \in 1..(Len(s) + 1) : t[j].kind # "unannounce"
      BY <1>1, <1>3, <2>1
    <3> QED
      BY <2>0, <2>1, <3>1 DEF ActiveAt
  <2>2. CASE \E j \in 1..Len(s) : Positive(s[j]) /\ \A k \in (j + 1)..Len(s) : s[k].kind # "unannounce"
    <3>1. PICK j \in 1..Len(s) : Positive(s[j]) /\ \A k \in (j + 1)..Len(s) : s[k].kind # "unannounce"
      BY <2>2
    <3>2. j \in 1..(Len(s) + 1) /\ t[j] = s[j] /\ \A k \in (j + 1)..(Len(s) + 1) : t[k].kind # "unannounce"
      BY <1>1, <1>3, <3>1
    <3> QED
      BY <2>0, <3>1, <3>2 DEF ActiveAt
  <2> QED
    BY <1>3, <2>0, <2>1, <2>2 DEF ActiveAt
<1>4. ASSUME Positive(m) PROVE ActiveAt(t, q, Len(s) + 2)
  <2>1. Len(s) + 2 - 1 = Len(s) + 1 /\ Len(s) + 1 \in 1..(Len(s) + 1) /\ (Len(s) + 1 + 1)..(Len(s) + 1) = {}
    BY <1>1
  <2>2. Positive(t[Len(s) + 1])
    BY <1>1, <1>4
  <2> QED
    BY <2>1, <2>2 DEF ActiveAt
<1> QED
  BY <1>1, <1>2, <1>3, <1>4 DEF t

LEMMA ActiveAtRemove ==
    ASSUME NEW s \in Seq(Message), 1 \in 1..Len(s), NEW q \in BOOLEAN, NEW r \in BOOLEAN,
           Positive(s[1]) => r, q /\ s[1].kind # "unannounce" => r,
           NEW i \in 1..Len(s), ActiveAt(s, q, i + 1)
    PROVE  ActiveAt(RemoveAt(s, 1), r, i)
<1> DEFINE t == RemoveAt(s, 1)
<1>1. Len(s) \in Nat /\ i \in Nat /\ i >= 1 /\ i + 1 - 1 = i
  BY LenProperties
<1>2. \A k \in 1..(Len(s) - 1) : t[k] = s[k + 1]
  <2>1. \A k \in 1..(Len(s) - 1) : t[k] = IF k < 1 THEN s[k] ELSE s[k + 1]
    BY RemoveAtElements
  <2> HIDE DEF t
  <2> QED
    BY <1>1, <2>1
<1> HIDE DEF t
<1>3. CASE q /\ \A j \in 1..i : s[j].kind # "unannounce"
  <2>1. r
    BY <1>1, <1>3
  <2>2. \A j \in 1..(i - 1) : t[j].kind # "unannounce"
    BY <1>1, <1>2, <1>3
  <2> QED
    BY <2>1, <2>2 DEF ActiveAt, t
<1>4. ASSUME NEW j \in 1..i, Positive(s[j]), \A k \in (j + 1)..i : s[k].kind # "unannounce" PROVE ActiveAt(t, r, i)
  <2>1. CASE j = 1
    <3>1. r
      BY <1>4, <2>1
    <3>2. \A k \in 1..(i - 1) : t[k].kind # "unannounce"
      <4> SUFFICES ASSUME NEW k \in 1..(i - 1) PROVE t[k].kind # "unannounce"
        OBVIOUS
      <4>1. k \in 1..(Len(s) - 1) /\ k + 1 \in (j + 1)..i
        BY <1>1, <2>1
      <4> QED
        BY <1>2, <1>4, <4>1
    <3> QED
      BY <3>1, <3>2 DEF ActiveAt
  <2>2. CASE j # 1
    <3>1. j - 1 \in 1..(i - 1) /\ j - 1 + 1 = j
      BY <1>1, <2>2
    <3>2. t[j - 1] = s[j]
      BY <1>1, <1>2, <3>1
    <3>3. \A k \in (j - 1 + 1)..(i - 1) : t[k].kind # "unannounce"
      BY <1>1, <1>2, <1>4, <2>2
    <3> QED
      BY <1>4, <3>1, <3>2, <3>3 DEF ActiveAt
  <2> QED
    BY <2>1, <2>2
<1> QED
  BY <1>1, <1>3, <1>4 DEF ActiveAt, t

(* Steps that publish nothing *)
LEMMA QuietInOrder ==
    ASSUME channel' = channel, node' = node, \A f \in Edges : InOrder(f, node),
           \A f \in Edges : available'[f] # {} => available[f] # {} /\ (up[f] => up'[f])
    PROVE  \A f \in Edges : InOrder(f, node)'
  BY DEF InOrder

(* Steps that publish something *)
LEMMA PublishInOrder ==
    ASSUME OutsideOK, \A f \in Edges : InOrder(f, node), NEW e \in Edges, NEW m \in Message,
           Publish(e, m), node' = node, up' = up,
           Bare(m) => available[e] # {},
           \A f \in Edges : f # e => available'[f] = available[f],
           available'[e] # {} => up[e] /\ (Positive(m) \/ (available[e] # {} /\ m.kind # "unannounce"))
    PROVE  \A f \in Edges : InOrder(f, node)'
<1> SUFFICES ASSUME NEW f \in Edges PROVE InOrder(f, node)'
  OBVIOUS
<1>1. /\ channel \in [Edges -> Seq(Message)] /\ channel' = [channel EXCEPT ![e] = Append(@, m)]
      /\ channel[e] \in Seq(Message) /\ Len(channel[e]) \in Nat
  BY LenProperties DEF OutsideOK, Publish
<1>2. CASE f # e
  <2>1. channel'[f] = channel[f] /\ available'[f] = available[f]
    BY <1>1, <1>2
  <2>2. InOrder(f, node)
    OBVIOUS
  <2> QED
    BY <2>1, <2>2 DEF InOrder
<1>3. CASE f = e
  <2> DEFINE s == channel[e]
             t == Append(s, m)
             q == ActiveIfKnown(node, e)
  <2>1. channel'[e] = t
    BY <1>1
  <2>2. q \in BOOLEAN /\ s \in Seq(Message) /\ Len(s) \in Nat
    <3>1. q \in BOOLEAN
      BY DEF ActiveIfKnown
    <3> QED
      BY <1>1, <3>1
  <2>3. /\ \A i \in 1..Len(s) : Bare(s[i]) => ActiveAt(s, q, i)
        /\ available[e] # {} => ActiveAt(s, q, Len(s) + 1)
    BY DEF InOrder
  <2> HIDE DEF s, q
  <2>4. /\ Len(t) = Len(s) + 1 /\ t[Len(s) + 1] = m /\ \A i \in 1..Len(s) : t[i] = s[i]
        /\ \A i \in 1..(Len(s) + 1) : ActiveAt(s, q, i) => ActiveAt(t, q, i)
        /\ ActiveAt(s, q, Len(s) + 1) /\ m.kind # "unannounce" => ActiveAt(t, q, Len(s) + 2)
        /\ Positive(m) => ActiveAt(t, q, Len(s) + 2)
    BY <2>2, ActiveAtAppend
  <2> HIDE DEF t
  <2>5. ASSUME NEW i \in 1..Len(t), Bare(t[i]) PROVE ActiveAt(t, q, i)
    <3>1. i \in 1..(Len(s) + 1) /\ (i \in 1..Len(s) \/ i = Len(s) + 1)
      BY <2>2, <2>4
    <3>2. CASE i \in 1..Len(s)
      BY <2>3, <2>4, <2>5, <3>1, <3>2
    <3>3. CASE i = Len(s) + 1
      BY <2>3, <2>4, <2>5, <3>1, <3>3
    <3> QED
      BY <3>1, <3>2, <3>3
  <2>6. ASSUME available'[e] # {} PROVE up[e] /\ ActiveAt(t, q, Len(t) + 1)
    <3>1. ActiveAt(t, q, Len(s) + 2)
      BY <2>3, <2>4, <2>6
    <3>2. Len(t) + 1 = Len(s) + 2
      BY <2>2, <2>4
    <3> QED
      BY <2>6, <3>1, <3>2
  <2>7. ActiveIfKnown(node', e) = q
    BY DEF q
  <2> QED
    BY <1>3, <2>1, <2>5, <2>6, <2>7 DEF InOrder
<1> QED
  BY <1>2, <1>3

(* A delivery, of the earliest publication *)
LEMMA DeliverInOrder ==
    ASSUME IInv, Told(node), \A f \in Edges : InOrder(f, node), NEW e \in Edges,
           1 \in 1..Len(channel[e]), channel' = [channel EXCEPT ![e] = RemoveAt(@, 1)],
           node' = mqtt_publish_handler(node, e, channel[e][1]), UNCHANGED edgeSide
    PROVE  Told(node') /\ \A f \in Edges : InOrder(f, node)'
<1> DEFINE s == channel[e]
           t == RemoveAt(s, 1)
           q == ActiveIfKnown(node, e)
           r == ActiveIfKnown(node', e)
<1>1. /\ channel \in [Edges -> Seq(Message)] /\ s \in Seq(Message) /\ Len(s) \in Nat
  BY LenProperties DEF IInv, OutsideOK
<1>2. q \in BOOLEAN /\ r \in BOOLEAN
  BY DEF ActiveIfKnown
<1>3. /\ OthersKept(node, node', e)
      /\ (s[1].kind = "add" => Positive(s[1]) \/ q) => Told(node')
      /\ Positive(s[1]) => r
      /\ q /\ s[1].kind # "unannounce" => r
  BY DeliverOK
<1>4. /\ \A i \in 1..Len(s) : Bare(s[i]) => ActiveAt(s, q, i)
      /\ available[e] # {} => up[e] /\ ActiveAt(s, q, Len(s) + 1)
  BY DEF InOrder
<1>5. available' = available /\ up' = up
  BY DEF edgeSide
<1>6. channel'[e] = t /\ \A f \in Edges : f # e => channel'[f] = channel[f]
  BY <1>1
<1>7. 1 \in 1..Len(s)
  OBVIOUS
<1> HIDE DEF s, q, r
<1>8. Told(node')
  <2>1. ActiveAt(s, q, 1) => q
    BY DEF ActiveAt
  <2> QED
    BY <1>3, <1>4, <1>7, <2>1 DEF Bare
<1>9. Len(t) = Len(s) - 1 /\ \A k \in 1..(Len(s) - 1) : t[k] = s[k + 1]
  <2>1. Len(t) = Len(s) - 1 /\ \A k \in 1..(Len(s) - 1) : t[k] = IF k < 1 THEN s[k] ELSE s[k + 1]
    BY <1>1, <1>7, RemoveAtElements
  <2> HIDE DEF t
  <2> QED
    BY <1>1, <2>1
<1>10. ASSUME NEW i \in 1..Len(s), ActiveAt(s, q, i + 1) PROVE ActiveAt(t, r, i)
  BY <1>1, <1>2, <1>3, <1>7, <1>10, ActiveAtRemove
<1> HIDE DEF t
<1>11. InOrder(e, node)'
  <2>1. ASSUME NEW i \in 1..Len(t), Bare(t[i]) PROVE ActiveAt(t, r, i)
    <3>1. i \in 1..(Len(s) - 1) /\ i \in 1..Len(s) /\ i + 1 \in 1..Len(s)
      BY <1>1, <1>9
    <3>2. t[i] = s[i + 1]
      BY <1>9, <3>1
    <3>3. ActiveAt(s, q, i + 1)
      BY <1>4, <2>1, <3>1, <3>2
    <3> QED
      BY <1>10, <3>1, <3>3
  <2>2. ASSUME available[e] # {} PROVE up[e] /\ ActiveAt(t, r, Len(t) + 1)
    <3>1. Len(s) \in 1..Len(s) /\ Len(t) + 1 = Len(s)
      BY <1>1, <1>7, <1>9
    <3> QED
      BY <1>4, <1>10, <2>2, <3>1
  <2> QED
    BY <1>5, <1>6, <2>1, <2>2 DEF InOrder, r
<1>12. ASSUME NEW f \in Edges, f # e PROVE InOrder(f, node)'
  <2>1. ActiveIfKnown(node, f) => ActiveIfKnown(node', f)
    BY <1>3, <1>12 DEF OthersKept, ActiveIfKnown
  <2>2. channel'[f] = channel[f] /\ InOrder(f, node)
    BY <1>6, <1>12
  <2>3. \A x, i : ActiveAt(x, ActiveIfKnown(node, f), i) => ActiveAt(x, ActiveIfKnown(node', f), i)
    BY <2>1 DEF ActiveAt
  <2> QED
    BY <1>5, <2>2, <2>3 DEF InOrder
<1> QED
  BY <1>8, <1>11, <1>12

LEMMA RunStep ==
    ASSUME IInv, RunInv, [Next]_vars
    PROVE  RunInv'
<1>0. OutsideOK /\ scenario.build \in Builds /\ scenario.edges \in SUBSET Edges
  BY ScenarioFields DEF IInv, OutsideOK
<1>1. scenario' = scenario
  BY DEF Next, vars, Settle, BridgeStarted, BridgeStopped, ApplicationStarted, ApplicationStopped,
         periodic_publish_announce, AnnounceWith, CapabilityTimerExpires, periodic_publish_capability, Deliver, Lose
<1>2. UNCHANGED node \/ \E e \in Edges : Deliver(e)
  BY <1>0, NodeStep
<1>3. ASSUME scenario.build = "aggressive" PROVE Told(node') /\ \A f \in Edges : ActiveIfKnown(node', f)
  <2>1. CASE UNCHANGED node
    BY <1>3, <2>1 DEF RunInv
  <2>2. ASSUME NEW e \in Edges, Deliver(e) PROVE Told(node') /\ \A f \in Edges : ActiveIfKnown(node', f)
    <3>1. PICK i \in 1..Len(channel[e]) : node' = mqtt_publish_handler(node, e, channel[e][i])
      BY <2>2 DEF Deliver
    <3>2. ActiveIfKnown(node, e) /\ Told(node) /\ \A f \in Edges : ActiveIfKnown(node, f)
      BY <1>3 DEF RunInv
    <3>3. OthersKept(node, node', e) /\ Told(node') /\ ActiveIfKnown(node', e)
      BY <1>3, <3>1, <3>2, DeliverOK
    <3>4. \A f \in Edges : f # e => ActiveIfKnown(node', f)
      BY <3>2, <3>3 DEF OthersKept, ActiveIfKnown
    <3> QED
      BY <3>3, <3>4
  <2> QED
    BY <1>2, <2>1, <2>2
<1>4. ASSUME scenario.faults = {} PROVE Told(node') /\ \A f \in Edges : InOrder(f, node)'
  <2>0. Told(node) /\ (\A f \in Edges : InOrder(f, node)) /\ ~PublishFails
    BY <1>4 DEF RunInv, PublishFails
  <2>1. \A f \in Edges : available[f] # {} => up[f]
    BY <2>0 DEF InOrder
  <2>2. up \in [Edges -> BOOLEAN] /\ available \in [Edges -> SUBSET Apps]
    BY <1>0 DEF OutsideOK
  <2>3. CASE UNCHANGED vars \/ Settle
    BY <2>0, <2>3, QuietInOrder DEF vars, Settle, edgeSide
  <2>4. ASSUME NEW e \in Edges, BridgeStarted(e) \/ BridgeStopped(e) \/ CapabilityTimerExpires(e)
        PROVE  Told(node') /\ \A f \in Edges : InOrder(f, node)'
    <3>1. channel' = channel /\ node' = node
      BY <2>4 DEF BridgeStarted, BridgeStopped, CapabilityTimerExpires
    <3>2. \A f \in Edges : available'[f] # {} => available[f] # {} /\ (up[f] => up'[f])
      BY <2>2, <2>4 DEF BridgeStarted, BridgeStopped, CapabilityTimerExpires
    <3> QED
      BY <2>0, <3>1, <3>2, QuietInOrder
  <2>5. ASSUME NEW e \in Edges, NEW a \in ToSet(Offers[e]), ApplicationStarted(e, a) \/ ApplicationStopped(e, a)
        PROVE  Told(node') /\ \A f \in Edges : InOrder(f, node)'
    <3>1. a \in Apps
      BY OffersOK
    <3>2. PICK k \in {"add", "remove"} : Publish(e, Capability(k, a, TRUE))
      BY <2>0, <2>5 DEF ApplicationStarted, ApplicationStopped
    <3> DEFINE m == Capability(k, a, TRUE)
    <3>3. m \in Message /\ Positive(m) /\ ~Bare(m)
      BY <3>1, <3>2, MessagesOK DEF Positive, Capability, Bare
    <3>4. node' = node /\ up' = up /\ \A f \in Edges : f # e => available'[f] = available[f]
      BY <2>2, <2>5 DEF ApplicationStarted, ApplicationStopped
    <3>5. available'[e] # {} => up[e]
      BY <1>4, <2>1, <2>2, <2>5 DEF ApplicationStarted, ApplicationStopped
    <3> HIDE DEF m
    <3>6. Publish(e, m)
      BY <3>2 DEF m
    <3> QED
      BY <1>0, <2>0, <3>3, <3>4, <3>5, <3>6, PublishInOrder
  <2>6. ASSUME NEW e \in Edges, periodic_publish_announce(e)
        PROVE  Told(node') /\ \A f \in Edges : InOrder(f, node)'
    <3> DEFINE m == IF up[e] THEN Announce ELSE Unannounce
    <3>1. Publish(e, m) /\ node' = node /\ up' = up /\ available' = available
      BY <2>6 DEF periodic_publish_announce, AnnounceWith
    <3>2. m \in Message /\ ~Bare(m) /\ (up[e] => Positive(m))
      BY MessagesOK DEF Announce, Unannounce, Bare, Positive
    <3> HIDE DEF m
    <3> QED
      BY <1>0, <2>0, <2>1, <3>1, <3>2, PublishInOrder
  <2>7. ASSUME NEW e \in Edges, periodic_publish_capability(e)
        PROVE  Told(node') /\ \A f \in Edges : InOrder(f, node)'
    <3> DEFINE a == Offers[e][idx[e]]
               k == IF a \in available[e] THEN "add" ELSE "remove"
               m == Capability(k, a, FALSE)
    <3>1. Publish(e, m) /\ node' = node /\ up' = up /\ available' = available
      BY <2>0, <2>7 DEF periodic_publish_capability
    <3>2. a \in Apps
      BY <1>0, OffersOK DEF OutsideOK
    <3>3. m \in Message /\ m.kind # "unannounce" /\ (Bare(m) => available[e] # {})
      <4> HIDE DEF a
      <4>1. m \in Message
        BY <3>2, MessagesOK
      <4> QED
        BY <4>1 DEF Capability, Bare
    <3> HIDE DEF m
    <3> QED
      BY <1>0, <2>0, <2>1, <3>1, <3>3, PublishInOrder
  <2>8. ASSUME NEW e \in Edges, Deliver(e)
        PROVE  Told(node') /\ \A f \in Edges : InOrder(f, node)'
    <3>1. PICK i \in 1..Len(channel[e]) :
               /\ Earliest(i)
               /\ channel' = [channel EXCEPT ![e] = RemoveAt(@, i)]
               /\ node' = mqtt_publish_handler(node, e, channel[e][i])
      BY <2>8 DEF Deliver
    <3>2. i = 1
      BY <1>4, <3>1 DEF Earliest
    <3>3. UNCHANGED edgeSide
      BY <2>8 DEF Deliver
    <3> QED
      BY <2>0, <3>1, <3>2, <3>3, DeliverInOrder
  <2>9. \A e : ~Lose(e)
    BY <1>4 DEF Lose
  <2> QED
    BY <1>0, <2>3, <2>4, <2>5, <2>6, <2>7, <2>8, <2>9 DEF Next
<1> QED
  BY <1>1, <1>3, <1>4 DEF RunInv

(* trust-common.c: when nothing is lost or overtaken, and under aggressive     *)
(* removal whatever happens, every handler tells the applications what it     *)
(* changes: an application runs exactly while an active Edge serves it.       *)
THEOREM ApplicationsAreTold == Spec => []RunningIsCurrent
<1>1. ASSUME Init PROVE RunInv
  <2>1. NodeOK(node)
    BY <1>1, InitOK DEF IInv
  <2>2. Told(node)
    BY <1>1 DEF Init, Told, ActiveOnly, Serves
  <2>3. \A e \in Edges : ActiveIfKnown(node, e)
    BY <1>1, EmptySeq DEF Init, ActiveIfKnown, Known, ToSet
  <2>4. \A e \in Edges : InOrder(e, node)
    BY <1>1, EmptySeq DEF Init, InOrder
  <2> QED
    BY <2>2, <2>3, <2>4 DEF RunInv
<1>2. IInv /\ RunInv /\ [Next]_vars => RunInv'
  BY RunStep
<1>3. ASSUME IInv, RunInv PROVE RunningIsCurrent
  <2> SUFFICES ASSUME Heard, NEW a \in Apps
               PROVE  node.running[a] = edge_info_has_active_capability(node, a)
    BY DEF RunningIsCurrent
  <2>1. Told(node) /\ NodeOK(node)
    BY <1>3 DEF RunInv, Heard, IInv
  <2>2. edge_info_has_active_capability(node, a) <=> Serves(node, a)
    BY <2>1, HasActive DEF Told
  <2>3. node.running[a] <=> Serves(node, a)
    BY <2>1 DEF Told
  <2>4. node.running[a] \in BOOLEAN /\ edge_info_has_active_capability(node, a) \in BOOLEAN
    BY <2>1 DEF NodeOK, NodeType, edge_info_has_active_capability
  <2> QED
    BY <2>2, <2>3, <2>4
<1> QED
  BY <1>1, <1>2, <1>3, Invariance, PTL DEF Spec
=============================================================================
