--------------------------- MODULE RdvPointProofs ---------------------------
(***************************************************************************)
(* Theorems about RdvPoint, for any finite set of clients, any points and  *)
(* any parameters the operator may choose.                                 *)
(*                                                                         *)
(* RdvInv is inductive without any assumption on clients or operator.      *)
(* PatientInv needs clients that wait for one point at a time, SteadyInv   *)
(* also parameters that are fixed while a point is open.                   *)
(***************************************************************************)
EXTENDS RdvPoint, FiniteSetTheorems, SequenceTheorems, TLAPS

\* A non-empty set of numbers has a least one.
LEMMA MinExists ==
  ASSUME NEW S, S \subseteq Nat, S # {}
  PROVE  \E m \in S : \A n \in S : m <= n
<1> DEFINE R == OpToRel(<, Nat)
<1>1. IsWellFoundedOn(R, Nat)
  BY NatLessThanWellFounded
<1>2. \A x, y \in Nat : x < y => <<x, y>> \in R
  BY Zenon DEF OpToRel
<1> HIDE DEF R
<1>3. PICK m \in S : \A n \in S : ~(<<n, m>> \in R)
  BY <1>1, WFMin
<1>4. ASSUME NEW n \in S PROVE m <= n
  <2>1. m \in Nat /\ n \in Nat
    OBVIOUS
  <2>2. ~(n < m)
    BY <1>2, <1>3, <2>1
  <2>3. QED
    BY <2>1, <2>2
<1>5. QED
  BY <1>4

\* What SequencesExt!RemoveFirst leaves.
LEMMA RemoveFirstAt ==
  ASSUME NEW S, NEW s \in Seq(S), NEW e \in ToSet(s)
  PROVE  \E i \in 1..Len(s) : s[i] = e /\ RemoveFirst(s, e) = RemoveAt(s, i)
<1> DEFINE I == {i \in 1..Len(s) : s[i] = e}
<1>1. I \subseteq Nat /\ I # {}
  BY DEF ToSet
<1>2. PICK m \in I : \A n \in I : m <= n
  BY <1>1, MinExists
<1>3. Min(I) \in I
  BY <1>2 DEF Min
<1>4. SelectInSeq(s, LAMBDA v : v = e) = Min(I)
  BY <1>1 DEF SelectInSeq
<1>5. RemoveFirst(s, e) = RemoveAt(s, Min(I))
  BY <1>1, <1>4 DEF RemoveFirst
<1>6. QED
  BY <1>3, <1>5

\* A list without its entry i.
LEMMA RemoveAtFacts ==
  ASSUME NEW S, NEW s \in Seq(S), NEW i \in 1..Len(s)
  PROVE  /\ RemoveAt(s, i) \in Seq(S)
         /\ Len(RemoveAt(s, i)) = Len(s) - 1
         /\ \A j \in 1..(Len(s) - 1) :
              /\ j < i => RemoveAt(s, i)[j] = s[j]
              /\ j >= i => RemoveAt(s, i)[j] = s[j + 1]
<1> DEFINE a == SubSeq(s, 1, i - 1)
           b == SubSeq(s, i + 1, Len(s))
<1>1. /\ a \in Seq(S) /\ Len(a) = i - 1
      /\ \A j \in 1..(i - 1) : a[j] = s[j]
  <2>1. \A j \in 1..(i - 1) : s[j] \in S
    OBVIOUS
  <2>2. QED
    BY <2>1, SubSeqProperties
<1>2. /\ b \in Seq(S) /\ Len(b) = Len(s) - i
      /\ \A j \in 1..(Len(s) - i) : b[j] = s[i + j]
  <2>1. \A j \in (i + 1)..Len(s) : s[j] \in S
    OBVIOUS
  <2>2. QED
    BY <2>1, SubSeqProperties
<1>3. RemoveAt(s, i) = a \o b
  BY DEF RemoveAt
<1> HIDE DEF a, b
<1> HIDE DEF a, b
<1>4. /\ a \o b \in Seq(S) /\ Len(a \o b) = Len(a) + Len(b)
      /\ \A j \in 1..(Len(a) + Len(b)) :
           (a \o b)[j] = IF j <= Len(a) THEN a[j] ELSE b[j - Len(a)]
  BY <1>1, <1>2, ConcatProperties
<1>5. ASSUME NEW j \in 1..(Len(s) - 1)
      PROVE  /\ j < i => (a \o b)[j] = s[j]
             /\ j >= i => (a \o b)[j] = s[j + 1]
  <2>1. CASE j < i
    BY <1>1, <1>2, <1>4, <2>1
  <2>2. CASE j >= i
    <3>1. (a \o b)[j] = b[j - (i - 1)]
      BY <1>1, <1>2, <1>4, <2>2
    <3>2. b[j - (i - 1)] = s[i + (j - (i - 1))]
      BY <1>2, <2>2
    <3>3. i + (j - (i - 1)) = j + 1
      OBVIOUS
    <3>4. QED
      BY <2>2, <3>1, <3>2, <3>3
  <2>3. QED
    BY <2>1, <2>2
<1>6. QED
  BY <1>1, <1>2, <1>3, <1>4, <1>5, SMTT(30)

\* The members that are left are the others, and the removed one if it was
\* there twice; a list without repetitions has none afterwards either.
LEMMA RemoveFirstFacts ==
  ASSUME NEW S, NEW s \in Seq(S), NEW e
  PROVE  /\ RemoveFirst(s, e) \in Seq(S)
         /\ e \in ToSet(s) => Len(RemoveFirst(s, e)) = Len(s) - 1
         /\ e \notin ToSet(s) => RemoveFirst(s, e) = s
         /\ ToSet(RemoveFirst(s, e)) \subseteq ToSet(s)
         /\ ToSet(s) \ {e} \subseteq ToSet(RemoveFirst(s, e))
         /\ IsInjective(s) => /\ IsInjective(RemoveFirst(s, e))
                              /\ e \notin ToSet(RemoveFirst(s, e))
<1>1. CASE e \notin ToSet(s)
  <2>1. ~\E i \in 1..Len(s) : s[i] = e
    BY <1>1 DEF ToSet
  <2>2. RemoveFirst(s, e) = s
    BY <2>1 DEF RemoveFirst
  <2>3. QED
    BY <1>1, <2>2
<1>2. CASE e \in ToSet(s)
  <2>1. PICK i \in 1..Len(s) : s[i] = e /\ RemoveFirst(s, e) = RemoveAt(s, i)
    BY <1>2, RemoveFirstAt
  <2> DEFINE t == RemoveFirst(s, e)
  <2>2. /\ t \in Seq(S) /\ Len(t) = Len(s) - 1
        /\ \A j \in 1..(Len(s) - 1) :
             (j < i => t[j] = s[j]) /\ (j >= i => t[j] = s[j + 1])
    BY <2>1, RemoveAtFacts
  <2> HIDE DEF t
  <2>3. ToSet(t) \subseteq ToSet(s)
    BY <2>2, SMTT(30) DEF ToSet
  <2>4. ASSUME NEW j \in 1..Len(s), s[j] # e PROVE s[j] \in ToSet(t)
    <3>1. CASE j < i
      BY <2>2, <3>1 DEF ToSet
    <3>2. CASE j > i
      <4>1. j - 1 \in DOMAIN t /\ t[j - 1] = s[j]
        BY <2>2, <3>2
      <4>2. QED
        BY <4>1 DEF ToSet
    <3>3. QED
      BY <2>1, <2>4, <3>1, <3>2
  <2>5. ASSUME IsInjective(s)
        PROVE  IsInjective(t) /\ e \notin ToSet(t)
    <3>1. \A j, k \in 1..Len(s) : s[j] = s[k] => j = k
      BY <2>5 DEF IsInjective
    <3>2. \A j, k \in 1..Len(t) : t[j] = t[k] => j = k
      BY <2>2, <3>1
    <3>3. \A j \in 1..Len(t) : t[j] # e
      BY <2>1, <2>2, <3>1
    <3>4. QED
      BY <2>2, <3>2, <3>3 DEF IsInjective, ToSet
  <2>6. ToSet(s) \ {e} \subseteq ToSet(t)
    BY <2>4 DEF ToSet
  <2>7. QED
    BY <1>2, <2>2, <2>3, <2>5, <2>6 DEF t
<1>3. QED
  BY <1>1, <1>2

\* A list with one entry more.
LEMMA AppendFacts ==
  ASSUME NEW S, NEW s \in Seq(S), NEW e \in S
  PROVE  /\ Append(s, e) \in Seq(S)
         /\ Len(Append(s, e)) = Len(s) + 1
         /\ ToSet(Append(s, e)) = ToSet(s) \cup {e}
         /\ IsInjective(s) /\ e \notin ToSet(s) => IsInjective(Append(s, e))
<1> DEFINE t == Append(s, e)
<1>1. /\ t \in Seq(S) /\ Len(t) = Len(s) + 1
      /\ \A i \in 1..Len(s) : t[i] = s[i]
      /\ t[Len(s) + 1] = e
  BY AppendProperties
<1> HIDE DEF t
<1>2. ToSet(t) = ToSet(s) \cup {e}
  BY <1>1 DEF ToSet
<1>3. IsInjective(s) /\ e \notin ToSet(s) => IsInjective(t)
  BY <1>1 DEF IsInjective, ToSet
<1>4. QED
  BY <1>1, <1>2, <1>3 DEF t

\* The members of a list are finitely many, and at most its length.
LEMMA ToSetBound ==
  ASSUME NEW S, NEW s \in Seq(S)
  PROVE  IsFiniteSet(ToSet(s)) /\ Cardinality(ToSet(s)) \in Nat
         /\ Cardinality(ToSet(s)) <= Len(s)
<1>1. Len(s) \in Nat /\ DOMAIN s = 1..Len(s) /\ s \in [1..Len(s) -> S]
  BY LenProperties
<1>2. s \in Surjection(1..Len(s), ToSet(s))
  BY <1>1 DEF Surjection, ToSet
<1>3. IsFiniteSet(1..Len(s)) /\ Cardinality(1..Len(s)) = Len(s)
  BY <1>1, FS_Interval
<1>4. QED
  BY <1>2, <1>3, FS_Surjection, FS_CardinalityType

-----------------------------------------------------------------------------
(* How many seats a group must have taken: those it shows, and those of its *)
(* seated clients that it does not show.                                   *)

Weight(s, C) == Len(s) + Cardinality(C \ ToSet(s))

\* A weight is a natural number.
LEMMA WeightType ==
  ASSUME NEW S, NEW s \in Seq(S), NEW C, IsFiniteSet(C)
  PROVE  /\ IsFiniteSet(C \ ToSet(s)) /\ Cardinality(C \ ToSet(s)) \in Nat
         /\ Weight(s, C) \in Nat /\ Len(s) <= Weight(s, C)
<1>1. IsFiniteSet(C \ ToSet(s))
  BY FS_Subset
<1>2. Cardinality(C \ ToSet(s)) \in Nat
  BY <1>1, FS_CardinalityType
<1>3. QED
  BY <1>1, <1>2 DEF Weight

\* Fewer seated clients weigh no more.
LEMMA WeightMonotonic ==
  ASSUME NEW S, NEW s \in Seq(S), NEW C, IsFiniteSet(C), NEW D, D \subseteq C
  PROVE  Weight(s, D) <= Weight(s, C)
<1>1. IsFiniteSet(D)
  BY FS_Subset
<1>2. D \ ToSet(s) \subseteq C \ ToSet(s)
  OBVIOUS
<1>3. Cardinality(D \ ToSet(s)) <= Cardinality(C \ ToSet(s))
  BY <1>2, WeightType, FS_Subset
<1>4. Cardinality(D \ ToSet(s)) \in Nat /\ Cardinality(C \ ToSet(s)) \in Nat
  BY <1>1, WeightType
<1>5. QED
  BY <1>3, <1>4 DEF Weight

\* Showing nobody weighs no more than showing anybody.
LEMMA WeightOfNone ==
  ASSUME NEW S, NEW s \in Seq(S), NEW C, IsFiniteSet(C)
  PROVE  Weight(<<>>, C) <= Weight(s, C)
<1> DEFINE T == ToSet(s)
<1>1. IsFiniteSet(T) /\ Cardinality(T) \in Nat /\ Cardinality(T) <= Len(s)
  BY ToSetBound
<1>2. /\ IsFiniteSet(C \ T) /\ Cardinality(C \ T) \in Nat
      /\ Weight(s, C) = Len(s) + Cardinality(C \ T)
  BY WeightType DEF Weight
<1>3. Weight(<<>>, C) = Cardinality(C)
  <2>1. ToSet(<<>>) = {}
    BY DEF ToSet
  <2>2. C \ ToSet(<<>>) = C
    BY <2>1
  <2>3. Cardinality(C) \in Nat
    BY FS_CardinalityType
  <2>4. Len(<<>>) = 0
    OBVIOUS
  <2>5. Weight(<<>>, C) = 0 + Cardinality(C)
    BY <2>2, <2>4 DEF Weight
  <2>6. QED
    BY <2>3, <2>5
<1> HIDE DEF T
<1>4. Cardinality((C \ T) \cup T) <= Cardinality(C \ T) + Cardinality(T)
  <2>1. /\ IsFiniteSet((C \ T) \cap T)
        /\ Cardinality((C \ T) \cap T) \in Nat
    BY <1>2, FS_Subset, FS_CardinalityType
  <2>2. Cardinality((C \ T) \cup T) =
          Cardinality(C \ T) + Cardinality(T) - Cardinality((C \ T) \cap T)
    BY <1>1, <1>2, FS_Union
  <2>3. QED
    BY <1>1, <1>2, <2>1, <2>2
<1>5. IsFiniteSet((C \ T) \cup T)
  BY <1>1, <1>2, FS_Union
<1>6. Cardinality(C) <= Cardinality((C \ T) \cup T)
  BY <1>5, FS_Subset
<1>7. Cardinality(C) \in Nat /\ Cardinality((C \ T) \cup T) \in Nat /\ Len(s) \in Nat
  BY <1>5, FS_CardinalityType
<1>8. QED
  BY <1>1, <1>2, <1>3, <1>4, <1>6, <1>7

\* A seat more, shown or not.
LEMMA WeightOfOneMore ==
  ASSUME NEW S, NEW s \in Seq(S), NEW p \in S, NEW C, IsFiniteSet(C)
  PROVE  /\ Weight(Append(s, p), C \cup {p}) <= Weight(s, C) + 1
         /\ Weight(s, C \cup {p}) <= Weight(s, C) + 1
<1> DEFINE T == ToSet(s)
           t == Append(s, p)
<1>1. t \in Seq(S) /\ Len(t) = Len(s) + 1 /\ ToSet(t) = T \cup {p}
  BY AppendFacts
<1>2. /\ IsFiniteSet(C \ T) /\ Cardinality(C \ T) \in Nat
      /\ Weight(s, C) = Len(s) + Cardinality(C \ T)
  BY WeightType DEF Weight
<1>3. IsFiniteSet(C \cup {p})
  BY FS_AddElement
<1>4. Len(s) \in Nat
  OBVIOUS
<1>5. Weight(t, C \cup {p}) <= Weight(s, C) + 1
  <2>1. (C \cup {p}) \ ToSet(t) \subseteq C \ T
    BY <1>1
  <2>2. Cardinality((C \cup {p}) \ ToSet(t)) <= Cardinality(C \ T)
    BY <1>2, <2>1, FS_Subset
  <2>3. Weight(t, C \cup {p}) = Len(t) + Cardinality((C \cup {p}) \ ToSet(t))
    BY DEF Weight
  <2>4. Cardinality((C \cup {p}) \ ToSet(t)) \in Nat
    BY <1>1, <1>3, WeightType
  <2> HIDE DEF t, T
  <2>5. QED
    BY <1>1, <1>2, <1>4, <2>2, <2>3, <2>4
<1>6. Weight(s, C \cup {p}) <= Weight(s, C) + 1
  <2>1. (C \cup {p}) \ T \subseteq (C \ T) \cup {p}
    OBVIOUS
  <2>2. /\ IsFiniteSet((C \ T) \cup {p})
        /\ Cardinality((C \ T) \cup {p}) <= Cardinality(C \ T) + 1
        /\ Cardinality((C \ T) \cup {p}) \in Nat
    <3>1. IsFiniteSet((C \ T) \cup {p})
      BY <1>2, FS_AddElement
    <3>2. \/ Cardinality((C \ T) \cup {p}) = Cardinality(C \ T)
          \/ Cardinality((C \ T) \cup {p}) = Cardinality(C \ T) + 1
      BY <1>2, FS_AddElement
    <3>3. QED
      BY <1>2, <3>1, <3>2
  <2>3. Cardinality((C \cup {p}) \ T) <= Cardinality((C \ T) \cup {p})
    BY <2>1, <2>2, FS_Subset
  <2>4. /\ Weight(s, C \cup {p}) = Len(s) + Cardinality((C \cup {p}) \ T)
        /\ Cardinality((C \cup {p}) \ T) \in Nat
    BY <1>3, WeightType DEF Weight
  <2> HIDE DEF t, T
  <2>5. QED
    BY <1>2, <1>4, <2>2, <2>3, <2>4
<1>7. QED
  BY <1>5, <1>6

\* A client that goes takes one seat with it, if it is seated at all.
LEMMA WeightOfOneLess ==
  ASSUME NEW S, NEW s \in Seq(S), NEW p, NEW C, IsFiniteSet(C)
  PROVE  /\ p \in C => Weight(RemoveFirst(s, p), C \ {p}) + 1 <= Weight(s, C)
         /\ p \notin C => Weight(RemoveFirst(s, p), C) <= Weight(s, C)
<1> DEFINE T == ToSet(s)
           t == RemoveFirst(s, p)
           U == ToSet(t)
<1>1. /\ t \in Seq(S)
      /\ p \in T => Len(t) = Len(s) - 1
      /\ p \notin T => t = s
      /\ T \ {p} \subseteq U
  BY RemoveFirstFacts
<1>2. /\ IsFiniteSet(C \ T) /\ Cardinality(C \ T) \in Nat
      /\ Weight(s, C) = Len(s) + Cardinality(C \ T)
  BY WeightType DEF Weight
<1>3. IsFiniteSet(C \ {p})
  BY FS_RemoveElement
<1>4. /\ Weight(t, C \ {p}) = Len(t) + Cardinality((C \ {p}) \ U)
      /\ Cardinality((C \ {p}) \ U) \in Nat
      /\ Weight(t, C) = Len(t) + Cardinality(C \ U)
      /\ Cardinality(C \ U) \in Nat
  BY <1>1, <1>3, WeightType DEF Weight
<1>5. Len(s) \in Nat /\ Len(t) \in Nat
  BY <1>1
<1> HIDE DEF T, t, U
<1>6. ASSUME p \in C
      PROVE  Weight(t, C \ {p}) + 1 <= Weight(s, C)
  <2>1. CASE p \in T
    <3>1. (C \ {p}) \ U \subseteq C \ T
      BY <1>1
    <3>2. Cardinality((C \ {p}) \ U) <= Cardinality(C \ T)
      BY <1>2, <3>1, FS_Subset
    <3>3. QED
      BY <1>1, <1>2, <1>4, <1>5, <2>1, <3>2
  <2>2. CASE p \notin T
    <3>1. t = s /\ U = T
      BY <1>1, <2>2 DEF T, U
    <3>2. (C \ {p}) \ U = (C \ T) \ {p}
      BY <3>1
    <3>3. Cardinality((C \ {p}) \ U) = Cardinality(C \ T) - 1
      BY <1>2, <1>6, <2>2, <3>2, FS_RemoveElement
    <3>4. QED
      BY <1>2, <1>4, <1>5, <3>1, <3>3
  <2>3. QED
    BY <2>1, <2>2
<1>7. ASSUME p \notin C
      PROVE  Weight(t, C) <= Weight(s, C)
  <2>1. C \ U \subseteq C \ T
    BY <1>1, <1>7
  <2>2. Cardinality(C \ U) <= Cardinality(C \ T)
    BY <1>2, <2>1, FS_Subset
  <2>3. Len(t) <= Len(s)
    BY <1>1, <1>5
  <2>4. QED
    BY <1>2, <1>4, <1>5, <2>2, <2>3
<1>8. QED
  BY <1>6, <1>7 DEF t

-----------------------------------------------------------------------------
(* Points and entries as records. *)

\* The groups of a point: how many seats of each are taken.
IsGroups(f) == DOMAIN f \subseteq Nat /\ f \in [DOMAIN f -> Nat]

\* The groups with a seat more, or less, of g; the flag of a point that is not
\* full; the record of a point.  Names of their own keep the provers from
\* looking inside.
OneMore(gs, g) == [gs EXCEPT ![g] = gs[g] + 1]
OneLess(gs, g) == [gs EXCEPT ![g] = gs[g] - 1]
NotFull == FALSE

PointOf(c, gs, f, e, t, a) ==
  [clients |-> c, groups |-> gs, full |-> f, expected |-> e, timeout |-> t, age |-> a]

\* An open point, and an entry of the summary.
IsPoint(x) ==
  /\ x = PointOf(x.clients, x.groups, x.full, x.expected, x.timeout, x.age)
  /\ x.clients \in Seq(Passports) /\ IsGroups(x.groups)
  /\ x.full \in BOOLEAN /\ x.expected \in Nat /\ x.timeout \in Nat /\ x.age \in Nat

IsEntry(e) ==
  /\ e = [total |-> e.total, groups |-> e.groups]
  /\ e.total \in Int
  /\ DOMAIN e.groups \subseteq Nat /\ e.groups \in [DOMAIN e.groups -> GroupType]

\* The fields of a point.
LEMMA PointFields ==
  ASSUME NEW c, NEW gs, NEW f, NEW e, NEW t, NEW a
  PROVE  /\ PointOf(c, gs, f, e, t, a).clients = c
    /\ PointOf(c, gs, f, e, t, a).groups = gs
    /\ PointOf(c, gs, f, e, t, a).full = f
    /\ PointOf(c, gs, f, e, t, a).expected = e
    /\ PointOf(c, gs, f, e, t, a).timeout = t
    /\ PointOf(c, gs, f, e, t, a).age = a
  BY DEF PointOf

\* Seated, field by field.
LEMMA SeatedRecord ==
  ASSUME NEW c, NEW gs, NEW f, NEW e, NEW t, NEW a, NEW g, NEW p,
         NEW h, h = OneMore(gs, g)
  PROVE  Seated(PointOf(c, gs, f, e, t, a), g, p)
         = PointOf(Append(c, p), h, f, e, t, a)
<1> DEFINE x == PointOf(c, gs, f, e, t, a)
           d == Append(c, p)
<1>1. Seated(x, g, p) = [[x EXCEPT !.groups = [x.groups EXCEPT ![g] = x.groups[g] + 1]]
                           EXCEPT !.clients = Append(x.clients, p)]
  BY Zenon DEF Seated
<1>2. x.groups = gs /\ x.clients = c
  BY PointFields
<1> HIDE DEF x, d
<1>3. Seated(x, g, p) = [[x EXCEPT !.groups = h] EXCEPT !.clients = d]
  BY <1>1, <1>2, Zenon DEF d, OneMore
<1>4. [x EXCEPT !.groups = h] = PointOf(c, h, f, e, t, a)
  BY DEF x, PointOf
<1>5. [PointOf(c, h, f, e, t, a) EXCEPT !.clients = d] = PointOf(d, h, f, e, t, a)
  BY DEF PointOf
<1>6. QED
  BY <1>3, <1>4, <1>5, Zenon DEF x, d

\* What Vacate makes of a point that lists the client.
GivenBack(x, g, p) ==
  [x EXCEPT !.clients = RemoveFirst(@, p), !.groups[g] = @ - 1, !.full = FALSE]

\* GivenBack, field by field.
LEMMA VacatedRecord ==
  ASSUME NEW c, NEW gs, NEW f, NEW e, NEW t, NEW a, NEW g, NEW p,
         NEW h, h = OneLess(gs, g)
  PROVE  GivenBack(PointOf(c, gs, f, e, t, a), g, p)
         = PointOf(RemoveFirst(c, p), h, NotFull, e, t, a)
<1> DEFINE x == PointOf(c, gs, f, e, t, a)
           d == RemoveFirst(c, p)
           y == [x EXCEPT !.clients = RemoveFirst(x.clients, p)]
           fa == NotFull
<1>1. GivenBack(x, g, p)
      = [[y EXCEPT !.groups = [y.groups EXCEPT ![g] = y.groups[g] - 1]] EXCEPT !.full = fa]
  BY Zenon DEF GivenBack, NotFull
<1>2. x.groups = gs /\ x.clients = c
  BY PointFields
<1> HIDE DEF x, d, fa
<1>3. y = [x EXCEPT !.clients = d]
  BY <1>2, Zenon DEF d
<1> HIDE DEF y
<1>4. y = PointOf(d, gs, f, e, t, a)
  BY <1>3 DEF x, PointOf
<1>5. y.groups = gs
  BY <1>4, PointFields
<1>6. [[y EXCEPT !.groups = [y.groups EXCEPT ![g] = y.groups[g] - 1]] EXCEPT !.full = fa]
      = [[y EXCEPT !.groups = h] EXCEPT !.full = fa]
  BY <1>5, Zenon DEF OneLess
<1>7. [y EXCEPT !.groups = h] = PointOf(d, h, f, e, t, a)
  BY <1>4 DEF PointOf
<1>8. [PointOf(d, h, f, e, t, a) EXCEPT !.full = fa] = PointOf(d, h, fa, e, t, a)
  BY DEF PointOf
<1>9. GivenBack(x, g, p) = PointOf(d, h, fa, e, t, a)
  BY <1>1, <1>6, <1>7, <1>8, Zenon
<1>10. QED
  BY <1>9, Zenon DEF x, d, fa

\* A point is not the record that stands for a closed one.
LEMMA PointIsOpen ==
  ASSUME NEW x, IsPoint(x)
  PROVE  x # Closed /\ IsRdv(x)
<1>1. DOMAIN x = {"clients", "groups", "full", "expected", "timeout", "age"}
  BY DEF IsPoint, PointOf
<1>2. DOMAIN Closed = {"clients"}
  BY DEF Closed
<1>3. x # Closed
  <2>1. "full" \in DOMAIN x /\ "full" \notin DOMAIN Closed
    BY <1>1, <1>2
  <2>2. QED
    BY <2>1
<1>4. \A g \in DOMAIN x.groups : g \in Nat /\ x.groups[g] \in Nat
  BY DEF IsPoint, IsGroups
<1>5. QED
  BY <1>1, <1>3, <1>4 DEF IsPoint, IsRdv

\* An entry is not the record that stands for none.
LEMMA EntryIsEntry ==
  ASSUME NEW e, IsEntry(e)
  PROVE  e # NoEntry
<1>1. DOMAIN e = {"total", "groups"}
  BY DEF IsEntry
<1>2. DOMAIN NoEntry = {"total"}
  BY DEF NoEntry
<1>3. "groups" \in DOMAIN e /\ "groups" \notin DOMAIN NoEntry
  BY <1>1, <1>2
<1>4. QED
  BY <1>3

\* Parameters are not the record that stands for none.
LEMMA ParamIsParam ==
  ASSUME NEW x \in Param
  PROVE  x # NoParam
<1>1. DOMAIN x = {"groupNum", "vupNum", "expected", "timeout"}
  BY DEF Param
<1>2. DOMAIN NoParam = {"groupNum"}
  BY DEF NoParam
<1>3. "timeout" \in DOMAIN x /\ "timeout" \notin DOMAIN NoParam
  BY <1>1, <1>2
<1>4. QED
  BY <1>3

-----------------------------------------------------------------------------
(* A point that is opened, takes a client, loses one. *)

\* A point that is opened has no clients and no seats taken.
LEMMA OpenedFacts ==
  ASSUME NEW r, ParamOf(r) # NoParam => ParamOf(r) \in Param
  PROVE  /\ IsPoint(Opened(r))
         /\ Opened(r).clients = <<>> /\ Opened(r).full = FALSE
         /\ ParamOf(r) = NoParam => DOMAIN Opened(r).groups = {0}
         /\ ParamOf(r) # NoParam =>
              DOMAIN Opened(r).groups = 0..(ParamOf(r).groupNum - 1)
         /\ \A g \in DOMAIN Opened(r).groups : Opened(r).groups[g] = 0
<1>1. CASE ParamOf(r) = NoParam
  <2>1. Opened(r) = [clients |-> <<>>, groups |-> [g \in {0} |-> 0], full |-> FALSE,
                     expected |-> 9999, timeout |-> DefaultTimeout, age |-> 0]
    BY <1>1 DEF Opened
  <2>2. IsGroups([g \in {0} |-> 0])
    BY DEF IsGroups
  <2>3. <<>> \in Seq(Passports) /\ DefaultTimeout \in Nat
    BY RdvAssumption
  <2>4. IsPoint(Opened(r))
    BY <2>1, <2>2, <2>3 DEF IsPoint, PointOf
  <2>5. QED
    BY <1>1, <2>1, <2>4
<1>2. CASE ParamOf(r) # NoParam
  <2> DEFINE D == 0..(ParamOf(r).groupNum - 1)
  <2>1. Opened(r) = [clients |-> <<>>, groups |-> [g \in D |-> 0], full |-> FALSE,
                     expected |-> ParamOf(r).expected,
                     timeout |-> ParamOf(r).timeout, age |-> 0]
    BY <1>2 DEF Opened
  <2>2. /\ ParamOf(r).groupNum \in Nat /\ ParamOf(r).expected \in Nat
        /\ ParamOf(r).timeout \in Nat
    BY <1>2 DEF Param
  <2>3. IsGroups([g \in D |-> 0])
    BY <2>2 DEF IsGroups
  <2>4. <<>> \in Seq(Passports)
    OBVIOUS
  <2>5. IsPoint(Opened(r))
    BY <2>1, <2>2, <2>3, <2>4 DEF IsPoint, PointOf
  <2>6. QED
    BY <1>2, <2>1, <2>5
<1>3. QED
  BY <1>1, <1>2

\* A point that takes a client.
LEMMA SeatedFacts ==
  ASSUME NEW x, IsPoint(x), NEW g \in DOMAIN x.groups, NEW p \in Passports
  PROVE  /\ IsPoint(Seated(x, g, p))
         /\ Seated(x, g, p).clients = Append(x.clients, p)
         /\ Seated(x, g, p).full = x.full
         /\ DOMAIN Seated(x, g, p).groups = DOMAIN x.groups
         /\ Seated(x, g, p).groups[g] = x.groups[g] + 1
         /\ \A h \in DOMAIN x.groups : h # g => Seated(x, g, p).groups[h] = x.groups[h]
<1> DEFINE y == Seated(x, g, p)
           f == [x.groups EXCEPT ![g] = @ + 1]
<1>1. y = PointOf(Append(x.clients, p), f, x.full, x.expected, x.timeout, x.age)
  <2>1. PICK c, gs, fu, ex, ti, ag :
          /\ x = PointOf(c, gs, fu, ex, ti, ag)
          /\ c = x.clients /\ gs = x.groups /\ fu = x.full
          /\ ex = x.expected /\ ti = x.timeout /\ ag = x.age
    BY DEF IsPoint
  <2>2. f = OneMore(gs, g)
    BY <2>1, Zenon DEF OneMore
  <2>3. y = Seated(PointOf(c, gs, fu, ex, ti, ag), g, p)
    BY <2>1
  <2> HIDE DEF f, y
  <2>4. Seated(PointOf(c, gs, fu, ex, ti, ag), g, p) =
          PointOf(Append(c, p), f, fu, ex, ti, ag)
    BY <2>2, SeatedRecord
  <2>5. QED
    BY <2>1, <2>3, <2>4, Zenon
<1>2. /\ IsGroups(f) /\ DOMAIN f = DOMAIN x.groups /\ f[g] = x.groups[g] + 1
      /\ \A h \in DOMAIN x.groups : h # g => f[h] = x.groups[h]
  BY DEF IsPoint, IsGroups
<1>3. Append(x.clients, p) \in Seq(Passports)
  BY AppendFacts DEF IsPoint
<1> HIDE DEF f, y
<1>4. /\ y.clients = Append(x.clients, p) /\ y.groups = f /\ y.full = x.full
      /\ y.expected = x.expected /\ y.timeout = x.timeout /\ y.age = x.age
  BY <1>1 DEF PointOf
<1>5. IsPoint(y)
  BY <1>1, <1>2, <1>3, <1>4 DEF IsPoint
<1>6. QED
  BY <1>2, <1>4, <1>5 DEF y

\* A point that loses a client and its seat.
LEMMA VacatedFacts ==
  ASSUME NEW x, IsPoint(x), NEW g \in DOMAIN x.groups, x.groups[g] >= 1, NEW p,
         NEW y, y = GivenBack(x, g, p)
  PROVE  /\ IsPoint(y)
         /\ y.clients = RemoveFirst(x.clients, p) /\ ~y.full
         /\ DOMAIN y.groups = DOMAIN x.groups
         /\ y.groups[g] = x.groups[g] - 1
         /\ \A h \in DOMAIN x.groups : h # g => y.groups[h] = x.groups[h]
<1> DEFINE f == [x.groups EXCEPT ![g] = @ - 1]
<1>1. y = PointOf(RemoveFirst(x.clients, p), f, NotFull, x.expected, x.timeout, x.age)
  <2>1. PICK c, gs, fu, ex, ti, ag :
          /\ x = PointOf(c, gs, fu, ex, ti, ag)
          /\ c = x.clients /\ gs = x.groups /\ fu = x.full
          /\ ex = x.expected /\ ti = x.timeout /\ ag = x.age
    BY DEF IsPoint
  <2>2. f = OneLess(gs, g)
    BY <2>1, Zenon DEF OneLess
  <2>3. y = GivenBack(PointOf(c, gs, fu, ex, ti, ag), g, p)
    BY <2>1
  <2> HIDE DEF f
  <2>4. GivenBack(PointOf(c, gs, fu, ex, ti, ag), g, p) =
          PointOf(RemoveFirst(c, p), f, NotFull, ex, ti, ag)
    BY <2>2, VacatedRecord
  <2>5. QED
    BY <2>1, <2>3, <2>4, Zenon
<1>2. /\ IsGroups(f) /\ DOMAIN f = DOMAIN x.groups /\ f[g] = x.groups[g] - 1
      /\ \A h \in DOMAIN x.groups : h # g => f[h] = x.groups[h]
  BY DEF IsPoint, IsGroups
<1>3. RemoveFirst(x.clients, p) \in Seq(Passports)
  BY RemoveFirstFacts DEF IsPoint
<1> HIDE DEF f
<1>4. /\ y.clients = RemoveFirst(x.clients, p) /\ y.groups = f /\ y.full = NotFull
      /\ y.expected = x.expected /\ y.timeout = x.timeout /\ y.age = x.age
  BY <1>1 DEF PointOf
<1>5. y = PointOf(y.clients, y.groups, y.full, y.expected, y.timeout, y.age)
  BY <1>1, <1>4
<1>6. NotFull \in BOOLEAN /\ (NotFull = FALSE)
  BY DEF NotFull
<1>7. IsPoint(y)
  BY <1>2, <1>3, <1>4, <1>5, <1>6 DEF IsPoint
<1>8. QED
  BY <1>2, <1>4, <1>6, <1>7

-----------------------------------------------------------------------------
(* The seats taken of a point, counted. *)

\* No groups taken, no seats taken.
LEMMA NoSeatsTaken ==
  ASSUME NEW x, \A g \in DOMAIN x.groups : x.groups[g] = 0
  PROVE  IsFiniteSet(TakenSeats(x)) /\ Cardinality(TakenSeats(x)) = 0
<1>1. TakenSeats(x) = {}
  BY DEF TakenSeats
<1>2. QED
  BY <1>1, FS_EmptySet

\* One client more in a group is one seat more.
LEMMA OneSeatTaken ==
  ASSUME NEW x, IsGroups(x.groups), NEW y, IsGroups(y.groups),
         NEW g \in DOMAIN x.groups, DOMAIN y.groups = DOMAIN x.groups,
         y.groups[g] = x.groups[g] + 1,
         \A h \in DOMAIN x.groups : h # g => y.groups[h] = x.groups[h]
  PROVE  /\ TakenSeats(y) = TakenSeats(x) \cup {<<g, x.groups[g] + 1>>}
         /\ <<g, x.groups[g] + 1>> \notin TakenSeats(x)
<1>1. ASSUME NEW z, IsGroups(z.groups)
      PROVE  \A s : s \in TakenSeats(z) <=>
               \E h \in DOMAIN z.groups : \E k \in 1..z.groups[h] : s = <<h, k>>
  BY DEF TakenSeats
<1>2. x.groups[g] \in Nat
  BY DEF IsGroups
<1>3. 1..y.groups[g] = (1..x.groups[g]) \cup {x.groups[g] + 1}
  BY <1>2
<1>4. ASSUME NEW s
      PROVE  s \in TakenSeats(y) <=> s \in TakenSeats(x) \cup {<<g, x.groups[g] + 1>>}
  <2>1. ASSUME s \in TakenSeats(y)
        PROVE  s \in TakenSeats(x) \cup {<<g, x.groups[g] + 1>>}
    <3>1. PICK h \in DOMAIN y.groups : \E k \in 1..y.groups[h] : s = <<h, k>>
      BY <1>1, <2>1
    <3>2. CASE h = g
      BY <1>1, <1>3, <3>1, <3>2
    <3>3. CASE h # g
      BY <1>1, <3>1, <3>3
    <3>4. QED
      BY <3>2, <3>3
  <2>2. ASSUME s \in TakenSeats(x)
        PROVE  s \in TakenSeats(y)
    <3>1. PICK h \in DOMAIN x.groups : \E k \in 1..x.groups[h] : s = <<h, k>>
      BY <1>1, <2>2
    <3>2. 1..x.groups[h] \subseteq 1..y.groups[h]
      BY <1>3
    <3>3. QED
      BY <1>1, <3>1, <3>2
  <2>3. <<g, x.groups[g] + 1>> \in TakenSeats(y)
    <3>1. x.groups[g] + 1 \in 1..y.groups[g]
      BY <1>3
    <3>2. QED
      BY <1>1, <3>1
  <2>4. QED
    BY <2>1, <2>2, <2>3
<1>5. <<g, x.groups[g] + 1>> \notin TakenSeats(x)
  BY <1>1, <1>2
<1>6. QED
  BY <1>4, <1>5

\* The groups of y have one client more than those of x, in group g.
OneSeatMore(x, y, g) ==
  /\ IsGroups(x.groups) /\ IsGroups(y.groups)
  /\ g \in DOMAIN x.groups /\ DOMAIN y.groups = DOMAIN x.groups
  /\ y.groups[g] = x.groups[g] + 1
  /\ \A h \in DOMAIN x.groups : h # g => y.groups[h] = x.groups[h]

\* One more client, one more seat; and the other way round.
LEMMA SeatsCounted ==
  ASSUME NEW x, NEW y, NEW g, OneSeatMore(x, y, g)
  PROVE  /\ IsFiniteSet(TakenSeats(x)) <=> IsFiniteSet(TakenSeats(y))
         /\ IsFiniteSet(TakenSeats(x)) =>
              Cardinality(TakenSeats(y)) = Cardinality(TakenSeats(x)) + 1
<1>1. /\ TakenSeats(y) = TakenSeats(x) \cup {<<g, x.groups[g] + 1>>}
      /\ <<g, x.groups[g] + 1>> \notin TakenSeats(x)
  BY OneSeatTaken DEF OneSeatMore
<1>2. TakenSeats(x) \subseteq TakenSeats(y)
  BY <1>1
<1>3. QED
  BY <1>1, <1>2, FS_AddElement, FS_Subset

\* A point that is flagged full.
LEMMA FullFacts ==
  ASSUME NEW x, IsPoint(x)
  PROVE  LET y == [x EXCEPT !.full = TRUE]
         IN /\ IsPoint(y)
            /\ y.clients = x.clients /\ y.groups = x.groups /\ y.full = TRUE
<1> DEFINE tt == TRUE
           y == [x EXCEPT !.full = tt]
<1>1. PICK c, gs, fu, ex, ti, ag :
        /\ x = PointOf(c, gs, fu, ex, ti, ag)
        /\ c = x.clients /\ gs = x.groups /\ fu = x.full
        /\ ex = x.expected /\ ti = x.timeout /\ ag = x.age
  BY DEF IsPoint
<1>2. tt \in BOOLEAN /\ (tt = TRUE)
  OBVIOUS
<1> HIDE DEF tt
<1>3. y = PointOf(c, gs, tt, ex, ti, ag)
  BY <1>1 DEF PointOf
<1> HIDE DEF y
<1>4. /\ y.clients = x.clients /\ y.groups = x.groups /\ y.full = tt
      /\ y.expected = x.expected /\ y.timeout = x.timeout /\ y.age = x.age
  BY <1>1, <1>3 DEF PointOf
<1>5. y = PointOf(y.clients, y.groups, y.full, y.expected, y.timeout, y.age)
  BY <1>1, <1>3, <1>4
<1>6. IsPoint(y)
  BY <1>2, <1>4, <1>5 DEF IsPoint
<1>7. QED
  BY <1>2, <1>4, <1>6, Zenon DEF y, tt

\* A point that ages, up to its time-out.
Aged(x, dt) == [x EXCEPT !.age = IF @ >= x.timeout THEN @ ELSE @ + dt]

\* Nothing else of it changes.
LEMMA AgedFacts ==
  ASSUME NEW x, IsPoint(x), NEW dt \in {0, 1}
  PROVE  /\ IsPoint(Aged(x, dt)) /\ Aged(x, dt).clients = x.clients
         /\ Aged(x, dt).groups = x.groups /\ Aged(x, dt).full = x.full
<1> DEFINE v == IF x.age >= x.timeout THEN x.age ELSE x.age + dt
           y == [x EXCEPT !.age = v]
<1>1. PICK c, gs, fu, ex, ti, ag :
        /\ x = PointOf(c, gs, fu, ex, ti, ag)
        /\ c = x.clients /\ gs = x.groups /\ fu = x.full
        /\ ex = x.expected /\ ti = x.timeout /\ ag = x.age
  BY DEF IsPoint
<1>2. v \in Nat
  BY DEF IsPoint
<1> HIDE DEF v
<1>3. y = PointOf(c, gs, fu, ex, ti, v)
  BY <1>1 DEF PointOf
<1> HIDE DEF y
<1>4. /\ y.clients = x.clients /\ y.groups = x.groups /\ y.full = x.full
      /\ y.expected = x.expected /\ y.timeout = x.timeout /\ y.age = v
  BY <1>1, <1>3 DEF PointOf
<1>5. y = PointOf(y.clients, y.groups, y.full, y.expected, y.timeout, y.age)
  BY <1>1, <1>3, <1>4
<1>6. IsPoint(y)
  BY <1>2, <1>4, <1>5 DEF IsPoint
<1>7. QED
  BY <1>4, <1>6 DEF y, v, Aged

-----------------------------------------------------------------------------
(* The summary entry of a point. *)

\* A group of the summary; one that is not there shows nobody.
GroupIn(e, g) ==
  IF e # NoEntry /\ g \in DOMAIN e.groups THEN e.groups[g] ELSE EmptyGroup
Shown(e, g) == GroupIn(e, g).passports
TotalIn(e) == IF e = NoEntry THEN 0 ELSE e.total

\* What an entry shows of a group is well typed.
LEMMA GroupInType ==
  ASSUME NEW e, e # NoEntry => IsEntry(e), NEW g
  PROVE  GroupIn(e, g) \in GroupType /\ Shown(e, g) \in Seq(Passports) /\ TotalIn(e) \in Int
<1>1. EmptyGroup \in GroupType
  BY DEF EmptyGroup, GroupType
<1>2. GroupIn(e, g) \in GroupType
  BY <1>1 DEF GroupIn, IsEntry
<1>3. QED
  BY <1>2 DEF Shown, GroupType, TotalIn, IsEntry

\* What UpdateGroupInfo makes of an entry when a seat is added.
LEMMA EnterFacts ==
  ASSUME NEW r \in Points, NEW n \in Nat, NEW g \in Nat, NEW max \in Int,
         NEW p \in Passports, summary = [q \in Points |-> summary[q]],
         summary[r] # NoEntry => IsEntry(summary[r]), Enter(r, n, g, max, p)
  PROVE  /\ summary' = [summary EXCEPT ![r] = summary'[r]]
         /\ IsEntry(summary'[r])
         /\ DOMAIN summary'[r].groups = 0..(n - 1)
         /\ g >= n => summary'[r].total = TotalIn(summary[r])
         /\ g < n => /\ summary'[r].total = TotalIn(summary[r]) + 1
                     /\ summary'[r].groups[g] =
                          [cur |-> GroupIn(summary[r], g).cur + 1, max |-> max,
                           passports |-> Append(Shown(summary[r], g), p)]
         /\ \A i \in 0..(n - 1) : i # g =>
              summary'[r].groups[i] = GroupIn(summary[r], i)
<1> DEFINE old == IF summary[r] = NoEntry THEN [total |-> 0, groups |-> <<>>]
                  ELSE summary[r]
           D == 0..(n - 1)
           sized == [i \in D |-> IF i \in DOMAIN old.groups THEN old.groups[i]
                                 ELSE EmptyGroup]
           seated == [sized EXCEPT ![g] = [cur |-> @.cur + 1, max |-> max,
                                           passports |-> Append(@.passports, p)]]
           e == IF g \in DOMAIN sized THEN [total |-> old.total + 1, groups |-> seated]
                ELSE [total |-> old.total, groups |-> sized]
           G == [i \in D |-> GroupIn(summary[r], i)]
           new == [cur |-> GroupIn(summary[r], g).cur + 1, max |-> max,
                   passports |-> Append(Shown(summary[r], g), p)]
<1>1. summary' = [summary EXCEPT ![r] = e]
  BY Zenon DEF Enter
<1>2. old.total = TotalIn(summary[r])
  BY DEF TotalIn
<1>3. sized = G
  <2>1. CASE summary[r] = NoEntry
    BY <2>1 DEF GroupIn
  <2>2. CASE summary[r] # NoEntry
    BY <2>2 DEF GroupIn
  <2>3. QED
    BY <2>1, <2>2
<1> HIDE DEF old, sized
<1>4. GroupIn(summary[r], g) \in GroupType /\ TotalIn(summary[r]) \in Int
  BY GroupInType
<1>5. new \in GroupType
  BY <1>4, AppendFacts DEF GroupType, Shown
<1>6. ASSUME g \in D
      PROVE  seated = [G EXCEPT ![g] = new]
  <2>1. G[g] = GroupIn(summary[r], g)
    BY <1>6
  <2> HIDE DEF G
  <2>2. new = [cur |-> G[g].cur + 1, max |-> max, passports |-> Append(G[g].passports, p)]
    BY <2>1 DEF Shown
  <2> HIDE DEF new
  <2>3. QED
    BY <1>3, <2>2
<1> DEFINE f == [G EXCEPT ![g] = new]
<1>7. /\ G \in [D -> GroupType] /\ \A i \in D : G[i] = GroupIn(summary[r], i)
  BY GroupInType
<1>8. /\ f \in [D -> GroupType]
      /\ g \in D => f[g] = new
      /\ \A i \in D : i # g => f[i] = G[i]
  BY <1>5, <1>7
<1>9. D \subseteq Nat /\ DOMAIN sized = D /\ (g \in D <=> g < n)
  BY <1>3, <1>7
<1>10. CASE g \in D
  <2>1. e = [total |-> TotalIn(summary[r]) + 1, groups |-> f]
    BY <1>2, <1>6, <1>9, <1>10
  <2>2. summary'[r] = e
    BY <1>1
  <2> HIDE DEF e, f, G, new
  <2>3. IsEntry(summary'[r])
    BY <1>4, <1>8, <1>9, <2>1, <2>2 DEF IsEntry
  <2>4. summary' = [summary EXCEPT ![r] = summary'[r]]
    BY <1>1, <2>2
  <2>5. summary'[r].total = TotalIn(summary[r]) + 1 /\ summary'[r].groups = f
    BY <2>1, <2>2
  <2>6. DOMAIN f = D
    BY <1>8
  <2>7. summary'[r].groups[g] =
          [cur |-> GroupIn(summary[r], g).cur + 1, max |-> max,
           passports |-> Append(Shown(summary[r], g), p)]
    BY <1>8, <1>10, <2>5, Zenon DEF new
  <2>8. QED
    BY <1>7, <1>8, <1>9, <1>10, <2>3, <2>4, <2>5, <2>6, <2>7
<1>11. CASE g \notin D
  <2>1. e = [total |-> TotalIn(summary[r]), groups |-> G]
    BY <1>2, <1>3, <1>9, <1>11
  <2>2. summary'[r] = e
    BY <1>1
  <2> HIDE DEF e, f, G, new
  <2>3. IsEntry(summary'[r])
    BY <1>4, <1>7, <1>9, <2>1, <2>2 DEF IsEntry
  <2>4. QED
    BY <1>1, <1>7, <1>9, <1>11, <2>1, <2>2, <2>3
<1>12. QED
  BY <1>10, <1>11

\* The total of an entry without one seat of group g.
TotalLess(e, g) == IF g \in DOMAIN e.groups THEN e.total - 1 ELSE e.total

\* What UpdateGroupInfo makes of an entry when a seat is removed.
LEMMA EraseFacts ==
  ASSUME NEW r \in Points, NEW g, NEW p,
         summary = [q \in Points |-> summary[q]], NoPoint \notin Points,
         summary[r] # NoEntry, IsEntry(summary[r]), Erase(r, g, p)
  PROVE  /\ summary' = [summary EXCEPT ![r] = summary'[r]]
         /\ TotalLess(summary[r], g) = 0 => summary'[r] = NoEntry
         /\ TotalLess(summary[r], g) # 0 =>
              /\ IsEntry(summary'[r])
              /\ summary'[r].total = TotalLess(summary[r], g)
              /\ DOMAIN summary'[r].groups = DOMAIN summary[r].groups
              /\ \A i \in DOMAIN summary[r].groups : i # g =>
                   summary'[r].groups[i] = summary[r].groups[i]
              /\ g \in DOMAIN summary[r].groups =>
                   summary'[r].groups[g] =
                     [cur |-> summary[r].groups[g].cur - 1,
                      max |-> summary[r].groups[g].max,
                      passports |-> RemoveFirst(summary[r].groups[g].passports, p)]
<1> DEFINE D == DOMAIN summary[r].groups
           G == summary[r].groups
           known == g \in D
           total == summary[r].total - (IF known THEN 1 ELSE 0)
           less == [G EXCEPT ![g] = [cur |-> @.cur - 1, max |-> @.max,
                                     passports |-> RemoveFirst(@.passports, p)]]
           left == IF known THEN less ELSE G
           e == IF total = 0 THEN NoEntry ELSE [total |-> total, groups |-> left]
           new == [cur |-> G[g].cur - 1, max |-> G[g].max,
                   passports |-> RemoveFirst(G[g].passports, p)]
<1>1. summary' = [summary EXCEPT ![r] = e]
  BY Zenon DEF Erase
<1>2. summary[r].total \in Int /\ D \subseteq Nat /\ G \in [D -> GroupType]
  BY DEF IsEntry
<1>3. total = TotalLess(summary[r], g) /\ total \in Int
  BY <1>2 DEF TotalLess
<1>4. ASSUME known PROVE G[g] \in GroupType /\ new \in GroupType
  <2>1. G[g] \in GroupType
    BY <1>2, <1>4
  <2>2. /\ RemoveFirst(G[g].passports, p) \in Seq(Passports)
        /\ G[g].cur \in Int /\ G[g].max \in Int
    BY <2>1, RemoveFirstFacts DEF GroupType
  <2>3. QED
    BY <2>1, <2>2 DEF GroupType
<1>5. less = [G EXCEPT ![g] = new]
  OBVIOUS
<1> HIDE DEF new, less, total
<1>6. /\ left \in [D -> GroupType]
      /\ \A i \in D : i # g => left[i] = G[i]
      /\ known => left[g] = new
  BY <1>2, <1>4, <1>5
<1> HIDE DEF left
<1>7. summary'[r] = e /\ summary' = [summary EXCEPT ![r] = summary'[r]]
  BY <1>1
<1>8. CASE total = 0
  BY <1>3, <1>7, <1>8
<1>9. CASE total # 0
  <2>1. summary'[r] = [total |-> total, groups |-> left]
    BY <1>7, <1>9
  <2> HIDE DEF e
  <2>2. summary'[r].total = total /\ summary'[r].groups = left /\ DOMAIN left = D
    BY <1>6, <2>1
  <2>3. IsEntry(summary'[r])
    BY <1>2, <1>3, <1>6, <2>1, <2>2 DEF IsEntry
  <2>4. known => summary'[r].groups[g] = new
    BY <1>6, <2>2
  <2>5. QED
    BY <1>3, <1>6, <1>7, <1>9, <2>2, <2>3, <2>4 DEF new
<1>10. QED
  BY <1>8, <1>9

-----------------------------------------------------------------------------
(* The invariant. *)

\* The listed clients whose point is r and whose group is g.
Seatees(x, r, g, pt, gr) == {p \in ToSet(x.clients) : pt[p] = r /\ gr[p] = g}

\* A group has a seat for everyone it shows and for every seated client it does
\* not show; groups that the point does not have show nobody; as many seats are
\* taken as clients listed.
SeatsHold(x, r, pt, gr, e) ==
  /\ \A g \in DOMAIN x.groups :
       Weight(Shown(e, g), Seatees(x, r, g, pt, gr)) <= x.groups[g]
  /\ e # NoEntry =>
       \A g \in DOMAIN e.groups \ DOMAIN x.groups : e.groups[g].passports = <<>>
  /\ \A p \in ToSet(x.clients) : pt[p] = r /\ gr[p] >= 0 => gr[p] \in DOMAIN x.groups
  /\ IsFiniteSet(TakenSeats(x)) /\ Cardinality(TakenSeats(x)) = Len(x.clients)

\* A group shows no more clients than its limit.
Fits(data) == data.max # Infinite => Len(data.passports) <= data.max
EntryFits(e) == \A g \in DOMAIN e.groups : Fits(e.groups[g])

\* Finitely many clients are seated.
LEMMA SeateesFinite ==
  ASSUME NEW x, x.clients \in Seq(Passports), NEW r, NEW g, NEW pt, NEW gr
  PROVE  IsFiniteSet(Seatees(x, r, g, pt, gr))
<1>1. IsFiniteSet(ToSet(x.clients))
  BY ToSetBound
<1>2. Seatees(x, r, g, pt, gr) \subseteq ToSet(x.clients)
  BY DEF Seatees
<1>3. QED
  BY <1>1, <1>2, FS_Subset

\* A group shows nobody that its point does not have.
LEMMA ShownNobody ==
  ASSUME NEW x, NEW r, NEW pt, NEW gr, NEW e, SeatsHold(x, r, pt, gr, e),
         NEW g, g \notin DOMAIN x.groups
  PROVE  Shown(e, g) = <<>>
<1>1. CASE e # NoEntry /\ g \in DOMAIN e.groups
  BY <1>1 DEF Shown, GroupIn, SeatsHold
<1>2. CASE ~(e # NoEntry /\ g \in DOMAIN e.groups)
  BY <1>2 DEF Shown, GroupIn, EmptyGroup
<1>3. QED
  BY <1>1, <1>2

\* Nobody takes a seat or gives one back.
LEMMA SeatsKept ==
  ASSUME NEW x, IsPoint(x), NEW y, y.clients = x.clients, y.groups = x.groups,
         NEW r, NEW pt, NEW gr, NEW pt2, NEW gr2, NEW e,
         e # NoEntry => IsEntry(e), SeatsHold(x, r, pt, gr, e),
         \A q \in Passports : pt2[q] = r /\ gr2[q] >= 0 => pt[q] = r /\ gr[q] = gr2[q]
  PROVE  SeatsHold(y, r, pt2, gr2, e)
<1>1. ToSet(x.clients) \subseteq Passports /\ DOMAIN x.groups \subseteq Nat
  BY DEF IsPoint, IsGroups, ToSet
<1>2. ASSUME NEW g \in DOMAIN y.groups
      PROVE  Weight(Shown(e, g), Seatees(y, r, g, pt2, gr2)) <= y.groups[g]
  <2> DEFINE C == Seatees(x, r, g, pt, gr)
             D == Seatees(y, r, g, pt2, gr2)
  <2>1. D \subseteq C
    BY <1>1 DEF Seatees
  <2>2. IsFiniteSet(C) /\ IsFiniteSet(D)
    BY <2>1, SeateesFinite, FS_Subset DEF IsPoint
  <2>3. Shown(e, g) \in Seq(Passports)
    BY GroupInType
  <2> HIDE DEF C, D
  <2>4. Weight(Shown(e, g), D) <= Weight(Shown(e, g), C)
    BY <2>1, <2>2, <2>3, WeightMonotonic
  <2>5. Weight(Shown(e, g), D) \in Nat /\ Weight(Shown(e, g), C) \in Nat
    BY <2>2, <2>3, WeightType
  <2>6. Weight(Shown(e, g), C) <= y.groups[g]
    BY DEF SeatsHold, C
  <2>7. y.groups[g] \in Nat
    BY DEF IsPoint, IsGroups
  <2>8. QED
    BY <2>4, <2>5, <2>6, <2>7 DEF D
<1>3. \A p \in ToSet(y.clients) : pt2[p] = r /\ gr2[p] >= 0 => gr2[p] \in DOMAIN y.groups
  BY <1>1 DEF SeatsHold
<1>4. TakenSeats(y) = TakenSeats(x)
  BY DEF TakenSeats
<1>5. QED
  BY <1>2, <1>3, <1>4 DEF SeatsHold

\* The seats of a point that was just opened.
LEMMA SeatsOfOpened ==
  ASSUME NEW r, ParamOf(r) # NoParam => ParamOf(r) \in Param, NEW pt, NEW gr
  PROVE  SeatsHold(Opened(r), r, pt, gr, NoEntry)
<1> DEFINE x == Opened(r)
<1>1. /\ x.clients = <<>>
      /\ \A g \in DOMAIN x.groups : x.groups[g] = 0
  BY OpenedFacts
<1>2. ToSet(x.clients) = {} /\ Len(x.clients) = 0
  BY <1>1 DEF ToSet
<1>3. ASSUME NEW g \in DOMAIN x.groups
      PROVE  Weight(Shown(NoEntry, g), Seatees(x, r, g, pt, gr)) <= x.groups[g]
  <2>1. Seatees(x, r, g, pt, gr) = {} /\ Shown(NoEntry, g) = <<>>
    BY <1>2 DEF Seatees, Shown, GroupIn, EmptyGroup
  <2>2. Cardinality({}) = 0 /\ Len(<<>>) = 0 /\ {} \ ToSet(<<>>) = {}
    BY FS_EmptySet
  <2>3. Weight(<<>>, {}) = 0
    BY <2>2 DEF Weight
  <2>4. QED
    BY <1>1, <2>1, <2>3
<1>4. IsFiniteSet(TakenSeats(x)) /\ Cardinality(TakenSeats(x)) = 0
  BY <1>1, NoSeatsTaken
<1> HIDE DEF x
<1>5. QED
  BY <1>2, <1>3, <1>4 DEF SeatsHold, x

\* A client takes a seat.
LEMMA SeatsTaken ==
  ASSUME NEW x, IsPoint(x), NEW r, NEW g \in DOMAIN x.groups, NEW p \in Passports,
         NEW pt, NEW gr, NEW e, e # NoEntry => IsEntry(e), SeatsHold(x, r, pt, gr, e),
         NEW pt2, NEW gr2, gr2[p] = g,
         \A q \in Passports \ {p} : pt2[q] = pt[q] /\ gr2[q] = gr[q],
         NEW f, f # NoEntry => IsEntry(f),
         Shown(f, g) \in {Append(Shown(e, g), p), <<>>},
         \A h : h # g => Shown(f, h) \in {Shown(e, h), <<>>}
  PROVE  SeatsHold(Seated(x, g, p), r, pt2, gr2, f)
<1> DEFINE y == Seated(x, g, p)
<1>1. /\ IsPoint(y) /\ y.clients = Append(x.clients, p)
      /\ DOMAIN y.groups = DOMAIN x.groups
      /\ y.groups[g] = x.groups[g] + 1
      /\ \A h \in DOMAIN x.groups : h # g => y.groups[h] = x.groups[h]
  BY SeatedFacts
<1>2. x.clients \in Seq(Passports) /\ IsGroups(x.groups) /\ IsGroups(y.groups)
  BY <1>1 DEF IsPoint
<1>3. /\ ToSet(y.clients) = ToSet(x.clients) \cup {p}
      /\ Len(y.clients) = Len(x.clients) + 1
  BY <1>1, <1>2, AppendFacts
<1>4. ToSet(x.clients) \subseteq Passports
  BY <1>2 DEF ToSet
<1> HIDE DEF y
<1>5. ASSUME NEW h \in DOMAIN y.groups
      PROVE  Weight(Shown(f, h), Seatees(y, r, h, pt2, gr2)) <= y.groups[h]
  <2> DEFINE C == Seatees(x, r, h, pt, gr)
             D == Seatees(y, r, h, pt2, gr2)
             s == Shown(e, h)
             t == Shown(f, h)
  <2>1. IsFiniteSet(C) /\ IsFiniteSet(D) /\ IsFiniteSet(C \cup {p})
    BY <1>1, <1>2, SeateesFinite, FS_AddElement DEF IsPoint
  <2>2. s \in Seq(Passports) /\ t \in Seq(Passports) /\ <<>> \in Seq(Passports)
    BY GroupInType
  <2>3. x.groups[h] \in Nat /\ y.groups[h] \in Nat
    BY <1>1, <1>2 DEF IsGroups
  <2>4. Weight(s, C) <= x.groups[h]
    BY <1>1 DEF SeatsHold
  <2>5. /\ Weight(s, C) \in Nat /\ Weight(t, D) \in Nat
        /\ Weight(s, C \cup {p}) \in Nat /\ Weight(<<>>, C \cup {p}) \in Nat
        /\ Weight(s, D) \in Nat /\ Weight(<<>>, D) \in Nat
    BY <2>1, <2>2, WeightType
  <2>6. CASE h = g
    <3>1. D \subseteq C \cup {p}
      BY <1>3, <1>4, <2>6 DEF Seatees
    <3> HIDE DEF C, D
    <3>2. Weight(t, D) <= Weight(t, C \cup {p}) /\ Weight(t, C \cup {p}) \in Nat
      BY <2>1, <2>2, <3>1, WeightMonotonic, WeightType
    <3>3. Weight(t, C \cup {p}) <= Weight(s, C) + 1
      <4>1. CASE t = Append(s, p)
        BY <2>1, <2>2, <4>1, WeightOfOneMore
      <4>2. CASE t = <<>>
        <5>1. Weight(s, C \cup {p}) <= Weight(s, C) + 1
          BY <2>1, <2>2, WeightOfOneMore
        <5>2. Weight(<<>>, C \cup {p}) <= Weight(s, C \cup {p})
          BY <2>1, <2>2, WeightOfNone
        <5> HIDE DEF s, t
        <5>3. QED
          BY <2>5, <4>2, <5>1, <5>2
      <4>3. QED
        BY <2>6, <4>1, <4>2
    <3> HIDE DEF s, t
    <3>4. y.groups[h] = x.groups[h] + 1
      BY <1>1, <2>6
    <3>5. QED
      BY <2>3, <2>4, <2>5, <3>2, <3>3, <3>4 DEF t, D
  <2>7. CASE h # g
    <3>1. D \subseteq C
      BY <1>3, <1>4, <2>7 DEF Seatees
    <3>2. y.groups[h] = x.groups[h]
      BY <1>1, <2>7
    <3> HIDE DEF C, D
    <3>3. Weight(s, D) <= Weight(s, C)
      BY <2>1, <2>2, <3>1, WeightMonotonic
    <3>4. Weight(<<>>, D) <= Weight(s, D)
      BY <2>1, <2>2, WeightOfNone
    <3>5. t = s \/ t = <<>>
      BY <2>7
    <3> HIDE DEF s, t
    <3>6. Weight(t, D) <= Weight(s, D)
      BY <2>5, <3>4, <3>5
    <3>7. QED
      BY <2>3, <2>4, <2>5, <3>2, <3>3, <3>6 DEF t, D
  <2>8. QED
    BY <2>6, <2>7
<1>6. ASSUME f # NoEntry, NEW h \in DOMAIN f.groups \ DOMAIN y.groups
      PROVE  f.groups[h].passports = <<>>
  <2>1. h # g /\ Shown(e, h) = <<>>
    BY <1>1, ShownNobody
  <2>2. Shown(f, h) = <<>>
    BY <2>1
  <2>3. QED
    BY <1>6, <2>2 DEF Shown, GroupIn
<1>7. ASSUME NEW q \in ToSet(y.clients), pt2[q] = r, gr2[q] >= 0
      PROVE  gr2[q] \in DOMAIN y.groups
  BY <1>1, <1>3, <1>4, <1>7 DEF SeatsHold
<1>8. IsFiniteSet(TakenSeats(y)) /\ Cardinality(TakenSeats(y)) = Len(y.clients)
  <2>1. IsFiniteSet(TakenSeats(x)) /\ Cardinality(TakenSeats(x)) = Len(x.clients)
    BY DEF SeatsHold
  <2>2. /\ IsFiniteSet(TakenSeats(y))
        /\ Cardinality(TakenSeats(y)) = Cardinality(TakenSeats(x)) + 1
    <3>1. OneSeatMore(x, y, g)
      BY <1>1, <1>2 DEF OneSeatMore
    <3>2. QED
      BY <2>1, <3>1, SeatsCounted, ZenonT(30)
  <2>3. QED
    BY <1>3, <2>1, <2>2
<1>9. QED
  BY <1>5, <1>6, <1>7, <1>8 DEF SeatsHold, y

\* The client p of the point r goes; when the point lists it with a group, it
\* gives its seat back.
Goes(x, r, p, pt, gr, e, pt2, gr2, f, y) ==
  /\ IsPoint(x) /\ p \in Passports /\ pt[p] = r /\ pt2[p] # r
  /\ (e # NoEntry => IsEntry(e)) /\ (f # NoEntry => IsEntry(f))
  /\ SeatsHold(x, r, pt, gr, e)
  /\ \A q \in Passports \ {p} : pt2[q] = pt[q] /\ gr2[q] = gr[q]
  /\ Shown(f, gr[p]) \in {RemoveFirst(Shown(e, gr[p]), p), <<>>}
  /\ \A h : h # gr[p] => Shown(f, h) \in {Shown(e, h), <<>>}
  /\ gr[p] >= 0 /\ p \in ToSet(x.clients) => y = GivenBack(x, gr[p], p)
  /\ ~(gr[p] >= 0 /\ p \in ToSet(x.clients)) => y = x

\* Every seat that is still needed is kept.
LEMMA SeatsLeft ==
  ASSUME NEW x, NEW r, NEW p, NEW pt, NEW gr, NEW e, NEW pt2, NEW gr2, NEW f, NEW y,
         Goes(x, r, p, pt, gr, e, pt2, gr2, f, y)
  PROVE  IsPoint(y) /\ DOMAIN y.groups = DOMAIN x.groups /\ SeatsHold(y, r, pt2, gr2, f)
         /\ ToSet(x.clients) \ {p} \subseteq ToSet(y.clients)
<1>0. /\ IsPoint(x) /\ p \in Passports /\ pt[p] = r /\ pt2[p] # r
      /\ e # NoEntry => IsEntry(e)
      /\ f # NoEntry => IsEntry(f)
      /\ SeatsHold(x, r, pt, gr, e)
      /\ \A q \in Passports \ {p} : pt2[q] = pt[q] /\ gr2[q] = gr[q]
      /\ Shown(f, gr[p]) \in {RemoveFirst(Shown(e, gr[p]), p), <<>>}
      /\ \A h : h # gr[p] => Shown(f, h) \in {Shown(e, h), <<>>}
      /\ gr[p] >= 0 /\ p \in ToSet(x.clients) => y = GivenBack(x, gr[p], p)
      /\ ~(gr[p] >= 0 /\ p \in ToSet(x.clients)) => y = x
  BY Zenon DEF Goes
<1> USE <1>0
<1> DEFINE listed == gr[p] >= 0 /\ p \in ToSet(x.clients)
           C(h) == Seatees(x, r, h, pt, gr)
           D(h) == Seatees(y, r, h, pt2, gr2)
<1>1. x.clients \in Seq(Passports) /\ IsGroups(x.groups) /\ ToSet(x.clients) \subseteq Passports
  BY DEF IsPoint, ToSet
<1>2. ASSUME NEW h
      PROVE  IsFiniteSet(C(h)) /\ IsFiniteSet(C(h) \ {p})
  BY <1>1, SeateesFinite, FS_RemoveElement
<1>3. ASSUME NEW h
      PROVE  /\ Shown(e, h) \in Seq(Passports)
             /\ Shown(f, h) \in Seq(Passports) /\ <<>> \in Seq(Passports)
             /\ RemoveFirst(Shown(e, h), p) \in Seq(Passports)
  <2>1. Shown(e, h) \in Seq(Passports) /\ Shown(f, h) \in Seq(Passports)
    BY GroupInType
  <2>2. RemoveFirst(Shown(e, h), p) \in Seq(Passports)
    BY <2>1, RemoveFirstFacts
  <2>3. QED
    BY <2>1, <2>2
<1>4. ASSUME NEW h \in DOMAIN x.groups
      PROVE  Weight(Shown(e, h), C(h)) <= x.groups[h] /\ x.groups[h] \in Nat
  BY <1>1 DEF SeatsHold, IsGroups
\* Whatever is shown afterwards weighs no more, and less by one for the group
\* of a client that was seated.
<1>5. ASSUME NEW h, h = gr[p]
      PROVE  /\ p \in C(h) => Weight(Shown(f, h), C(h) \ {p}) + 1 <= Weight(Shown(e, h), C(h))
             /\ p \notin C(h) => Weight(Shown(f, h), C(h)) <= Weight(Shown(e, h), C(h))
  <2> DEFINE s == Shown(e, h)
             t == Shown(f, h)
             u == RemoveFirst(s, p)
  <2> HIDE DEF C
  <2>1. /\ p \in C(h) => Weight(u, C(h) \ {p}) + 1 <= Weight(s, C(h))
        /\ p \notin C(h) => Weight(u, C(h)) <= Weight(s, C(h))
    BY <1>2, <1>3, WeightOfOneLess
  <2>2. t = u \/ t = <<>>
    BY <1>5
  <2>3. /\ Weight(<<>>, C(h) \ {p}) <= Weight(u, C(h) \ {p})
        /\ Weight(<<>>, C(h)) <= Weight(u, C(h))
    BY <1>2, <1>3, WeightOfNone
  <2>4. /\ Weight(<<>>, C(h) \ {p}) \in Nat /\ Weight(<<>>, C(h)) \in Nat
        /\ Weight(u, C(h) \ {p}) \in Nat /\ Weight(u, C(h)) \in Nat
        /\ Weight(s, C(h)) \in Nat
    BY <1>2, <1>3, WeightType
  <2> HIDE DEF s, t, u
  <2>5. CASE t = u
    BY <2>1, <2>5 DEF s, t
  <2>6. CASE t = <<>>
    BY <2>1, <2>3, <2>4, <2>6 DEF s, t
  <2>7. QED
    BY <2>2, <2>5, <2>6
<1>6. ASSUME NEW h, h # gr[p]
      PROVE  Weight(Shown(f, h), C(h)) <= Weight(Shown(e, h), C(h))
  <2> HIDE DEF C
  <2>1. Weight(<<>>, C(h)) <= Weight(Shown(e, h), C(h))
    BY <1>2, <1>3, WeightOfNone
  <2>2. Weight(Shown(e, h), C(h)) \in Nat
    BY <1>2, <1>3, WeightType
  <2>3. QED
    BY <1>6, <2>1, <2>2
<1>7. CASE listed
  <2> DEFINE g == gr[p]
  <2>1. g \in DOMAIN x.groups /\ p \in C(g)
    BY <1>7 DEF SeatsHold, Seatees
  <2>2. x.groups[g] >= 1
    <3>1. Weight(Shown(f, g), C(g) \ {p}) + 1 <= Weight(Shown(e, g), C(g))
      BY <1>5, <2>1
    <3> HIDE DEF C
    <3>2. Weight(Shown(f, g), C(g) \ {p}) \in Nat /\ Weight(Shown(e, g), C(g)) \in Nat
      BY <1>2, <1>3, WeightType
    <3>3. QED
      BY <1>4, <2>1, <3>1, <3>2
  <2>3. y = GivenBack(x, g, p)
    BY <1>7
  <2>4. /\ IsPoint(y) /\ y.clients = RemoveFirst(x.clients, p)
        /\ DOMAIN y.groups = DOMAIN x.groups
        /\ y.groups[g] = x.groups[g] - 1
        /\ \A h \in DOMAIN x.groups : h # g => y.groups[h] = x.groups[h]
    <3>1. g \in DOMAIN x.groups
      BY <2>1
    <3> HIDE DEF C, D, g
    <3>2. IsPoint(x) /\ x.groups[g] >= 1
      BY <2>2
    <3>3. QED
      BY <2>3, <3>1, <3>2, VacatedFacts
  <2>5. /\ ToSet(y.clients) \subseteq ToSet(x.clients)
        /\ ToSet(x.clients) \ {p} \subseteq ToSet(y.clients)
        /\ Len(y.clients) = Len(x.clients) - 1
    BY <1>1, <1>7, <2>4, RemoveFirstFacts
  <2>6. ASSUME NEW h \in DOMAIN y.groups
        PROVE  Weight(Shown(f, h), D(h)) <= y.groups[h]
    <3>1. D(h) \subseteq C(h) \ {p}
      BY <1>1, <2>5 DEF Seatees
    <3>2. IsFiniteSet(D(h))
      BY <1>2, <3>1, FS_Subset
    <3> HIDE DEF C, D
    <3>3. /\ Weight(Shown(f, h), D(h)) \in Nat /\ Weight(Shown(f, h), C(h)) \in Nat
          /\ Weight(Shown(f, h), C(h) \ {p}) \in Nat /\ Weight(Shown(e, h), C(h)) \in Nat
      BY <1>2, <1>3, <3>2, WeightType
    <3>4. /\ Weight(Shown(f, h), D(h)) <= Weight(Shown(f, h), C(h) \ {p})
          /\ Weight(Shown(f, h), D(h)) <= Weight(Shown(f, h), C(h))
      BY <1>2, <1>3, <3>1, WeightMonotonic
    <3>5. y.groups[h] \in Nat /\ x.groups[h] \in Nat /\ h \in DOMAIN x.groups
      BY <1>4, <2>4 DEF IsPoint, IsGroups
    <3>6. Weight(Shown(e, h), C(h)) <= x.groups[h]
      BY <1>4, <3>5
    <3>7. CASE h = g
      BY <1>5, <2>1, <2>4, <3>3, <3>4, <3>5, <3>6, <3>7
    <3>8. CASE h # g
      BY <1>6, <2>4, <3>3, <3>4, <3>5, <3>6, <3>8
    <3>9. QED
      BY <3>7, <3>8
  <2>7. ASSUME f # NoEntry, NEW h \in DOMAIN f.groups \ DOMAIN y.groups
        PROVE  f.groups[h].passports = <<>>
    <3>1. h # g /\ Shown(e, h) = <<>>
      BY <2>1, <2>4, ShownNobody
    <3>2. Shown(f, h) = <<>>
      BY <3>1
    <3>3. QED
      BY <2>7, <3>2 DEF Shown, GroupIn
  <2>8. ASSUME NEW q \in ToSet(y.clients), pt2[q] = r, gr2[q] >= 0
        PROVE  gr2[q] \in DOMAIN y.groups
    BY <1>1, <2>4, <2>5, <2>8 DEF SeatsHold
  <2>9. IsFiniteSet(TakenSeats(y)) /\ Cardinality(TakenSeats(y)) = Len(y.clients)
    <3>1. IsFiniteSet(TakenSeats(x)) /\ Cardinality(TakenSeats(x)) = Len(x.clients)
      BY DEF SeatsHold
    <3>2. /\ x.groups[g] = y.groups[g] + 1 /\ g \in DOMAIN y.groups
          /\ IsGroups(x.groups) /\ IsGroups(y.groups)
      BY <1>4, <2>1, <2>4 DEF IsPoint
    <3>3. /\ IsFiniteSet(TakenSeats(y))
          /\ Cardinality(TakenSeats(x)) = Cardinality(TakenSeats(y)) + 1
      <4>1. OneSeatMore(y, x, g)
        BY <2>4, <3>2 DEF OneSeatMore
      <4>2. QED
        BY <3>1, <4>1, SeatsCounted, ZenonT(30)
    <3>4. Cardinality(TakenSeats(y)) \in Nat /\ Len(x.clients) \in Nat
      BY <1>1, <3>3, FS_CardinalityType
    <3>5. QED
      BY <2>5, <3>1, <3>3, <3>4
  <2>10. QED
    BY <2>4, <2>5, <2>6, <2>7, <2>8, <2>9 DEF SeatsHold
<1>8. CASE ~listed
  <2>1. y = x
    BY <1>8
  <2>2. ASSUME NEW h \in DOMAIN x.groups
        PROVE  Weight(Shown(f, h), D(h)) <= x.groups[h]
    <3>1. D(h) \subseteq C(h)
      BY <1>1, <2>1 DEF Seatees
    <3>2. IsFiniteSet(D(h))
      BY <1>2, <3>1, FS_Subset
    <3>3. h = gr[p] => p \notin C(h)
      BY <1>1, <1>8 DEF Seatees, IsGroups
    <3> HIDE DEF C, D
    <3>4. /\ Weight(Shown(f, h), D(h)) \in Nat /\ Weight(Shown(f, h), C(h)) \in Nat
          /\ Weight(Shown(e, h), C(h)) \in Nat
      BY <1>2, <1>3, <3>2, WeightType
    <3>5. Weight(Shown(f, h), D(h)) <= Weight(Shown(f, h), C(h))
      BY <1>2, <1>3, <3>1, WeightMonotonic
    <3>6. Weight(Shown(f, h), C(h)) <= Weight(Shown(e, h), C(h))
      BY <1>5, <1>6, <3>3
    <3>7. QED
      BY <1>4, <3>4, <3>5, <3>6
  <2>3. ASSUME f # NoEntry, NEW h \in DOMAIN f.groups \ DOMAIN x.groups
        PROVE  f.groups[h].passports = <<>>
    <3>1. Shown(e, h) = <<>>
      BY ShownNobody
    <3>2. RemoveFirst(<<>>, p) = <<>>
      BY DEF RemoveFirst
    <3>3. Shown(f, h) = <<>>
      BY <3>1, <3>2
    <3>4. QED
      BY <2>3, <3>3 DEF Shown, GroupIn
  <2>4. ASSUME NEW q \in ToSet(x.clients), pt2[q] = r, gr2[q] >= 0
        PROVE  gr2[q] \in DOMAIN x.groups
    BY <1>1, <2>4 DEF SeatsHold
  <2>5. IsFiniteSet(TakenSeats(x)) /\ Cardinality(TakenSeats(x)) = Len(x.clients)
    BY DEF SeatsHold
  <2>6. SeatsHold(x, r, pt2, gr2, f)
    BY <2>1, <2>2, <2>3, <2>4, <2>5 DEF SeatsHold
  <2>7. QED
    BY <2>1, <2>6
<1>9. QED
  BY <1>7, <1>8

-----------------------------------------------------------------------------

\* The types of the variables, with the fields of every open point and entry.
TypeInv ==
  /\ mainPc \in {"idle", "packets"}
  /\ registered \in [Passports -> BOOLEAN]
  /\ point \in [Passports -> Points \cup {NoPoint}]
  /\ group \in [Passports -> Int] /\ \A p \in Passports : group[p] >= NoGroup
  /\ awaits \in [Passports -> Points \cup {NoPoint}]
  /\ rdv = [r \in Points |-> rdv[r]] /\ \A r \in Points : IsOpen(r) => IsPoint(rdv[r])
  /\ param \in [Majors -> Param \cup {NoParam}]
  /\ summary = [r \in Points |-> summary[r]]
  /\ \A r \in Points : summary[r] # NoEntry => IsEntry(summary[r])
  /\ fired \subseteq Points

\* Only a registered client has a point, and it awaits no other.
ClientsKnown ==
  \A p \in Passports : /\ point[p] # NoPoint => registered[p]
                       /\ awaits[p] # NoPoint => awaits[p] = point[p]

\* Every open point holds its seats.
PointsHold ==
  \A r \in Points : IsOpen(r) =>
    /\ ParamOf(r) = NoParam => DOMAIN rdv[r].groups = {0}
    /\ SeatsHold(rdv[r], r, point, group, summary[r])

\* Only an open point has an entry, and its groups fit their limits.
EntriesHold ==
  \A r \in Points : summary[r] # NoEntry => IsOpen(r) /\ EntryFits(summary[r])

\* The inductive invariant.
RdvInv == TypeInv /\ ClientsKnown /\ NobodyStranded /\ PointsHold /\ EntriesHold

\* The parameters of a point, if it has any.
LEMMA ParamIs ==
  ASSUME TypeInv, NEW r \in Points
  PROVE  MajorOf[r] \in Majors /\ (ParamOf(r) # NoParam => ParamOf(r) \in Param)
<1>1. MajorOf[r] \in Majors
  BY DEF Majors
<1>2. QED
  BY <1>1 DEF TypeInv, ParamOf

\* TypeInv says what TypeOK says, and more.
LEMMA TypeInvGivesType == TypeInv => TypeOK
<1> SUFFICES ASSUME TypeInv PROVE TypeOK
  OBVIOUS
<1>1. \A p \in Passports : group[p] \in Int /\ group[p] >= NoGroup
  BY DEF TypeInv
<1>2. \A r \in Points : IsOpen(r) => IsRdv(rdv[r])
  BY PointIsOpen DEF TypeInv
<1>3. \A m \in Majors : param[m] # NoParam => param[m] \in Param
  BY DEF TypeInv
<1>4. ASSUME NEW r \in Points, summary[r] # NoEntry
      PROVE  /\ summary[r].total \in Int
             /\ \A g \in DOMAIN summary[r].groups : summary[r].groups[g] \in GroupType
  BY <1>4 DEF TypeInv, IsEntry
<1>5. QED
  BY <1>1, <1>2, <1>3, <1>4 DEF TypeInv, TypeOK

\* The point that a client finds, open or about to be opened.
LEMMA CurrentFacts ==
  ASSUME RdvInv, NEW r \in Points
  PROVE  /\ IsPoint(Current(r))
         /\ ParamOf(r) = NoParam => DOMAIN Current(r).groups = {0}
         /\ SeatsHold(Current(r), r, point, group, summary[r])
         /\ IsOpen(r) => Current(r) = rdv[r]
         /\ ~IsOpen(r) => Current(r) = Opened(r) /\ summary[r] = NoEntry
<1>1. CASE IsOpen(r)
  BY <1>1 DEF RdvInv, TypeInv, PointsHold, Current
<1>2. CASE ~IsOpen(r)
  <2>1. Current(r) = Opened(r) /\ summary[r] = NoEntry
    BY <1>2 DEF Current, RdvInv, EntriesHold
  <2>2. ParamOf(r) # NoParam => ParamOf(r) \in Param
    BY ParamIs DEF RdvInv
  <2>3. SeatsHold(Opened(r), r, point, group, NoEntry)
    BY <2>2, SeatsOfOpened
  <2>4. IsPoint(Opened(r)) /\ (ParamOf(r) = NoParam => DOMAIN Opened(r).groups = {0})
    BY <2>2, OpenedFacts
  <2>5. QED
    BY <1>2, <2>1, <2>3, <2>4
<1>3. QED
  BY <1>1, <1>2

\* Nothing is open at the start.
LEMMA InitRdvInv == Init => RdvInv
<1> SUFFICES ASSUME Init PROVE RdvInv
  OBVIOUS
<1>1. \A r \in Points : ~IsOpen(r) /\ summary[r] = NoEntry
  BY DEF Init, IsOpen
<1>2. TypeInv
  <2>1. rdv = [r \in Points |-> rdv[r]] /\ summary = [r \in Points |-> summary[r]]
    BY DEF Init
  <2>2. param \in [Majors -> Param \cup {NoParam}]
    BY DEF Init
  <2>3. /\ point \in [Passports -> Points \cup {NoPoint}]
        /\ awaits \in [Passports -> Points \cup {NoPoint}]
        /\ registered \in [Passports -> BOOLEAN]
        /\ group \in [Passports -> Int] /\ \A p \in Passports : group[p] >= NoGroup
    BY DEF Init, NoGroup
  <2>4. QED
    BY <1>1, <2>1, <2>2, <2>3 DEF Init, TypeInv
<1>3. ClientsKnown /\ NobodyStranded
  BY DEF Init, ClientsKnown, NobodyStranded
<1>4. QED
  BY <1>1, <1>2, <1>3 DEF RdvInv, PointsHold, EntriesHold

-----------------------------------------------------------------------------
(* A client that gets a seat. *)

\* The client is the last of the list and its group is one of the point.
LEMMA SeatStep ==
  ASSUME RdvInv, NEW p \in Passports, NEW r \in Points, registered[p],
         NEW g \in DOMAIN Current(r).groups, NEW n \in Nat, NEW max \in Int,
         max = Infinite \/ Current(r).groups[g] < max,
         group' = [group EXCEPT ![p] = g], point' = [point EXCEPT ![p] = r],
         awaits' = [awaits EXCEPT ![p] = r],
         rdv' = [rdv EXCEPT ![r] = Seated(Current(r), g, p)],
         Enter(r, n, g, max, p), UNCHANGED <<mainPc, registered, param, fired>>
  PROVE  RdvInv'
<1> DEFINE x == Current(r)
           y == Seated(x, g, p)
           e == summary[r]
           f == summary'[r]
<1>1. TypeInv
  BY DEF RdvInv
<1>2. /\ IsPoint(x) /\ SeatsHold(x, r, point, group, e)
      /\ ParamOf(r) = NoParam => DOMAIN x.groups = {0}
      /\ IsOpen(r) => x = rdv[r]
  BY CurrentFacts
<1>3. g \in Nat /\ x.groups[g] \in Nat
  BY <1>2 DEF IsPoint, IsGroups
<1>4. /\ summary = [q \in Points |-> summary[q]]
      /\ e # NoEntry => IsEntry(e)
  BY <1>1 DEF TypeInv
<1>5. /\ summary' = [summary EXCEPT ![r] = f] /\ IsEntry(f)
      /\ DOMAIN f.groups = 0..(n - 1)
      /\ g < n => f.groups[g] = [cur |-> GroupIn(e, g).cur + 1, max |-> max,
                                 passports |-> Append(Shown(e, g), p)]
      /\ \A i \in 0..(n - 1) : i # g => f.groups[i] = GroupIn(e, i)
  BY <1>3, <1>4, EnterFacts, SMTT(30)
<1>6. /\ IsPoint(y) /\ y.clients = Append(x.clients, p)
      /\ DOMAIN y.groups = DOMAIN x.groups
  BY <1>2, SeatedFacts
<1>7. ToSet(y.clients) = ToSet(x.clients) \cup {p}
  BY <1>2, <1>6, AppendFacts DEF IsPoint
<1> HIDE DEF x, y, e, f
<1>8. f # NoEntry
  BY <1>5, EntryIsEntry
<1>9. rdv' = [rdv EXCEPT ![r] = y] /\ y # Closed
  BY <1>6, PointIsOpen DEF y, x
<1>10. /\ rdv = [q \in Points |-> rdv[q]]
       /\ group \in [Passports -> Int] /\ point \in [Passports -> Points \cup {NoPoint}]
       /\ awaits \in [Passports -> Points \cup {NoPoint}]
  BY <1>1 DEF TypeInv
<1>11. /\ rdv'[r] = y
       /\ \A q \in Points \ {r} : rdv'[q] = rdv[q]
       /\ \A q \in Points \ {r} : summary'[q] = summary[q]
       /\ \A q \in Passports \ {p} : group'[q] = group[q] /\ point'[q] = point[q]
                                     /\ awaits'[q] = awaits[q]
       /\ group'[p] = g /\ point'[p] = r /\ awaits'[p] = r
  BY <1>4, <1>5, <1>9, <1>10
<1>12. \A q \in Points : IsOpen(q)' <=> IsOpen(q) \/ q = r
  BY <1>9, <1>11 DEF IsOpen
<1>13. TypeInv'
  <2>1. rdv' = [q \in Points |-> rdv'[q]] /\ summary' = [q \in Points |-> summary'[q]]
    BY <1>4, <1>5, <1>9, <1>10
  <2>2. \A q \in Points : IsOpen(q)' => IsPoint(rdv'[q])
    BY <1>1, <1>6, <1>11, <1>12 DEF TypeInv
  <2>3. \A q \in Points : summary'[q] # NoEntry => IsEntry(summary'[q])
    BY <1>1, <1>5, <1>11 DEF TypeInv, f
  <2>4. /\ group' \in [Passports -> Int] /\ point' \in [Passports -> Points \cup {NoPoint}]
        /\ awaits' \in [Passports -> Points \cup {NoPoint}]
    BY <1>3, <1>10
  <2>5. \A q \in Passports : group'[q] >= NoGroup
    BY <1>1, <1>3, <1>11 DEF TypeInv, NoGroup
  <2>6. QED
    BY <1>1, <2>1, <2>2, <2>3, <2>4, <2>5 DEF TypeInv
<1>14. ClientsKnown'
  BY <1>11 DEF RdvInv, ClientsKnown
<1>15. NobodyStranded'
  <2> SUFFICES ASSUME NEW q \in Passports, awaits'[q] # NoPoint, group'[q] >= 0
               PROVE  /\ registered'[q] /\ point'[q] = awaits'[q] /\ IsOpen(point[q])'
                      /\ q \in Listed(point[q])'
                      /\ group'[q] \in DOMAIN rdv'[point'[q]].groups
    BY DEF NobodyStranded
  <2>1. CASE q = p
    <3>1. point'[q] = r /\ awaits'[q] = r /\ rdv'[r] = y /\ group'[q] = g
      BY <1>11, <2>1
    <3>2. IsOpen(point[q])' /\ Listed(point[q])' = ToSet(y.clients)
      BY <1>9, <3>1 DEF IsOpen, Listed
    <3>3. g \in DOMAIN y.groups
      BY <1>6 DEF x
    <3>4. QED
      BY <1>7, <2>1, <3>1, <3>2, <3>3
  <2>2. CASE q # p
    <3>1. /\ registered[q] /\ point[q] = awaits[q] /\ IsOpen(point[q])
          /\ q \in ToSet(rdv[point[q]].clients) /\ group[q] \in DOMAIN rdv[point[q]].groups
      BY <1>11, <2>2 DEF RdvInv, NobodyStranded, Listed
    <3>2. point[q] \in Points
      BY <1>10, <1>11, <2>2, <3>1
    <3>3. CASE point[q] = r
      BY <1>2, <1>6, <1>7, <1>11, <1>12, <2>2, <3>1, <3>3 DEF Listed
    <3>4. CASE point[q] # r
      BY <1>11, <1>12, <2>2, <3>1, <3>2, <3>4 DEF Listed
    <3>5. QED
      BY <3>3, <3>4
  <2>3. QED
    BY <2>1, <2>2
<1>16. PointsHold'
  <2> SUFFICES ASSUME NEW q \in Points, IsOpen(q)'
               PROVE  /\ ParamOf(q)' = NoParam => DOMAIN rdv'[q].groups = {0}
                      /\ SeatsHold(rdv'[q], q, point', group', summary'[q])
    BY DEF PointsHold
  <2>1. CASE q = r
    <3>1. /\ Shown(f, g) \in {Append(Shown(e, g), p), <<>>}
          /\ \A h : h # g => Shown(f, h) \in {Shown(e, h), <<>>}
      <4>1. \A h : Shown(f, h) = IF h \in 0..(n - 1) THEN f.groups[h].passports ELSE <<>>
        BY <1>5, <1>8 DEF Shown, GroupIn, EmptyGroup
      <4>2. Shown(f, g) \in {Append(Shown(e, g), p), <<>>}
        <5>1. g \in 0..(n - 1) => g < n
          BY <1>3
        <5>2. g < n => f.groups[g].passports = Append(Shown(e, g), p)
          BY <1>5
        <5>3. QED
          BY <4>1, <5>1, <5>2
      <4>3. ASSUME NEW h, h # g PROVE Shown(f, h) \in {Shown(e, h), <<>>}
        <5>1. h \in 0..(n - 1) => f.groups[h] = GroupIn(e, h)
          BY <1>5, <4>3
        <5>2. h \in 0..(n - 1) => f.groups[h].passports = Shown(e, h)
          BY <5>1 DEF Shown
        <5>3. QED
          BY <4>1, <5>2
      <4>4. QED
        BY <4>2, <4>3
    <3>2. f # NoEntry => IsEntry(f)
      BY <1>5
    <3>3. g \in DOMAIN x.groups
      BY DEF x
    <3>4. SeatsHold(y, r, point', group', f)
      <4>1. PICK z, pt, gr, pt2, gr2, d, k :
              /\ z = x /\ pt = point /\ gr = group /\ d = e
              /\ pt2 = point' /\ gr2 = group' /\ k = f
        OBVIOUS
      <4>2. /\ IsPoint(z) /\ g \in DOMAIN z.groups /\ (d # NoEntry => IsEntry(d))
            /\ SeatsHold(z, r, pt, gr, d) /\ (k # NoEntry => IsEntry(k))
            /\ Shown(k, g) \in {Append(Shown(d, g), p), <<>>}
            /\ \A h : h # g => Shown(k, h) \in {Shown(d, h), <<>>}
        BY <1>2, <1>4, <3>1, <3>2, <3>3, <4>1
      <4>3. gr2[p] = g /\ \A v \in Passports \ {p} : pt2[v] = pt[v] /\ gr2[v] = gr[v]
        BY <1>11, <4>1
      <4>4. SeatsHold(Seated(z, g, p), r, pt2, gr2, k)
        BY <4>2, <4>3, SeatsTaken
      <4>5. QED
        BY <4>1, <4>4 DEF y
    <3>5. ParamOf(r)' = ParamOf(r)
      BY DEF ParamOf
    <3>6. QED
      BY <1>2, <1>6, <1>11, <2>1, <3>4, <3>5 DEF f
  <2>2. CASE q # r
    <3>1. IsOpen(q) /\ rdv'[q] = rdv[q] /\ summary'[q] = summary[q]
      BY <1>11, <1>12, <2>2
    <3>2. /\ IsPoint(rdv[q]) /\ (summary[q] # NoEntry => IsEntry(summary[q]))
          /\ SeatsHold(rdv[q], q, point, group, summary[q])
          /\ ParamOf(q) = NoParam => DOMAIN rdv[q].groups = {0}
      BY <1>1, <3>1 DEF RdvInv, PointsHold, TypeInv
    <3>3. \A v \in Passports : point'[v] = q /\ group'[v] >= 0 =>
            point[v] = q /\ group[v] = group'[v]
      BY <1>11, <2>2
    <3>4. SeatsHold(rdv[q], q, point', group', summary[q])
      <4>1. PICK z, pt, gr, pt2, gr2, d :
              /\ z = rdv[q] /\ pt = point /\ gr = group /\ d = summary[q]
              /\ pt2 = point' /\ gr2 = group'
        OBVIOUS
      <4>2. IsPoint(z) /\ (d # NoEntry => IsEntry(d)) /\ SeatsHold(z, q, pt, gr, d)
        BY <3>2, <4>1
      <4>3. \A v \in Passports : pt2[v] = q /\ gr2[v] >= 0 => pt[v] = q /\ gr[v] = gr2[v]
        BY <3>3, <4>1
      <4>4. SeatsHold(z, q, pt2, gr2, d)
        BY <4>2, <4>3, SeatsKept
      <4>5. QED
        BY <4>1, <4>4
    <3>5. QED
      BY <3>1, <3>2, <3>4 DEF ParamOf
  <2>3. QED
    BY <2>1, <2>2
<1>17. EntriesHold'
  <2> SUFFICES ASSUME NEW q \in Points, summary'[q] # NoEntry
               PROVE  IsOpen(q)' /\ EntryFits(summary'[q])
    BY DEF EntriesHold
  <2>1. CASE q = r
    <3>1. ASSUME NEW h \in DOMAIN f.groups PROVE Fits(f.groups[h])
      <4>1. CASE h = g
        <5>1. Shown(e, g) \in Seq(Passports)
          BY <1>4, GroupInType
        <5>2. IsFiniteSet(Seatees(x, r, g, point, group))
          BY <1>2, SeateesFinite DEF IsPoint
        <5>3. Len(Shown(e, g)) <= Weight(Shown(e, g), Seatees(x, r, g, point, group))
              /\ Weight(Shown(e, g), Seatees(x, r, g, point, group)) \in Nat
          BY <5>1, <5>2, WeightType
        <5>4. Weight(Shown(e, g), Seatees(x, r, g, point, group)) <= x.groups[g]
          BY <1>2 DEF SeatsHold, x
        <5>5. Len(Append(Shown(e, g), p)) = Len(Shown(e, g)) + 1 /\ Len(Shown(e, g)) \in Nat
          BY <5>1, AppendFacts
        <5>6. f.groups[h].max = max /\ f.groups[h].passports = Append(Shown(e, g), p)
          BY <1>3, <1>5, <4>1
        <5>7. max = Infinite \/ x.groups[g] < max
          BY DEF x
        <5>8. QED
          BY <1>3, <5>3, <5>4, <5>5, <5>6, <5>7 DEF Fits
      <4>2. CASE h # g
        <5>1. f.groups[h] = GroupIn(e, h)
          BY <1>5, <4>2
        <5>2. Fits(EmptyGroup)
          BY DEF Fits, EmptyGroup
        <5>3. e # NoEntry => EntryFits(e)
          BY DEF RdvInv, EntriesHold, e
        <5>4. QED
          BY <5>1, <5>2, <5>3 DEF GroupIn, EntryFits
      <4>3. QED
        BY <4>1, <4>2
    <3>2. QED
      BY <1>12, <2>1, <3>1 DEF EntryFits, f
  <2>2. CASE q # r
    BY <1>11, <1>12, <2>2 DEF RdvInv, EntriesHold
  <2>3. QED
    BY <2>1, <2>2
<1>18. QED
  BY <1>13, <1>14, <1>15, <1>16, <1>17 DEF RdvInv

\* A point keeps its clients and its groups, and nobody gets a seat there.
LEMMA PointKept ==
  ASSUME RdvInv, NEW q \in Points, IsOpen(q), rdv'[q].clients = rdv[q].clients,
         rdv'[q].groups = rdv[q].groups, summary'[q] = summary[q],
         \A v \in Passports : point'[v] = q /\ group'[v] >= 0 =>
           point[v] = q /\ group[v] = group'[v]
  PROVE  SeatsHold(rdv'[q], q, point', group', summary'[q])
<1>1. PICK x, y, pt, gr, pt2, gr2, e :
        /\ x = rdv[q] /\ y = rdv'[q] /\ pt = point /\ gr = group /\ e = summary[q]
        /\ pt2 = point' /\ gr2 = group'
  OBVIOUS
<1>2. /\ IsPoint(x) /\ (e # NoEntry => IsEntry(e)) /\ SeatsHold(x, q, pt, gr, e)
      /\ y.clients = x.clients /\ y.groups = x.groups
  BY <1>1 DEF RdvInv, TypeInv, PointsHold
<1>3. \A v \in Passports : pt2[v] = q /\ gr2[v] >= 0 => pt[v] = q /\ gr[v] = gr2[v]
  BY <1>1
<1>4. SeatsHold(y, q, pt2, gr2, e)
  BY <1>2, <1>3, SeatsKept
<1>5. QED
  BY <1>1, <1>4

\* A client that is not registered only opens the point.
LEMMA UnknownStep ==
  ASSUME RdvInv, NEW r \in Points, rdv' = [rdv EXCEPT ![r] = Current(r)],
         UNCHANGED <<mainPc, registered, point, group, awaits, param, summary, fired>>
  PROVE  RdvInv'
<1> DEFINE x == Current(r)
<1>1. /\ IsPoint(x) /\ SeatsHold(x, r, point, group, summary[r])
      /\ ParamOf(r) = NoParam => DOMAIN x.groups = {0}
      /\ IsOpen(r) => x = rdv[r]
  BY CurrentFacts
<1> HIDE DEF x
<1>2. x # Closed
  BY <1>1, PointIsOpen
<1>3. /\ rdv = [q \in Points |-> rdv[q]]
      /\ \A q \in Points : IsOpen(q) => IsPoint(rdv[q])
  BY DEF RdvInv, TypeInv
<1>4. /\ rdv' = [q \in Points |-> rdv'[q]] /\ rdv'[r] = x
      /\ \A q \in Points \ {r} : rdv'[q] = rdv[q]
  BY <1>3 DEF x
<1>5. \A q \in Points : IsOpen(q)' <=> IsOpen(q) \/ q = r
  BY <1>2, <1>4 DEF IsOpen
<1>6. TypeInv'
  <2>1. \A q \in Points : IsOpen(q)' => IsPoint(rdv'[q])
    BY <1>1, <1>3, <1>4, <1>5
  <2>2. QED
    BY <1>4, <2>1 DEF RdvInv, TypeInv
<1>7. ClientsKnown'
  BY DEF RdvInv, ClientsKnown
<1>8. \A q \in Points : IsOpen(q) => rdv'[q] = rdv[q]
  BY <1>1, <1>4
<1>9. NobodyStranded'
  <2> SUFFICES ASSUME NEW p \in Passports, awaits[p] # NoPoint, group[p] >= 0
               PROVE  /\ registered[p] /\ point[p] = awaits[p] /\ IsOpen(point[p])'
                      /\ p \in Listed(point[p])' /\ group[p] \in DOMAIN rdv'[point[p]].groups
    BY DEF NobodyStranded
  <2>1. /\ registered[p] /\ point[p] = awaits[p] /\ IsOpen(point[p])
        /\ p \in Listed(point[p]) /\ group[p] \in DOMAIN rdv[point[p]].groups
    BY DEF RdvInv, NobodyStranded
  <2>2. point[p] \in Points
    BY <2>1 DEF RdvInv, TypeInv
  <2>3. rdv'[point[p]] = rdv[point[p]]
    BY <1>8, <2>1, <2>2
  <2>4. QED
    BY <1>5, <2>1, <2>2, <2>3 DEF Listed
<1>10. PointsHold'
  <2> SUFFICES ASSUME NEW q \in Points, IsOpen(q)'
               PROVE  /\ ParamOf(q)' = NoParam => DOMAIN rdv'[q].groups = {0}
                      /\ SeatsHold(rdv'[q], q, point, group, summary[q])
    BY DEF PointsHold
  <2>1. ParamOf(q)' = ParamOf(q)
    BY DEF ParamOf
  <2>2. CASE q = r
    BY <1>1, <1>4, <2>1, <2>2
  <2>3. CASE q # r
    BY <1>4, <1>5, <2>1, <2>3 DEF RdvInv, PointsHold
  <2>4. QED
    BY <2>2, <2>3
<1>11. EntriesHold'
  BY <1>5 DEF RdvInv, EntriesHold
<1>12. QED
  BY <1>6, <1>7, <1>9, <1>10, <1>11 DEF RdvInv

\* A client for which no group has room.
LEMMA TurnedAwayStep ==
  ASSUME RdvInv, NEW p \in Passports, NEW r \in Points, registered[p],
         group' = [group EXCEPT ![p] = NoGroup], point' = [point EXCEPT ![p] = r],
         awaits' = [awaits EXCEPT ![p] = r],
         rdv' = [rdv EXCEPT ![r] = [Current(r) EXCEPT !.full = TRUE]],
         UNCHANGED <<mainPc, registered, param, summary, fired>>
  PROVE  RdvInv'
<1> DEFINE x == Current(r)
           y == [x EXCEPT !.full = TRUE]
<1>1. /\ IsPoint(x) /\ SeatsHold(x, r, point, group, summary[r])
      /\ ParamOf(r) = NoParam => DOMAIN x.groups = {0}
      /\ IsOpen(r) => x = rdv[r]
  BY CurrentFacts
<1>2. IsPoint(y) /\ y.clients = x.clients /\ y.groups = x.groups
  BY <1>1, FullFacts
<1>3. rdv' = [rdv EXCEPT ![r] = y]
  OBVIOUS
<1> HIDE DEF x, y
<1>4. y # Closed
  BY <1>2, PointIsOpen
<1>5. /\ rdv = [q \in Points |-> rdv[q]]
      /\ \A q \in Points : IsOpen(q) => IsPoint(rdv[q])
      /\ group \in [Passports -> Int] /\ point \in [Passports -> Points \cup {NoPoint}]
      /\ awaits \in [Passports -> Points \cup {NoPoint}]
      /\ \A q \in Passports : group[q] >= NoGroup
      /\ \A q \in Points : summary[q] # NoEntry => IsEntry(summary[q])
  BY DEF RdvInv, TypeInv
<1>6. /\ rdv' = [q \in Points |-> rdv'[q]] /\ rdv'[r] = y
      /\ \A q \in Points \ {r} : rdv'[q] = rdv[q]
      /\ \A q \in Passports \ {p} : group'[q] = group[q] /\ point'[q] = point[q]
                                    /\ awaits'[q] = awaits[q]
      /\ group'[p] = NoGroup /\ point'[p] = r /\ awaits'[p] = r
  BY <1>3, <1>5
<1>7. \A q \in Points : IsOpen(q)' <=> IsOpen(q) \/ q = r
  BY <1>4, <1>6 DEF IsOpen
<1>8. TypeInv'
  <2>1. \A q \in Points : IsOpen(q)' => IsPoint(rdv'[q])
    BY <1>2, <1>5, <1>6, <1>7
  <2>2. /\ group' \in [Passports -> Int] /\ point' \in [Passports -> Points \cup {NoPoint}]
        /\ awaits' \in [Passports -> Points \cup {NoPoint}]
    BY <1>5 DEF NoGroup
  <2>3. \A q \in Passports : group'[q] >= NoGroup
    BY <1>5, <1>6 DEF NoGroup
  <2>4. QED
    BY <1>6, <2>1, <2>2, <2>3 DEF RdvInv, TypeInv
<1>9. ClientsKnown'
  BY <1>6 DEF RdvInv, ClientsKnown
<1>10. \A q \in Points : IsOpen(q) => rdv'[q].clients = rdv[q].clients
                                       /\ rdv'[q].groups = rdv[q].groups
  <2> SUFFICES ASSUME NEW q \in Points, IsOpen(q)
               PROVE  rdv'[q].clients = rdv[q].clients /\ rdv'[q].groups = rdv[q].groups
    OBVIOUS
  <2>1. CASE q = r
    <3>1. x = rdv[r] /\ rdv'[r] = y
      BY <1>1, <1>6, <2>1
    <3>2. QED
      BY <1>2, <2>1, <3>1, Zenon
  <2>2. CASE q # r
    <3>1. rdv'[q] = rdv[q]
      BY <1>6, <2>2
    <3>2. QED
      BY <3>1, Zenon
  <2>3. QED
    BY <2>1, <2>2
<1>11. NobodyStranded'
  <2> SUFFICES ASSUME NEW q \in Passports, awaits'[q] # NoPoint, group'[q] >= 0
               PROVE  /\ registered'[q] /\ point'[q] = awaits'[q] /\ IsOpen(point[q])'
                      /\ q \in Listed(point[q])'
                      /\ group'[q] \in DOMAIN rdv'[point'[q]].groups
    BY DEF NobodyStranded
  <2>1. q # p
    BY <1>6 DEF NoGroup
  <2>2. /\ registered[q] /\ point[q] = awaits[q] /\ IsOpen(point[q])
        /\ q \in ToSet(rdv[point[q]].clients) /\ group[q] \in DOMAIN rdv[point[q]].groups
        /\ point'[q] = point[q] /\ awaits'[q] = awaits[q] /\ group'[q] = group[q]
    BY <1>6, <2>1 DEF RdvInv, NobodyStranded, Listed
  <2>3. point[q] \in Points
    BY <1>5, <1>6, <2>1, <2>2
  <2>4. QED
    BY <1>7, <1>10, <2>2, <2>3 DEF Listed, IsOpen
<1>12. PointsHold'
  <2> SUFFICES ASSUME NEW q \in Points, IsOpen(q)'
               PROVE  /\ ParamOf(q)' = NoParam => DOMAIN rdv'[q].groups = {0}
                      /\ SeatsHold(rdv'[q], q, point', group', summary'[q])
    BY DEF PointsHold
  <2>1. ParamOf(q)' = ParamOf(q) /\ summary'[q] = summary[q]
    BY DEF ParamOf
  <2>2. \A v \in Passports : point'[v] = q /\ group'[v] >= 0 =>
          point[v] = q /\ group[v] = group'[v]
    BY <1>6 DEF NoGroup
  <2>3. CASE IsOpen(q)
    <3>1. SeatsHold(rdv'[q], q, point', group', summary'[q])
      BY <1>10, <2>1, <2>2, <2>3, PointKept
    <3>2. QED
      BY <1>10, <2>1, <2>3, <3>1 DEF RdvInv, PointsHold
  <2>4. CASE ~IsOpen(q)
    <3>1. q = r
      BY <1>7, <2>4
    <3>2. PICK pt, gr, pt2, gr2, d, z :
            /\ pt = point /\ gr = group /\ d = summary[q] /\ z = x
            /\ pt2 = point' /\ gr2 = group'
      OBVIOUS
    <3>3. /\ IsPoint(z) /\ (d # NoEntry => IsEntry(d)) /\ SeatsHold(z, q, pt, gr, d)
          /\ y.clients = z.clients /\ y.groups = z.groups
      BY <1>1, <1>2, <1>5, <3>1, <3>2
    <3>4. \A v \in Passports : pt2[v] = q /\ gr2[v] >= 0 => pt[v] = q /\ gr[v] = gr2[v]
      BY <2>2, <3>2
    <3>5. SeatsHold(y, q, pt2, gr2, d)
      BY <3>3, <3>4, SeatsKept
    <3>6. QED
      BY <1>1, <1>2, <1>6, <2>1, <3>1, <3>2, <3>5
  <2>5. QED
    BY <2>3, <2>4
<1>13. EntriesHold'
  BY <1>7 DEF RdvInv, EntriesHold
<1>14. QED
  BY <1>8, <1>9, <1>11, <1>12, <1>13 DEF RdvInv

\* The group that SeatFor chooses has room.
LEMMA SeatForFacts ==
  ASSUME NEW x, IsPoint(x), NEW r, NEW p
  PROVE  SeatFor(x, r, p) # NoGroup =>
           SeatFor(x, r, p) \in FreeGroups(x, r) /\ ~x.full
<1> DEFINE free == FreeGroups(x, r)
<1>1. free \subseteq Nat
  BY DEF FreeGroups, IsPoint, IsGroups
<1>2. ASSUME ~(x.full \/ free = {}), group[p] \notin free
      PROVE  (CHOOSE g \in free : \A h \in free : g <= h) \in free
  <2>1. \E g \in free : \A h \in free : g <= h
    BY <1>1, <1>2, MinExists
  <2> HIDE DEF free
  <2>2. QED
    BY <2>1
<1>3. CASE x.full \/ free = {}
  BY <1>3 DEF SeatFor
<1>4. CASE ~(x.full \/ free = {}) /\ group[p] \in free
  BY <1>4 DEF SeatFor
<1>5. CASE ~(x.full \/ free = {}) /\ group[p] \notin free
  <2>1. SeatFor(x, r, p) = CHOOSE g \in free : \A h \in free : g <= h
    BY <1>5 DEF SeatFor
  <2>2. QED
    BY <1>2, <1>5, <2>1
<1>6. QED
  BY <1>3, <1>4, <1>5

\* What Reach does, as one of the three steps above.
LEMMA ReachCases ==
  ASSUME RdvInv, NEW p \in Passports, NEW r \in Points, Reach(p, r)
  PROVE  \/ rdv' = [rdv EXCEPT ![r] = Current(r)] /\ ~registered[p]
            /\ UNCHANGED <<point, group, awaits, summary>>
         \/ /\ registered[p] /\ group' = [group EXCEPT ![p] = NoGroup]
            /\ point' = [point EXCEPT ![p] = r] /\ awaits' = [awaits EXCEPT ![p] = r]
            /\ rdv' = [rdv EXCEPT ![r] = [Current(r) EXCEPT !.full = TRUE]]
            /\ ParamOf(r) # NoParam
            /\ Current(r).full \/ FreeGroups(Current(r), r) = {}
            /\ UNCHANGED summary
         \/ \E g \in DOMAIN Current(r).groups, n \in Nat, max \in Int :
              /\ max = Infinite \/ Current(r).groups[g] < max
              /\ registered[p] /\ group' = [group EXCEPT ![p] = g]
              /\ point' = [point EXCEPT ![p] = r] /\ awaits' = [awaits EXCEPT ![p] = r]
              /\ rdv' = [rdv EXCEPT ![r] = Seated(Current(r), g, p)]
              /\ Enter(r, n, g, max, p)
              /\ ParamOf(r) = NoParam => n = 1
              /\ ParamOf(r) # NoParam => n = ParamOf(r).groupNum /\ ~Current(r).full
<1>1. CASE ~registered[p]
  BY <1>1, Zenon DEF Reach
<1>2. CASE registered[p] /\ ReachDefault(p, r)
  <2>1. 0 \in DOMAIN Current(r).groups
    BY <1>2, CurrentFacts DEF ReachDefault
  <2>2. /\ ParamOf(r) = NoParam
        /\ group' = [group EXCEPT ![p] = 0]
        /\ rdv' = [rdv EXCEPT ![r] = Seated(Current(r), 0, p)]
        /\ Enter(r, 1, 0, Infinite, p)
    BY <1>2, Zenon DEF ReachDefault
  <2>3. point' = [point EXCEPT ![p] = r] /\ awaits' = [awaits EXCEPT ![p] = r]
    BY <1>2, Zenon DEF Reach
  <2>4. 1 \in Nat /\ Infinite \in Int
    BY DEF Infinite
  <2>5. QED
    BY <1>2, <2>1, <2>2, <2>3, <2>4, Zenon
<1>3. CASE registered[p] /\ ReachWithParam(p, r)
  <2> DEFINE x == Current(r)
             g == SeatFor(x, r, p)
  <2>1. point' = [point EXCEPT ![p] = r] /\ awaits' = [awaits EXCEPT ![p] = r]
    BY <1>3, Zenon DEF Reach
  <2>2. ParamOf(r) # NoParam /\ group' = [group EXCEPT ![p] = g]
    BY <1>3, Zenon DEF ReachWithParam
  <2>3. CASE g = NoGroup
    <3>1. rdv' = [rdv EXCEPT ![r] = [x EXCEPT !.full = TRUE]] /\ UNCHANGED summary
      BY <1>3, <2>3, Zenon DEF ReachWithParam
    <3>2. x.full \/ FreeGroups(x, r) = {}
      <4>1. IsPoint(x)
        BY CurrentFacts
      <4>2. FreeGroups(x, r) \subseteq Nat
        BY <4>1 DEF FreeGroups, IsPoint, IsGroups
      <4>3. ASSUME ~(x.full \/ FreeGroups(x, r) = {}) PROVE FALSE
        <5>1. \E i \in FreeGroups(x, r) : \A j \in FreeGroups(x, r) : i <= j
          BY <4>2, <4>3, MinExists
        <5>2. (CHOOSE i \in FreeGroups(x, r) : \A j \in FreeGroups(x, r) : i <= j)
                \in FreeGroups(x, r)
          BY <5>1
        <5>3. g \in FreeGroups(x, r)
          BY <4>3, <5>2 DEF SeatFor
        <5>4. g \in Nat
          BY <4>2, <5>3
        <5>5. QED
          BY <2>3, <5>4 DEF NoGroup
      <4>4. QED
        BY <4>3
    <3>3. QED
      BY <1>3, <2>1, <2>2, <2>3, <3>1, <3>2, Zenon
  <2>4. CASE g # NoGroup
    <3>1. /\ rdv' = [rdv EXCEPT ![r] = Seated(x, g, p)]
          /\ Enter(r, ParamOf(r).groupNum, g, ParamOf(r).vupNum, p)
      BY <1>3, <2>4, Zenon DEF ReachWithParam
    <3>2. g \in FreeGroups(x, r) /\ ~x.full
      BY <2>4, CurrentFacts, SeatForFacts
    <3>3. g \in DOMAIN x.groups /\ x.groups[g] < ParamOf(r).vupNum
      BY <3>2 DEF FreeGroups
    <3>4. ParamOf(r) \in Param
      BY <2>2, ParamIs DEF RdvInv
    <3>5. ParamOf(r).groupNum \in Nat /\ ParamOf(r).vupNum \in Int
      BY <3>4 DEF Param
    <3> HIDE DEF g
    <3>6. QED
      BY <1>3, <2>1, <2>2, <3>1, <3>2, <3>3, <3>5, Zenon
  <2>5. QED
    BY <2>3, <2>4
<1>4. QED
  BY <1>1, <1>2, <1>3 DEF Reach

\* The ReachRDVPoint case of _HandleUdpPack.
LEMMA ReachStep ==
  ASSUME RdvInv, NEW p \in Passports, NEW r \in Points, Reach(p, r)
  PROVE  RdvInv'
<1>1. UNCHANGED <<mainPc, registered, param, fired>>
  BY DEF Reach
<1>2. CASE rdv' = [rdv EXCEPT ![r] = Current(r)] /\ ~registered[p]
           /\ UNCHANGED <<point, group, awaits, summary>>
  BY <1>1, <1>2, UnknownStep
<1>3. CASE /\ registered[p] /\ group' = [group EXCEPT ![p] = NoGroup]
           /\ point' = [point EXCEPT ![p] = r] /\ awaits' = [awaits EXCEPT ![p] = r]
           /\ rdv' = [rdv EXCEPT ![r] = [Current(r) EXCEPT !.full = TRUE]]
           /\ UNCHANGED summary
  BY <1>1, <1>3, TurnedAwayStep
<1>4. CASE \E g \in DOMAIN Current(r).groups, n \in Nat, max \in Int :
             /\ max = Infinite \/ Current(r).groups[g] < max
             /\ registered[p] /\ group' = [group EXCEPT ![p] = g]
             /\ point' = [point EXCEPT ![p] = r] /\ awaits' = [awaits EXCEPT ![p] = r]
             /\ rdv' = [rdv EXCEPT ![r] = Seated(Current(r), g, p)]
             /\ Enter(r, n, g, max, p)
  BY <1>1, <1>4, SeatStep
<1>5. QED
  BY <1>2, <1>3, <1>4, ReachCases, ZenonT(40)

\* A client that registers.
LEMMA RegisterStep ==
  ASSUME RdvInv, NEW p \in Passports, Register(p)
  PROVE  RdvInv'
<1>1. /\ registered' = [registered EXCEPT ![p] = TRUE]
      /\ UNCHANGED <<mainPc, point, group, awaits, rdv, param, summary, fired>>
  BY DEF Register
<1>2. /\ registered' \in [Passports -> BOOLEAN]
      /\ \A q \in Passports : registered[q] => registered'[q]
  BY <1>1 DEF RdvInv, TypeInv
<1>3. TypeInv'
  BY <1>1, <1>2 DEF RdvInv, TypeInv, IsOpen
<1>4. ClientsKnown' /\ NobodyStranded'
  BY <1>1, <1>2 DEF RdvInv, ClientsKnown, NobodyStranded, Listed, IsOpen
<1>5. PointsHold' /\ EntriesHold'
  BY <1>1 DEF RdvInv, PointsHold, EntriesHold, ParamOf, IsOpen
<1>6. QED
  BY <1>3, <1>4, <1>5 DEF RdvInv

\* Points only age.
LEMMA TickFacts ==
  ASSUME RdvInv, NEW dt \in {0, 1}, StartTick(dt)
  PROVE  /\ rdv' = [r \in Points |-> rdv'[r]]
         /\ \A r \in Points : IsOpen(r) =>
              /\ IsPoint(rdv'[r]) /\ rdv'[r].clients = rdv[r].clients
              /\ rdv'[r].groups = rdv[r].groups /\ rdv'[r].full = rdv[r].full
         /\ \A r \in Points : IsOpen(r)' <=> IsOpen(r)
<1>1. /\ mainPc' = "packets"
      /\ rdv' = [r \in Points |-> IF IsOpen(r) THEN Aged(rdv[r], dt) ELSE Closed]
      /\ UNCHANGED <<registered, point, group, awaits, param, summary, fired>>
  BY Zenon DEF StartTick, vupVars, Aged
<1>2. \A r \in Points : IsOpen(r) => IsPoint(rdv[r])
  BY DEF RdvInv, TypeInv
<1>3. ASSUME NEW r \in Points, IsOpen(r)
      PROVE  /\ IsPoint(rdv'[r]) /\ rdv'[r].clients = rdv[r].clients
             /\ rdv'[r].groups = rdv[r].groups /\ rdv'[r].full = rdv[r].full
  <2>1. rdv'[r] = Aged(rdv[r], dt)
    BY <1>1, <1>3, Zenon
  <2>2. IsPoint(rdv[r])
    BY <1>2, <1>3
  <2>3. ASSUME NEW z, IsPoint(z)
        PROVE  /\ IsPoint(Aged(z, dt)) /\ Aged(z, dt).clients = z.clients
               /\ Aged(z, dt).groups = z.groups /\ Aged(z, dt).full = z.full
    BY <2>3, AgedFacts, ZenonT(30)
  <2>4. QED
    BY <2>1, <2>2, <2>3
<1>4. ASSUME NEW r \in Points, ~IsOpen(r) PROVE rdv'[r] = Closed
  BY <1>1, <1>4, Zenon
<1>5. \A r \in Points : IsOpen(r)' <=> IsOpen(r)
  BY <1>3, <1>4, PointIsOpen DEF IsOpen
<1>6. rdv' = [r \in Points |-> rdv'[r]]
  BY <1>1, Zenon
<1>7. QED
  BY <1>3, <1>5, <1>6

\* A tick that starts.
LEMMA StartTickStep ==
  ASSUME RdvInv, NEW dt \in {0, 1}, StartTick(dt)
  PROVE  RdvInv'
<1>1. mainPc' = "packets"
      /\ UNCHANGED <<registered, point, group, awaits, param, summary, fired>>
  BY Zenon DEF StartTick, vupVars
<1>2. \A r \in Points : IsOpen(r) =>
        /\ IsPoint(rdv'[r]) /\ rdv'[r].clients = rdv[r].clients
        /\ rdv'[r].groups = rdv[r].groups
  BY TickFacts
<1>3. \A r \in Points : IsOpen(r)' <=> IsOpen(r)
  BY TickFacts
<1>4. TypeInv'
  <2>1. rdv' = [r \in Points |-> rdv'[r]]
    BY TickFacts
  <2>2. \A r \in Points : IsOpen(r)' => IsPoint(rdv'[r])
    BY <1>2, <1>3
  <2>3. QED
    BY <1>1, <2>1, <2>2 DEF RdvInv, TypeInv
<1>5. ClientsKnown'
  BY <1>1 DEF RdvInv, ClientsKnown
<1>6. NobodyStranded'
  <2> SUFFICES ASSUME NEW p \in Passports, awaits[p] # NoPoint, group[p] >= 0
               PROVE  /\ registered[p] /\ point[p] = awaits[p] /\ IsOpen(point[p])'
                      /\ p \in Listed(point[p])' /\ group[p] \in DOMAIN rdv'[point[p]].groups
    BY <1>1 DEF NobodyStranded
  <2>1. /\ registered[p] /\ point[p] = awaits[p] /\ IsOpen(point[p])
        /\ p \in Listed(point[p]) /\ group[p] \in DOMAIN rdv[point[p]].groups
    BY DEF RdvInv, NobodyStranded
  <2>2. point[p] \in Points
    BY <2>1 DEF RdvInv, TypeInv
  <2>3. point'[p] = point[p]
    BY <1>1
  <2>4. QED
    BY <1>2, <1>3, <2>1, <2>2, <2>3 DEF Listed, IsOpen
<1>7. PointsHold'
  <2> SUFFICES ASSUME NEW q \in Points, IsOpen(q)'
               PROVE  /\ ParamOf(q)' = NoParam => DOMAIN rdv'[q].groups = {0}
                      /\ SeatsHold(rdv'[q], q, point', group', summary'[q])
    BY DEF PointsHold
  <2>1. IsOpen(q) /\ ParamOf(q)' = ParamOf(q)
    BY <1>1, <1>3 DEF ParamOf
  <2>2. SeatsHold(rdv'[q], q, point', group', summary'[q])
    BY <1>1, <1>2, <2>1, PointKept
  <2>3. QED
    BY <1>2, <2>1, <2>2 DEF RdvInv, PointsHold
<1>8. EntriesHold'
  BY <1>1, <1>3 DEF RdvInv, EntriesHold
<1>9. QED
  BY <1>4, <1>5, <1>6, <1>7, <1>8 DEF RdvInv

\* A point that fires loses its seats and its summary together, and its seated
\* clients are started.
LEMMA UpdateStep ==
  ASSUME RdvInv, UpdateRDVPoint
  PROVE  RdvInv'
<1> DEFINE due == {r \in Points : Due(r)}
           started == UNION {Started(r) : r \in due}
<1>1. /\ mainPc' = "idle"
      /\ rdv' = [r \in Points |-> IF r \in due THEN Closed ELSE rdv[r]]
      /\ summary' = [r \in Points |-> IF r \in due THEN NoEntry ELSE summary[r]]
      /\ awaits' = [p \in Passports |-> IF p \in started THEN NoPoint ELSE awaits[p]]
      /\ fired' = IF Tunable THEN fired ELSE fired \cup due
      /\ UNCHANGED <<registered, point, group, param>>
  BY Zenon DEF UpdateRDVPoint
<1>2. due \subseteq Points
  OBVIOUS
<1>3. \A r \in due : \A p \in Listed(r) :
        registered[p] /\ group[p] >= 0 => p \in started
  BY DEF Started
<1>4. fired' \subseteq Points
  BY <1>1, <1>2 DEF RdvInv, TypeInv
<1> HIDE DEF due, started
<1>5. ASSUME NEW r \in Points
      PROVE  /\ r \in due => rdv'[r] = Closed /\ summary'[r] = NoEntry
             /\ r \notin due => rdv'[r] = rdv[r] /\ summary'[r] = summary[r]
  BY <1>1
<1>6. \A r \in Points : IsOpen(r)' <=> IsOpen(r) /\ r \notin due
  BY <1>5 DEF IsOpen
<1>7. \A p \in Passports : awaits'[p] # NoPoint => awaits'[p] = awaits[p] /\ p \notin started
  BY <1>1
<1>8. TypeInv'
  <2>1. /\ rdv' = [r \in Points |-> rdv'[r]] /\ summary' = [r \in Points |-> summary'[r]]
    BY <1>1, Zenon
  <2>2. \A r \in Points : IsOpen(r)' => IsPoint(rdv'[r])
    BY <1>5, <1>6 DEF RdvInv, TypeInv
  <2>3. \A r \in Points : summary'[r] # NoEntry => IsEntry(summary'[r])
    BY <1>5 DEF RdvInv, TypeInv
  <2>4. awaits' \in [Passports -> Points \cup {NoPoint}]
    BY <1>1 DEF RdvInv, TypeInv
  <2>5. QED
    BY <1>1, <1>4, <2>1, <2>2, <2>3, <2>4 DEF RdvInv, TypeInv
<1>9. ClientsKnown'
  BY <1>1, <1>7 DEF RdvInv, ClientsKnown
<1>10. NobodyStranded'
  <2> SUFFICES ASSUME NEW p \in Passports, awaits'[p] # NoPoint, group[p] >= 0
               PROVE  /\ registered[p] /\ point[p] = awaits'[p] /\ IsOpen(point[p])'
                      /\ p \in Listed(point[p])' /\ group[p] \in DOMAIN rdv'[point[p]].groups
    BY <1>1 DEF NobodyStranded
  <2>1. /\ registered[p] /\ point[p] = awaits[p] /\ IsOpen(point[p])
        /\ p \in Listed(point[p]) /\ group[p] \in DOMAIN rdv[point[p]].groups
        /\ awaits'[p] = awaits[p] /\ p \notin started
    BY <1>7 DEF RdvInv, NobodyStranded
  <2>2. point[p] \in Points
    BY <2>1 DEF RdvInv, TypeInv
  <2>3. point[p] \notin due
    BY <1>3, <2>1
  <2>4. point'[p] = point[p] /\ rdv'[point[p]] = rdv[point[p]]
    BY <1>1, <1>5, <2>2, <2>3
  <2>5. QED
    BY <1>6, <2>1, <2>2, <2>3, <2>4 DEF Listed, IsOpen
<1>11. PointsHold'
  <2> SUFFICES ASSUME NEW q \in Points, IsOpen(q)'
               PROVE  /\ ParamOf(q)' = NoParam => DOMAIN rdv'[q].groups = {0}
                      /\ SeatsHold(rdv'[q], q, point', group', summary'[q])
    BY DEF PointsHold
  <2>1. IsOpen(q) /\ rdv'[q] = rdv[q] /\ summary'[q] = summary[q]
    BY <1>5, <1>6
  <2>2. ParamOf(q)' = ParamOf(q)
    BY <1>1 DEF ParamOf
  <2>3. SeatsHold(rdv'[q], q, point', group', summary'[q])
    BY <1>1, <2>1, PointKept
  <2>4. QED
    BY <2>1, <2>2, <2>3 DEF RdvInv, PointsHold
<1>12. EntriesHold'
  BY <1>5, <1>6 DEF RdvInv, EntriesHold
<1>13. QED
  BY <1>8, <1>9, <1>10, <1>11, <1>12 DEF RdvInv

\* setrdvp: parameters change, but never disappear.
LEMMA OperatorStep ==
  ASSUME RdvInv, NEW m \in Majors, NEW prm \in ParamChoices, SetRDVParameter(m, prm)
  PROVE  RdvInv'
<1>1. /\ param' = [param EXCEPT ![m] = prm]
      /\ UNCHANGED <<mainPc, registered, point, group, awaits, rdv, summary, fired>>
  BY Zenon DEF SetRDVParameter, vupVars
<1>2. prm \in Param /\ prm # NoParam
  BY RdvAssumption, ParamIsParam
<1>3. /\ param' \in [Majors -> Param \cup {NoParam}]
      /\ \A r \in Points : ParamOf(r)' = NoParam => ParamOf(r) = NoParam
  <2>1. param \in [Majors -> Param \cup {NoParam}]
    BY DEF RdvInv, TypeInv
  <2>2. \A r \in Points : MajorOf[r] \in Majors
    BY DEF Majors
  <2>3. QED
    BY <1>1, <1>2, <2>1, <2>2 DEF ParamOf
<1>4. TypeInv' /\ ClientsKnown' /\ NobodyStranded' /\ EntriesHold'
  BY <1>1, <1>3 DEF RdvInv, TypeInv, ClientsKnown, NobodyStranded, EntriesHold,
                    IsOpen, Listed
<1>5. PointsHold'
  BY <1>1, <1>3 DEF RdvInv, PointsHold, IsOpen
<1>6. QED
  BY <1>4, <1>5 DEF RdvInv

-----------------------------------------------------------------------------
(* A client that leaves. *)

\* What becomes of the summary entry of the client's point.
LEMMA EraseShown ==
  ASSUME RdvInv, NEW r \in Points, NEW g, NEW p, Erase(r, g, p)
  PROVE  /\ summary' = [q \in Points |-> summary'[q]]
         /\ \A q \in Points \ {r} : summary'[q] = summary[q]
         /\ summary'[r] # NoEntry => summary[r] # NoEntry /\ IsEntry(summary'[r])
         /\ EntryFits(summary[r]) /\ summary'[r] # NoEntry => EntryFits(summary'[r])
         /\ Shown(summary'[r], g) \in {RemoveFirst(Shown(summary[r], g), p), <<>>}
         /\ \A h : h # g => Shown(summary'[r], h) \in {Shown(summary[r], h), <<>>}
<1> DEFINE e == summary[r]
           f == summary'[r]
<1>1. /\ summary = [q \in Points |-> summary[q]] /\ NoPoint \notin Points
      /\ e # NoEntry => IsEntry(e)
  BY RdvAssumption DEF RdvInv, TypeInv
<1>2. RemoveFirst(<<>>, p) = <<>>
  BY DEF RemoveFirst
<1>3. CASE e = NoEntry
  <2>1. UNCHANGED summary
    BY <1>3 DEF Erase
  <2>2. \A h : Shown(e, h) = <<>>
    BY <1>3 DEF Shown, GroupIn, EmptyGroup
  <2>3. QED
    BY <1>1, <1>2, <1>3, <2>1, <2>2
<1>4. CASE e # NoEntry
  <2>1. /\ summary' = [summary EXCEPT ![r] = f]
        /\ TotalLess(e, g) = 0 => f = NoEntry
        /\ TotalLess(e, g) # 0 =>
             /\ IsEntry(f) /\ DOMAIN f.groups = DOMAIN e.groups
             /\ \A i \in DOMAIN e.groups : i # g => f.groups[i] = e.groups[i]
             /\ g \in DOMAIN e.groups =>
                  f.groups[g] = [cur |-> e.groups[g].cur - 1, max |-> e.groups[g].max,
                                 passports |-> RemoveFirst(e.groups[g].passports, p)]
    BY <1>1, <1>4, EraseFacts
  <2>2. IsEntry(e)
    BY <1>1, <1>4
  <2>3. \A q \in Points \ {r} : summary'[q] = summary[q]
    BY <1>1, <2>1
  <2>4. summary' = [q \in Points |-> summary'[q]]
    BY <1>1, <2>1
  <2> HIDE DEF e, f
  <2>5. CASE f = NoEntry
    <3>1. \A h : Shown(f, h) = <<>>
      BY <2>5 DEF Shown, GroupIn, EmptyGroup
    <3>2. QED
      BY <2>3, <2>4, <2>5, <3>1 DEF e, f
  <2>6. CASE f # NoEntry
    <3>1. /\ IsEntry(f) /\ DOMAIN f.groups = DOMAIN e.groups
          /\ \A i \in DOMAIN e.groups : i # g => f.groups[i] = e.groups[i]
          /\ g \in DOMAIN e.groups =>
               f.groups[g] = [cur |-> e.groups[g].cur - 1, max |-> e.groups[g].max,
                              passports |-> RemoveFirst(e.groups[g].passports, p)]
      BY <2>1, <2>6
    <3>2. \A h : h # g => Shown(f, h) = Shown(e, h)
      BY <1>4, <2>6, <3>1 DEF Shown, GroupIn
    <3>3. Shown(f, g) = RemoveFirst(Shown(e, g), p)
      <4>1. CASE g \in DOMAIN e.groups
        BY <1>4, <2>6, <3>1, <4>1 DEF Shown, GroupIn
      <4>2. CASE g \notin DOMAIN e.groups
        BY <1>2, <1>4, <2>6, <3>1, <4>2 DEF Shown, GroupIn, EmptyGroup
      <4>3. QED
        BY <4>1, <4>2
    <3>4. ASSUME EntryFits(e) PROVE EntryFits(f)
      <4> SUFFICES ASSUME NEW h \in DOMAIN f.groups PROVE Fits(f.groups[h])
        BY DEF EntryFits
      <4>1. h \in DOMAIN e.groups /\ Fits(e.groups[h])
        BY <3>1, <3>4 DEF EntryFits
      <4>2. CASE h # g
        BY <3>1, <4>1, <4>2
      <4>3. CASE h = g
        <5>1. e.groups[g] \in GroupType
          BY <2>2, <4>1, <4>3 DEF IsEntry
        <5>2. e.groups[g].passports \in Seq(Passports) /\ e.groups[g].max \in Int
          BY <5>1 DEF GroupType
        <5>3. Len(RemoveFirst(e.groups[g].passports, p)) <= Len(e.groups[g].passports)
              /\ Len(RemoveFirst(e.groups[g].passports, p)) \in Nat
              /\ Len(e.groups[g].passports) \in Nat
          BY <5>2, RemoveFirstFacts
        <5>4. f.groups[g].max = e.groups[g].max
              /\ f.groups[g].passports = RemoveFirst(e.groups[g].passports, p)
          BY <3>1, <4>1, <4>3
        <5>5. QED
          BY <4>1, <4>3, <5>2, <5>3, <5>4 DEF Fits
      <4>4. QED
        BY <4>2, <4>3
    <3>5. QED
      BY <1>4, <2>3, <2>4, <3>1, <3>2, <3>3, <3>4 DEF e, f
  <2>7. QED
    BY <2>5, <2>6
<1>5. QED
  BY <1>3, <1>4

\* The point of a client that leaves: its seat is given back if it had one.
LEMMA VacatedPoint ==
  ASSUME RdvInv, NEW p \in Passports, NEW r \in Points, point[p] = r, IsOpen(r),
         point'[p] # r, Erase(r, group[p], p), rdv'[r] = Vacate(rdv[r], p),
         \A q \in Passports \ {p} : point'[q] = point[q] /\ group'[q] = group[q]
  PROVE  /\ IsPoint(rdv'[r]) /\ DOMAIN rdv'[r].groups = DOMAIN rdv[r].groups
         /\ SeatsHold(rdv'[r], r, point', group', summary'[r])
         /\ Listed(r) \ {p} \subseteq ToSet(rdv'[r].clients)
<1>1. PICK x, y, pt, gr, pt2, gr2, e, f :
        /\ x = rdv[r] /\ y = rdv'[r] /\ pt = point /\ gr = group /\ e = summary[r]
        /\ pt2 = point' /\ gr2 = group' /\ f = summary'[r]
  OBVIOUS
<1>2. IsPoint(x) /\ (e # NoEntry => IsEntry(e)) /\ SeatsHold(x, r, pt, gr, e)
  BY <1>1 DEF RdvInv, TypeInv, PointsHold
<1>3. /\ f # NoEntry => IsEntry(f)
      /\ Shown(f, gr[p]) \in {RemoveFirst(Shown(e, gr[p]), p), <<>>}
      /\ \A h : h # gr[p] => Shown(f, h) \in {Shown(e, h), <<>>}
  BY <1>1, EraseShown
<1>4. /\ pt[p] = r /\ pt2[p] # r
      /\ \A q \in Passports \ {p} : pt2[q] = pt[q] /\ gr2[q] = gr[q]
  BY <1>1
<1>5. /\ gr[p] >= 0 /\ p \in ToSet(x.clients) => y = GivenBack(x, gr[p], p)
      /\ ~(gr[p] >= 0 /\ p \in ToSet(x.clients)) => y = x
  BY <1>1, Zenon DEF Vacate, GivenBack
<1>6. Goes(x, r, p, pt, gr, e, pt2, gr2, f, y)
  BY <1>2, <1>3, <1>4, <1>5, Zenon DEF Goes
<1>7. /\ IsPoint(y) /\ DOMAIN y.groups = DOMAIN x.groups /\ SeatsHold(y, r, pt2, gr2, f)
      /\ ToSet(x.clients) \ {p} \subseteq ToSet(y.clients)
  BY <1>6, SeatsLeft
<1>8. QED
  BY <1>1, <1>7 DEF Listed

\* RemoveVup.
LEMMA LeaveStep ==
  ASSUME RdvInv, NEW p \in Passports, Leave(p)
  PROVE  RdvInv'
<1> DEFINE r == point[p]
<1>1. /\ registered[p]
      /\ registered' = [registered EXCEPT ![p] = FALSE]
      /\ point' = [point EXCEPT ![p] = NoPoint]
      /\ group' = [group EXCEPT ![p] = NoGroup]
      /\ awaits' = [awaits EXCEPT ![p] = NoPoint]
      /\ Erase(r, group[p], p) /\ UNCHANGED <<mainPc, param, fired>>
  BY DEF Leave
<1>2. /\ r # NoPoint /\ IsOpen(r) => rdv' = [rdv EXCEPT ![r] = Vacate(rdv[r], p)]
      /\ ~(r # NoPoint /\ IsOpen(r)) => rdv' = rdv
  BY Zenon DEF Leave
<1>3. /\ registered \in [Passports -> BOOLEAN] /\ r \in Points \cup {NoPoint}
      /\ point \in [Passports -> Points \cup {NoPoint}]
      /\ awaits \in [Passports -> Points \cup {NoPoint}]
      /\ group \in [Passports -> Int] /\ \A q \in Passports : group[q] >= NoGroup
      /\ rdv = [q \in Points |-> rdv[q]] /\ summary = [q \in Points |-> summary[q]]
      /\ \A q \in Points : IsOpen(q) => IsPoint(rdv[q])
      /\ \A q \in Points : summary[q] # NoEntry => IsEntry(summary[q])
  BY DEF RdvInv, TypeInv
<1>4. /\ registered' \in [Passports -> BOOLEAN]
      /\ point' \in [Passports -> Points \cup {NoPoint}]
      /\ awaits' \in [Passports -> Points \cup {NoPoint}]
      /\ group' \in [Passports -> Int] /\ \A q \in Passports : group'[q] >= NoGroup
      /\ point'[p] = NoPoint /\ awaits'[p] = NoPoint /\ group'[p] = NoGroup
      /\ \A q \in Passports \ {p} : /\ registered'[q] = registered[q]
                                    /\ point'[q] = point[q] /\ awaits'[q] = awaits[q]
                                    /\ group'[q] = group[q]
  BY <1>1, <1>3 DEF NoGroup
<1>5. NoPoint \notin Points
  BY RdvAssumption
\* The point of the client, if it has one.
<1>6. ASSUME r # NoPoint, IsOpen(r)
      PROVE  /\ IsPoint(rdv'[r]) /\ DOMAIN rdv'[r].groups = DOMAIN rdv[r].groups
             /\ SeatsHold(rdv'[r], r, point', group', summary'[r])
             /\ Listed(r) \ {p} \subseteq ToSet(rdv'[r].clients)
  <2>1. r \in Points
    BY <1>3, <1>6
  <2>2. rdv'[r] = Vacate(rdv[r], p)
    BY <1>2, <1>3, <1>6, <2>1
  <2>3. point'[p] # r
    BY <1>4, <1>6
  <2>4. \A q \in Passports \ {p} : point'[q] = point[q] /\ group'[q] = group[q]
    BY <1>4
  <2>5. PICK s : s = r
    OBVIOUS
  <2>6. s \in Points /\ point[p] = s /\ IsOpen(s) /\ point'[p] # s
        /\ Erase(s, group[p], p) /\ rdv'[s] = Vacate(rdv[s], p)
    BY <1>1, <1>6, <2>1, <2>2, <2>3, <2>5
  <2>7. /\ IsPoint(rdv'[s]) /\ DOMAIN rdv'[s].groups = DOMAIN rdv[s].groups
        /\ SeatsHold(rdv'[s], s, point', group', summary'[s])
        /\ Listed(s) \ {p} \subseteq ToSet(rdv'[s].clients)
    BY <2>4, <2>6, VacatedPoint
  <2>8. QED
    BY <2>5, <2>7
<1>7. /\ \A q \in Points \ {r} : rdv'[q] = rdv[q]
      /\ rdv' = [q \in Points |-> rdv'[q]]
  <2>1. CASE r # NoPoint /\ IsOpen(r)
    BY <1>2, <1>3, <2>1
  <2>2. CASE ~(r # NoPoint /\ IsOpen(r))
    BY <1>2, <1>3, <2>2
  <2>3. QED
    BY <2>1, <2>2
<1>8. /\ summary' = [q \in Points |-> summary'[q]]
      /\ \A q \in Points \ {r} : summary'[q] = summary[q]
      /\ r \in Points => /\ summary'[r] # NoEntry =>
                              summary[r] # NoEntry /\ IsEntry(summary'[r])
                         /\ EntryFits(summary[r]) /\ summary'[r] # NoEntry =>
                              EntryFits(summary'[r])
  <2>1. CASE r = NoPoint
    <3>1. summary' = summary
      BY <1>1, <2>1 DEF Erase
    <3>2. QED
      BY <1>3, <1>5, <2>1, <3>1
  <2>2. CASE r \in Points
    BY <1>1, <2>2, EraseShown
  <2>3. QED
    BY <1>3, <2>1, <2>2
<1>9. ASSUME NEW q \in Points
      PROVE  /\ IsOpen(q)' <=> IsOpen(q)
             /\ q # r \/ ~IsOpen(q) => rdv'[q] = rdv[q]
  <2>1. CASE q = r /\ IsOpen(q)
    <3>1. IsPoint(rdv'[q])
      BY <1>5, <1>6, <2>1
    <3>2. QED
      BY <2>1, <3>1, PointIsOpen DEF IsOpen
  <2>2. CASE q = r /\ ~IsOpen(q)
    BY <1>2, <2>2 DEF IsOpen
  <2>3. CASE q # r
    BY <1>7, <2>3 DEF IsOpen
  <2>4. QED
    BY <2>1, <2>2, <2>3
<1> HIDE DEF r
<1>10. TypeInv'
  <2>1. ASSUME NEW q \in Points, IsOpen(q)'
        PROVE  IsPoint(rdv'[q])
    BY <1>3, <1>5, <1>6, <1>9, <2>1
  <2>2. ASSUME NEW q \in Points, summary'[q] # NoEntry
        PROVE  IsEntry(summary'[q])
    BY <1>3, <1>8, <2>2
  <2>3. QED
    BY <1>1, <1>4, <1>7, <1>8, <2>1, <2>2 DEF RdvInv, TypeInv
<1>11. ClientsKnown'
  BY <1>4 DEF RdvInv, ClientsKnown
<1>12. NobodyStranded'
  <2> SUFFICES ASSUME NEW q \in Passports, awaits'[q] # NoPoint, group'[q] >= 0
               PROVE  /\ registered'[q] /\ point'[q] = awaits'[q] /\ IsOpen(point[q])'
                      /\ q \in Listed(point[q])'
                      /\ group'[q] \in DOMAIN rdv'[point'[q]].groups
    BY DEF NobodyStranded
  <2>1. q # p
    BY <1>4
  <2>2. /\ registered'[q] = registered[q] /\ point'[q] = point[q]
        /\ awaits'[q] = awaits[q] /\ group'[q] = group[q]
    BY <1>4, <2>1
  <2>3. /\ registered[q] /\ point[q] = awaits[q] /\ IsOpen(point[q])
        /\ q \in Listed(point[q]) /\ group[q] \in DOMAIN rdv[point[q]].groups
    BY <2>2 DEF RdvInv, NobodyStranded
  <2>4. point[q] \in Points
    BY <1>3, <2>2, <2>3
  <2>5. /\ IsOpen(point[q])' /\ q \in ToSet(rdv'[point[q]].clients)
        /\ group[q] \in DOMAIN rdv'[point[q]].groups
    <3>1. CASE point[q] = r
      BY <1>5, <1>6, <1>9, <2>1, <2>2, <2>3, <2>4, <3>1 DEF IsOpen
    <3>2. CASE point[q] # r
      BY <1>9, <2>2, <2>3, <2>4, <3>2 DEF Listed, IsOpen
    <3>3. QED
      BY <3>1, <3>2
  <2>6. Listed(point[q])' = ToSet(rdv'[point[q]].clients)
    BY <2>2 DEF Listed
  <2>7. QED
    BY <2>2, <2>3, <2>5, <2>6
<1>13. PointsHold'
  <2> SUFFICES ASSUME NEW q \in Points, IsOpen(q)'
               PROVE  /\ ParamOf(q)' = NoParam => DOMAIN rdv'[q].groups = {0}
                      /\ SeatsHold(rdv'[q], q, point', group', summary'[q])
    BY DEF PointsHold
  <2>1. IsOpen(q)
    BY <1>9
  <2>2. ParamOf(q)' = ParamOf(q)
    BY <1>1 DEF ParamOf
  <2>3. CASE q = r
    BY <1>5, <1>6, <2>1, <2>2, <2>3 DEF RdvInv, PointsHold
  <2>4. CASE q # r
    <3>1. rdv'[q] = rdv[q] /\ summary'[q] = summary[q]
      BY <1>7, <1>8, <2>4
    <3>2. \A v \in Passports : point'[v] = q /\ group'[v] >= 0 =>
            point[v] = q /\ group[v] = group'[v]
      BY <1>4 DEF NoGroup
    <3>3. SeatsHold(rdv'[q], q, point', group', summary'[q])
      BY <2>1, <3>1, <3>2, PointKept
    <3>4. QED
      BY <2>1, <2>2, <3>1, <3>3 DEF RdvInv, PointsHold
  <2>5. QED
    BY <2>3, <2>4
<1>14. EntriesHold'
  <2> SUFFICES ASSUME NEW q \in Points, summary'[q] # NoEntry
               PROVE  IsOpen(q)' /\ EntryFits(summary'[q])
    BY DEF EntriesHold
  <2>1. summary[q] # NoEntry
    BY <1>8
  <2>2. IsOpen(q) /\ EntryFits(summary[q])
    BY <2>1 DEF RdvInv, EntriesHold
  <2>3. QED
    BY <1>8, <1>9, <2>2
<1>15. QED
  BY <1>10, <1>11, <1>12, <1>13, <1>14 DEF RdvInv

-----------------------------------------------------------------------------

\* RdvInv is inductive.
LEMMA RdvInvStep == RdvInv /\ [Next]_vars => RdvInv'
<1> SUFFICES ASSUME RdvInv, [Next]_vars PROVE RdvInv'
  OBVIOUS
<1>1. CASE \E p \in Passports : Register(p)
  BY <1>1, RegisterStep
<1>2. CASE \E p \in Passports : Leave(p)
  BY <1>2, LeaveStep
<1>3. CASE \E p \in Passports : \E r \in Points : Reach(p, r)
  BY <1>3, ReachStep
<1>4. CASE UpdateRDVPoint
  BY <1>4, UpdateStep
<1>5. CASE \E dt \in {0, 1} : StartTick(dt)
  BY <1>5, StartTickStep
<1>6. CASE Operator
  BY <1>6, OperatorStep DEF Operator
<1>7. CASE UNCHANGED vars
  BY <1>7 DEF vars, RdvInv, TypeInv, ClientsKnown, NobodyStranded, PointsHold,
              EntriesHold, IsOpen, Listed, ParamOf
<1>8. QED
  BY <1>1, <1>2, <1>3, <1>4, <1>5, <1>6, <1>7 DEF Next, Client, Tick

\* RdvInv holds in every state.
LEMMA RdvInvAlways == Spec => []RdvInv
  BY InitRdvInv, RdvInvStep, PTL DEF Spec

\* Whatever clients and the operator do, every point has as many seats taken as it
\* lists clients, and no group has fewer than none (ReachRDVPoint case, RemoveVup).
THEOREM SeatsBalance == Spec => []SeatsMatchList
<1>1. RdvInv => SeatsMatchList
  BY TypeInvGivesType DEF RdvInv, PointsHold, SeatsHold, SeatsMatchList
<1>2. QED
  BY <1>1, RdvInvAlways, PTL

\* A seated client that awaits a point is listed there with a group the point has,
\* so that the firing of the point starts it (ReachRDVPoint case, RemoveVup,
\* _UpdateRDVPoint).
THEOREM NobodyIsStranded == Spec => []NobodyStranded
<1>1. RdvInv => NobodyStranded
  BY DEF RdvInv
<1>2. QED
  BY <1>1, RdvInvAlways, PTL

\* No group on screen shows more clients than its limit (the assertion of
\* onUpdateGroup), whatever the operator changes.
THEOREM GroupsAlwaysFit == Spec => []GroupsFit
<1>1. RdvInv => GroupsFit
  BY DEF RdvInv, EntriesHold, EntryFits, Fits, GroupsFit
<1>2. QED
  BY <1>1, RdvInvAlways, PTL

-----------------------------------------------------------------------------
(* Clients that wait for one point at a time. *)

\* The list of a point names clients of the point, once, and counts them group
\* by group.
ListExact(x, r, pt, gr) ==
  /\ IsInjective(x.clients)
  /\ \A p \in ToSet(x.clients) : pt[p] = r /\ gr[p] \in DOMAIN x.groups
  /\ \A g \in DOMAIN x.groups : x.groups[g] = Cardinality(Seatees(x, r, g, pt, gr))

\* The summary entry of a point has its groups, its counts and its clients.
EntryExact(x, r, pt, gr, e) ==
  /\ e = NoEntry => x.clients = <<>>
  /\ e # NoEntry =>
       /\ x.clients # <<>> /\ e.total = Len(x.clients)
       /\ DOMAIN e.groups = DOMAIN x.groups
       /\ \A g \in DOMAIN x.groups :
            /\ e.groups[g].cur = x.groups[g]
            /\ IsInjective(e.groups[g].passports)
            /\ ToSet(e.groups[g].passports) = Seatees(x, r, g, pt, gr)

\* The point has the groups of its parameters and is full only without room.
RoomExact(x, prm) ==
  /\ prm # NoParam => DOMAIN x.groups = 0..(prm.groupNum - 1)
  /\ x.full => prm # NoParam /\ \A g \in DOMAIN x.groups : x.groups[g] >= prm.vupNum

\* A client that is listed awaits the point that lists it.
ListHeld(r) ==
  ListExact(rdv[r], r, point, group) /\ \A p \in Listed(r) : awaits[p] = r

\* The inductive invariant of clients that wait for one point at a time.
PatientInv == RdvInv /\ \A r \in Points : IsOpen(r) => ListHeld(r)

\* With parameters that are fixed while a point is open.
SteadyInv ==
  \A r \in Points :
    /\ IsOpen(r) => RoomExact(rdv[r], ParamOf(r))
    /\ r \notin fired =>
         /\ \A p \in Passports : point[p] = r => awaits[p] = r
         /\ IsOpen(r) => EntryExact(rdv[r], r, point, group, summary[r])

\* The seated clients of a group can be counted.
LEMMA SeateesCounted ==
  ASSUME NEW x, IsPoint(x), NEW r, NEW g, NEW pt, NEW gr
  PROVE  /\ IsFiniteSet(Seatees(x, r, g, pt, gr))
         /\ Cardinality(Seatees(x, r, g, pt, gr)) \in Nat
<1>1. x.clients \in Seq(Passports)
  BY DEF IsPoint
<1>2. IsFiniteSet(Seatees(x, r, g, pt, gr))
  BY <1>1, SeateesFinite
<1>3. QED
  BY <1>2, FS_CardinalityType

\* A point that was just opened.
LEMMA OpenedExact ==
  ASSUME NEW r, ParamOf(r) # NoParam => ParamOf(r) \in Param, NEW pt, NEW gr
  PROVE  /\ ListExact(Opened(r), r, pt, gr)
         /\ EntryExact(Opened(r), r, pt, gr, NoEntry)
<1> DEFINE x == Opened(r)
<1>1. x.clients = <<>> /\ \A g \in DOMAIN x.groups : x.groups[g] = 0
  BY OpenedFacts
<1> HIDE DEF x
<1>2. ToSet(x.clients) = {} /\ IsInjective(x.clients)
  BY <1>1 DEF ToSet, IsInjective
<1>3. \A g : Seatees(x, r, g, pt, gr) = {}
  BY <1>2 DEF Seatees
<1>4. Cardinality({}) = 0
  BY FS_EmptySet
<1>5. ListExact(x, r, pt, gr)
  BY <1>1, <1>2, <1>3, <1>4 DEF ListExact
<1>6. EntryExact(x, r, pt, gr, NoEntry)
  BY <1>1 DEF EntryExact
<1>7. QED
  BY <1>5, <1>6 DEF x

\* Nothing happens to the clients and the groups of a point.
LEMMA ExactKept ==
  ASSUME NEW x, NEW y, y.clients = x.clients, y.groups = x.groups,
         NEW r, NEW pt, NEW gr, NEW pt2, NEW gr2, NEW e,
         \A q \in ToSet(x.clients) : pt2[q] = pt[q] /\ gr2[q] = gr[q]
  PROVE  /\ ListExact(x, r, pt, gr) => ListExact(y, r, pt2, gr2)
         /\ EntryExact(x, r, pt, gr, e) => EntryExact(y, r, pt2, gr2, e)
<1>1. ASSUME NEW g PROVE Seatees(y, r, g, pt2, gr2) = Seatees(x, r, g, pt, gr)
  BY DEF Seatees
<1>2. QED
  BY <1>1 DEF ListExact, EntryExact

\* The client p comes to the point r and gets a seat in its group g.
Comes(x, r, g, p, pt, gr, pt2, gr2, y) ==
  /\ IsPoint(x) /\ p \in Passports /\ g \in DOMAIN x.groups
  /\ p \notin ToSet(x.clients)
  /\ pt2[p] = r /\ gr2[p] = g
  /\ \A q \in Passports \ {p} : pt2[q] = pt[q] /\ gr2[q] = gr[q]
  /\ y = Seated(x, g, p)

\* The point and the seated clients of each group afterwards.
LEMMA ComesFacts ==
  ASSUME NEW x, NEW r, NEW g, NEW p, NEW pt, NEW gr, NEW pt2, NEW gr2, NEW y,
         Comes(x, r, g, p, pt, gr, pt2, gr2, y)
  PROVE  /\ IsPoint(y) /\ DOMAIN y.groups = DOMAIN x.groups /\ y.full = x.full
         /\ ToSet(y.clients) = ToSet(x.clients) \cup {p}
         /\ Len(y.clients) = Len(x.clients) + 1
         /\ y.groups[g] = x.groups[g] + 1
         /\ \A h \in DOMAIN x.groups : h # g => y.groups[h] = x.groups[h]
         /\ Seatees(y, r, g, pt2, gr2) = Seatees(x, r, g, pt, gr) \cup {p}
         /\ p \notin Seatees(x, r, g, pt, gr)
         /\ \A h : h # g => Seatees(y, r, h, pt2, gr2) = Seatees(x, r, h, pt, gr)
         /\ IsInjective(x.clients) => IsInjective(y.clients)
<1>0. /\ IsPoint(x) /\ p \in Passports /\ g \in DOMAIN x.groups
      /\ p \notin ToSet(x.clients)
      /\ pt2[p] = r /\ gr2[p] = g
      /\ \A q \in Passports \ {p} : pt2[q] = pt[q] /\ gr2[q] = gr[q]
      /\ y = Seated(x, g, p)
  BY Zenon DEF Comes
<1>1. /\ IsPoint(y) /\ y.clients = Append(x.clients, p) /\ y.full = x.full
      /\ DOMAIN y.groups = DOMAIN x.groups
      /\ y.groups[g] = x.groups[g] + 1
      /\ \A h \in DOMAIN x.groups : h # g => y.groups[h] = x.groups[h]
  BY <1>0, SeatedFacts
<1>2. x.clients \in Seq(Passports) /\ ToSet(x.clients) \subseteq Passports
  BY <1>0 DEF IsPoint, ToSet
<1>3. /\ ToSet(y.clients) = ToSet(x.clients) \cup {p}
      /\ Len(y.clients) = Len(x.clients) + 1
      /\ IsInjective(x.clients) => IsInjective(y.clients)
  BY <1>0, <1>1, <1>2, AppendFacts
<1>4. /\ Seatees(y, r, g, pt2, gr2) = Seatees(x, r, g, pt, gr) \cup {p}
      /\ p \notin Seatees(x, r, g, pt, gr)
      /\ \A h : h # g => Seatees(y, r, h, pt2, gr2) = Seatees(x, r, h, pt, gr)
  BY <1>0, <1>2, <1>3 DEF Seatees
<1>5. QED
  BY <1>1, <1>3, <1>4

\* The list still counts its clients group by group.
LEMMA ListTakes ==
  ASSUME NEW x, NEW r, NEW g, NEW p, NEW pt, NEW gr, NEW pt2, NEW gr2, NEW y,
         Comes(x, r, g, p, pt, gr, pt2, gr2, y), ListExact(x, r, pt, gr)
  PROVE  ListExact(y, r, pt2, gr2)
<1>0. /\ IsPoint(x) /\ p \in Passports /\ g \in DOMAIN x.groups
      /\ pt2[p] = r /\ gr2[p] = g
      /\ \A q \in Passports \ {p} : pt2[q] = pt[q] /\ gr2[q] = gr[q]
  BY Zenon DEF Comes
<1>1. /\ DOMAIN y.groups = DOMAIN x.groups
      /\ ToSet(y.clients) = ToSet(x.clients) \cup {p}
      /\ y.groups[g] = x.groups[g] + 1
      /\ \A h \in DOMAIN x.groups : h # g => y.groups[h] = x.groups[h]
      /\ IsInjective(x.clients) => IsInjective(y.clients)
  BY ComesFacts
<1>2. /\ Seatees(y, r, g, pt2, gr2) = Seatees(x, r, g, pt, gr) \cup {p}
      /\ p \notin Seatees(x, r, g, pt, gr)
      /\ \A h : h # g => Seatees(y, r, h, pt2, gr2) = Seatees(x, r, h, pt, gr)
  BY ComesFacts
<1>3. ToSet(x.clients) \subseteq Passports
  BY <1>0 DEF IsPoint, ToSet
<1>4. \A q \in ToSet(y.clients) : pt2[q] = r /\ gr2[q] \in DOMAIN y.groups
  BY <1>0, <1>1, <1>3 DEF ListExact
<1>5. y.groups[g] = Cardinality(Seatees(y, r, g, pt2, gr2))
  <2> DEFINE C == Seatees(x, r, g, pt, gr)
  <2>1. IsFiniteSet(C) /\ x.groups[g] = Cardinality(C)
    BY <1>0, SeateesCounted DEF ListExact
  <2>2. p \notin C /\ Seatees(y, r, g, pt2, gr2) = C \cup {p}
    BY <1>2
  <2> HIDE DEF C
  <2>3. Cardinality(C \cup {p}) = Cardinality(C) + 1
    BY <2>1, <2>2, FS_AddElement
  <2>4. QED
    BY <1>1, <2>1, <2>2, <2>3
<1>6. \A h \in DOMAIN y.groups : y.groups[h] = Cardinality(Seatees(y, r, h, pt2, gr2))
  BY <1>1, <1>2, <1>5 DEF ListExact
<1>7. QED
  BY <1>1, <1>4, <1>6 DEF ListExact

\* The entry follows: f is what Enter makes of it.
LEMMA EntryTakes ==
  ASSUME NEW x, NEW r, NEW g, NEW p, NEW pt, NEW gr, NEW pt2, NEW gr2, NEW y,
         Comes(x, r, g, p, pt, gr, pt2, gr2, y), ListExact(x, r, pt, gr),
         NEW e, e # NoEntry => IsEntry(e), EntryExact(x, r, pt, gr, e),
         NEW f, IsEntry(f), DOMAIN f.groups = DOMAIN x.groups,
         f.total = TotalIn(e) + 1, f.groups[g].cur = GroupIn(e, g).cur + 1,
         f.groups[g].passports = Append(Shown(e, g), p),
         \A h \in DOMAIN x.groups : h # g => f.groups[h] = GroupIn(e, h)
  PROVE  EntryExact(y, r, pt2, gr2, f)
<1>0. IsPoint(x) /\ p \in Passports /\ g \in DOMAIN x.groups
  BY Zenon DEF Comes
<1>1. /\ IsPoint(y) /\ DOMAIN y.groups = DOMAIN x.groups
      /\ Len(y.clients) = Len(x.clients) + 1
      /\ y.groups[g] = x.groups[g] + 1
      /\ \A h \in DOMAIN x.groups : h # g => y.groups[h] = x.groups[h]
  BY ComesFacts
<1>2. /\ Seatees(y, r, g, pt2, gr2) = Seatees(x, r, g, pt, gr) \cup {p}
      /\ p \notin Seatees(x, r, g, pt, gr)
      /\ \A h : h # g => Seatees(y, r, h, pt2, gr2) = Seatees(x, r, h, pt, gr)
  BY ComesFacts
<1>3. x.clients \in Seq(Passports) /\ y.clients \in Seq(Passports)
  BY <1>0, <1>1 DEF IsPoint
\* What the entry was, there or not.
<1>4. /\ TotalIn(e) = Len(x.clients)
      /\ \A h \in DOMAIN x.groups :
           /\ GroupIn(e, h).cur = x.groups[h]
           /\ IsInjective(GroupIn(e, h).passports)
           /\ ToSet(GroupIn(e, h).passports) = Seatees(x, r, h, pt, gr)
  <2>1. CASE e # NoEntry
    BY <2>1 DEF EntryExact, TotalIn, GroupIn
  <2>2. CASE e = NoEntry
    <3>1. x.clients = <<>>
      BY <2>2 DEF EntryExact
    <3>2. ToSet(x.clients) = {} /\ Len(x.clients) = 0
      BY <3>1 DEF ToSet
    <3>3. \A h : Seatees(x, r, h, pt, gr) = {}
      BY <3>2 DEF Seatees
    <3>4. \A h \in DOMAIN x.groups : x.groups[h] = 0
      BY <3>3, FS_EmptySet DEF ListExact
    <3>5. \A h : GroupIn(e, h) = EmptyGroup
      BY <2>2 DEF GroupIn
    <3>6. EmptyGroup.cur = 0 /\ EmptyGroup.passports = <<>>
      BY DEF EmptyGroup
    <3>7. ToSet(<<>>) = {} /\ IsInjective(<<>>)
      BY DEF ToSet, IsInjective
    <3>8. TotalIn(e) = 0
      BY <2>2 DEF TotalIn
    <3>9. QED
      BY <3>2, <3>3, <3>4, <3>5, <3>6, <3>7, <3>8
  <2>3. QED
    BY <2>1, <2>2
<1>5. /\ IsInjective(f.groups[g].passports)
      /\ ToSet(f.groups[g].passports) = Seatees(y, r, g, pt2, gr2)
  <2>1. Shown(e, g) \in Seq(Passports)
    BY GroupInType
  <2>2. p \notin ToSet(Shown(e, g)) /\ IsInjective(Shown(e, g))
        /\ ToSet(Shown(e, g)) = Seatees(x, r, g, pt, gr)
    BY <1>0, <1>2, <1>4 DEF Shown
  <2>3. QED
    BY <1>0, <1>2, <2>1, <2>2, AppendFacts
<1>6. ASSUME NEW h \in DOMAIN y.groups
      PROVE  /\ f.groups[h].cur = y.groups[h]
             /\ IsInjective(f.groups[h].passports)
             /\ ToSet(f.groups[h].passports) = Seatees(y, r, h, pt2, gr2)
  <2>1. CASE h = g
    BY <1>0, <1>1, <1>4, <1>5, <2>1
  <2>2. CASE h # g
    <3>1. h \in DOMAIN x.groups /\ f.groups[h] = GroupIn(e, h)
      BY <1>1, <2>2
    <3>2. QED
      BY <1>1, <1>2, <1>4, <2>2, <3>1
  <2>3. QED
    BY <2>1, <2>2
<1>7. f # NoEntry /\ y.clients # <<>> /\ f.total = Len(y.clients)
  <2>1. f # NoEntry
    BY EntryIsEntry
  <2>2. Len(x.clients) \in Nat /\ Len(<<>>) = 0
    BY <1>3
  <2>3. QED
    BY <1>1, <1>3, <1>4, <2>1, <2>2
<1>8. QED
  BY <1>1, <1>6, <1>7 DEF EntryExact

\* The client p of the point r goes and gives its seat back.
GivesBack(x, r, p, pt, gr, pt2, gr2, y) ==
  /\ IsPoint(x) /\ ListExact(x, r, pt, gr)
  /\ p \in Passports /\ p \in ToSet(x.clients) /\ pt2[p] # r
  /\ \A q \in Passports \ {p} : pt2[q] = pt[q] /\ gr2[q] = gr[q]
  /\ y = GivenBack(x, gr[p], p)

\* The point and the seated clients of each group afterwards.
LEMMA GivesBackFacts ==
  ASSUME NEW x, NEW r, NEW p, NEW pt, NEW gr, NEW pt2, NEW gr2, NEW y,
         GivesBack(x, r, p, pt, gr, pt2, gr2, y)
  PROVE  /\ IsPoint(y) /\ DOMAIN y.groups = DOMAIN x.groups /\ ~y.full
         /\ gr[p] \in DOMAIN x.groups
         /\ ToSet(y.clients) = ToSet(x.clients) \ {p}
         /\ Len(y.clients) = Len(x.clients) - 1
         /\ y.groups[gr[p]] = x.groups[gr[p]] - 1
         /\ \A h \in DOMAIN x.groups : h # gr[p] => y.groups[h] = x.groups[h]
         /\ Seatees(y, r, gr[p], pt2, gr2) = Seatees(x, r, gr[p], pt, gr) \ {p}
         /\ p \in Seatees(x, r, gr[p], pt, gr)
         /\ \A h : h # gr[p] => Seatees(y, r, h, pt2, gr2) = Seatees(x, r, h, pt, gr)
         /\ IsInjective(y.clients)
<1>0. /\ IsPoint(x) /\ ListExact(x, r, pt, gr)
      /\ p \in Passports /\ p \in ToSet(x.clients) /\ pt2[p] # r
      /\ \A q \in Passports \ {p} : pt2[q] = pt[q] /\ gr2[q] = gr[q]
      /\ y = GivenBack(x, gr[p], p)
  BY Zenon DEF GivesBack
<1>1. /\ pt[p] = r /\ gr[p] \in DOMAIN x.groups /\ IsInjective(x.clients)
      /\ x.groups[gr[p]] = Cardinality(Seatees(x, r, gr[p], pt, gr))
  BY <1>0 DEF ListExact
<1>2. PICK g : g = gr[p]
  OBVIOUS
<1>3. p \in Seatees(x, r, g, pt, gr)
  BY <1>0, <1>1, <1>2 DEF Seatees
<1>4. x.groups[g] >= 1
  <2> DEFINE C == Seatees(x, r, g, pt, gr)
  <2>1. IsFiniteSet(C) /\ Cardinality(C) \in Nat
    BY <1>0, SeateesCounted
  <2>2. x.groups[g] = Cardinality(C) /\ C # {}
    BY <1>1, <1>2, <1>3
  <2> HIDE DEF C
  <2>3. Cardinality(C) # 0
    BY <2>1, <2>2, FS_EmptySet
  <2>4. QED
    BY <2>1, <2>2, <2>3
<1>5. /\ IsPoint(y) /\ y.clients = RemoveFirst(x.clients, p) /\ ~y.full
      /\ DOMAIN y.groups = DOMAIN x.groups
      /\ y.groups[g] = x.groups[g] - 1
      /\ \A h \in DOMAIN x.groups : h # g => y.groups[h] = x.groups[h]
  <2>1. y = GivenBack(x, g, p) /\ g \in DOMAIN x.groups
    BY <1>0, <1>1, <1>2
  <2>2. QED
    BY <1>0, <1>4, <2>1, VacatedFacts
<1>6. x.clients \in Seq(Passports) /\ ToSet(x.clients) \subseteq Passports
  BY <1>0 DEF IsPoint, ToSet
<1>7. /\ ToSet(y.clients) = ToSet(x.clients) \ {p}
      /\ Len(y.clients) = Len(x.clients) - 1
      /\ IsInjective(y.clients)
  BY <1>0, <1>1, <1>5, <1>6, RemoveFirstFacts
<1>8. /\ Seatees(y, r, g, pt2, gr2) = Seatees(x, r, g, pt, gr) \ {p}
      /\ \A h : h # g => Seatees(y, r, h, pt2, gr2) = Seatees(x, r, h, pt, gr)
  BY <1>0, <1>2, <1>6, <1>7 DEF Seatees
<1>9. QED
  BY <1>1, <1>2, <1>3, <1>5, <1>7, <1>8

\* The list still counts its clients group by group.
LEMMA ListGives ==
  ASSUME NEW x, NEW r, NEW p, NEW pt, NEW gr, NEW pt2, NEW gr2, NEW y,
         GivesBack(x, r, p, pt, gr, pt2, gr2, y)
  PROVE  ListExact(y, r, pt2, gr2)
<1>0. /\ IsPoint(x) /\ ListExact(x, r, pt, gr)
      /\ \A q \in Passports \ {p} : pt2[q] = pt[q] /\ gr2[q] = gr[q]
  BY Zenon DEF GivesBack
<1>1. PICK g : g = gr[p]
  OBVIOUS
<1>2. /\ DOMAIN y.groups = DOMAIN x.groups /\ g \in DOMAIN x.groups
      /\ ToSet(y.clients) = ToSet(x.clients) \ {p}
      /\ y.groups[g] = x.groups[g] - 1
      /\ \A h \in DOMAIN x.groups : h # g => y.groups[h] = x.groups[h]
      /\ IsInjective(y.clients)
  BY <1>1, GivesBackFacts
<1>3. /\ Seatees(y, r, g, pt2, gr2) = Seatees(x, r, g, pt, gr) \ {p}
      /\ p \in Seatees(x, r, g, pt, gr)
      /\ \A h : h # g => Seatees(y, r, h, pt2, gr2) = Seatees(x, r, h, pt, gr)
  BY <1>1, GivesBackFacts
<1>4. ToSet(x.clients) \subseteq Passports
  BY <1>0 DEF IsPoint, ToSet
<1>5. \A q \in ToSet(y.clients) : pt2[q] = r /\ gr2[q] \in DOMAIN y.groups
  BY <1>0, <1>2, <1>4 DEF ListExact
<1>6. y.groups[g] = Cardinality(Seatees(y, r, g, pt2, gr2))
  <2> DEFINE C == Seatees(x, r, g, pt, gr)
  <2>1. IsFiniteSet(C) /\ x.groups[g] = Cardinality(C)
    BY <1>0, <1>2, SeateesCounted DEF ListExact
  <2>2. p \in C /\ Seatees(y, r, g, pt2, gr2) = C \ {p}
    BY <1>3
  <2> HIDE DEF C
  <2>3. Cardinality(C \ {p}) = Cardinality(C) - 1
    BY <2>1, <2>2, FS_RemoveElement
  <2>4. QED
    BY <1>2, <2>1, <2>2, <2>3
<1>7. \A h \in DOMAIN y.groups : y.groups[h] = Cardinality(Seatees(y, r, h, pt2, gr2))
  BY <1>0, <1>2, <1>3, <1>6 DEF ListExact
<1>8. QED
  BY <1>2, <1>5, <1>7 DEF ListExact

\* The entry follows: f is what Erase makes of it.
LEMMA EntryGives ==
  ASSUME NEW x, NEW r, NEW p, NEW pt, NEW gr, NEW pt2, NEW gr2, NEW y,
         GivesBack(x, r, p, pt, gr, pt2, gr2, y),
         NEW e, e # NoEntry => IsEntry(e), EntryExact(x, r, pt, gr, e),
         NEW f, e # NoEntry /\ e.total = 1 => f = NoEntry,
         e # NoEntry /\ e.total # 1 =>
           /\ IsEntry(f) /\ f.total = e.total - 1 /\ DOMAIN f.groups = DOMAIN e.groups
           /\ f.groups[gr[p]].cur = e.groups[gr[p]].cur - 1
           /\ f.groups[gr[p]].passports = RemoveFirst(e.groups[gr[p]].passports, p)
           /\ \A h \in DOMAIN e.groups : h # gr[p] => f.groups[h] = e.groups[h]
  PROVE  EntryExact(y, r, pt2, gr2, f)
<1>0. /\ IsPoint(x) /\ p \in ToSet(x.clients)
  BY Zenon DEF GivesBack
<1>1. PICK g : g = gr[p]
  OBVIOUS
<1>2. /\ IsPoint(y) /\ DOMAIN y.groups = DOMAIN x.groups /\ g \in DOMAIN x.groups
      /\ Len(y.clients) = Len(x.clients) - 1
      /\ y.groups[g] = x.groups[g] - 1
      /\ \A h \in DOMAIN x.groups : h # g => y.groups[h] = x.groups[h]
  BY <1>1, GivesBackFacts
<1>3. /\ Seatees(y, r, g, pt2, gr2) = Seatees(x, r, g, pt, gr) \ {p}
      /\ \A h : h # g => Seatees(y, r, h, pt2, gr2) = Seatees(x, r, h, pt, gr)
  BY <1>1, GivesBackFacts
<1>4. x.clients \in Seq(Passports) /\ y.clients \in Seq(Passports)
  BY <1>0, <1>2 DEF IsPoint
<1>5. x.clients # <<>>
  BY <1>0 DEF ToSet
<1>6. /\ e # NoEntry /\ IsEntry(e) /\ e.total = Len(x.clients)
      /\ DOMAIN e.groups = DOMAIN x.groups
      /\ \A h \in DOMAIN x.groups :
           /\ e.groups[h].cur = x.groups[h]
           /\ IsInjective(e.groups[h].passports)
           /\ ToSet(e.groups[h].passports) = Seatees(x, r, h, pt, gr)
  BY <1>5 DEF EntryExact
<1>7. CASE e.total = 1
  <2>1. f = NoEntry
    BY <1>6, <1>7
  <2>2. Len(y.clients) = 0
    BY <1>2, <1>4, <1>6, <1>7
  <2>3. y.clients = <<>>
    BY <1>4, <2>2
  <2>4. QED
    BY <2>1, <2>3 DEF EntryExact
<1>8. CASE e.total # 1
  <2>1. /\ IsEntry(f) /\ f.total = e.total - 1 /\ DOMAIN f.groups = DOMAIN x.groups
        /\ f.groups[g].cur = e.groups[g].cur - 1
        /\ f.groups[g].passports = RemoveFirst(e.groups[g].passports, p)
        /\ \A h \in DOMAIN x.groups : h # g => f.groups[h] = e.groups[h]
    BY <1>1, <1>6, <1>8
  <2>2. f # NoEntry /\ y.clients # <<>> /\ f.total = Len(y.clients)
    <3>1. f # NoEntry
      BY <2>1, EntryIsEntry
    <3>2. f.total = Len(y.clients)
      BY <1>2, <1>6, <2>1
    <3>3. Len(y.clients) # 0
      BY <1>2, <1>4, <1>6, <1>8
    <3>4. Len(<<>>) = 0
      OBVIOUS
    <3>5. y.clients # <<>>
      BY <3>3, <3>4, Zenon
    <3>6. QED
      BY <3>1, <3>2, <3>5
  <2>3. /\ IsInjective(f.groups[g].passports)
        /\ ToSet(f.groups[g].passports) = Seatees(y, r, g, pt2, gr2)
    <3>1. PICK s : s = e.groups[g].passports
      OBVIOUS
    <3>2. s \in Seq(Passports)
      BY <1>2, <1>6, <3>1 DEF IsEntry, GroupType
    <3>3. IsInjective(s) /\ ToSet(s) = Seatees(x, r, g, pt, gr)
      BY <1>2, <1>6, <3>1
    <3>4. /\ IsInjective(RemoveFirst(s, p))
          /\ ToSet(RemoveFirst(s, p)) = ToSet(s) \ {p}
      BY <3>2, <3>3, RemoveFirstFacts
    <3>5. QED
      BY <1>3, <2>1, <3>1, <3>3, <3>4
  <2>4. ASSUME NEW h \in DOMAIN y.groups
        PROVE  /\ f.groups[h].cur = y.groups[h]
               /\ IsInjective(f.groups[h].passports)
               /\ ToSet(f.groups[h].passports) = Seatees(y, r, h, pt2, gr2)
    <3>1. CASE h = g
      BY <1>2, <1>6, <2>1, <2>3, <3>1
    <3>2. CASE h # g
      BY <1>2, <1>3, <1>6, <2>1, <3>2
    <3>3. QED
      BY <3>1, <3>2
  <2>5. QED
    BY <1>2, <2>1, <2>2, <2>4 DEF EntryExact
<1>9. QED
  BY <1>7, <1>8

\* The client had no seat to give back: the entry stays as it is.
LEMMA EntrySame ==
  ASSUME NEW x, NEW r, NEW pt, NEW gr, NEW e, EntryExact(x, r, pt, gr, e),
         NEW f, f = NoEntry <=> e = NoEntry,
         e # NoEntry => /\ f.total = e.total /\ DOMAIN f.groups = DOMAIN e.groups
                        /\ \A h \in DOMAIN e.groups : f.groups[h] = e.groups[h]
  PROVE  EntryExact(x, r, pt, gr, f)
  BY DEF EntryExact

\* A point whose clients and groups stay as they are.
LEMMA PointUnmoved ==
  ASSUME PatientInv, NEW q \in Points, IsOpen(q),
         rdv'[q].clients = rdv[q].clients, rdv'[q].groups = rdv[q].groups,
         \A v \in Listed(q) : /\ point'[v] = point[v] /\ group'[v] = group[v]
                              /\ awaits'[v] = awaits[v]
  PROVE  /\ ListHeld(q)'
         /\ EntryExact(rdv[q], q, point, group, summary[q]) /\ summary'[q] = summary[q]
              => EntryExact(rdv'[q], q, point', group', summary'[q])
<1>1. PICK x, y, pt, gr, pt2, gr2, e :
        /\ x = rdv[q] /\ y = rdv'[q] /\ pt = point /\ gr = group /\ e = summary[q]
        /\ pt2 = point' /\ gr2 = group'
  OBVIOUS
<1>2. ListExact(x, q, pt, gr) /\ \A p \in ToSet(x.clients) : awaits[p] = q
  BY <1>1 DEF PatientInv, ListHeld, Listed
<1>3. /\ y.clients = x.clients /\ y.groups = x.groups
      /\ \A v \in ToSet(x.clients) : pt2[v] = pt[v] /\ gr2[v] = gr[v] /\ awaits'[v] = awaits[v]
  BY <1>1 DEF Listed
<1>4. /\ ListExact(y, q, pt2, gr2)
      /\ EntryExact(x, q, pt, gr, e) => EntryExact(y, q, pt2, gr2, e)
  BY <1>2, <1>3, ExactKept
<1>5. \A v \in ToSet(y.clients) : awaits'[v] = q
  BY <1>2, <1>3
<1>6. QED
  BY <1>1, <1>4, <1>5 DEF ListHeld, Listed

\* The point that a client finds.
LEMMA CurrentExact ==
  ASSUME PatientInv, NEW r \in Points
  PROVE  /\ ListExact(Current(r), r, point, group)
         /\ \A p \in ToSet(Current(r).clients) : awaits[p] = r
         /\ SteadyInv => RoomExact(Current(r), ParamOf(r))
         /\ SteadyInv /\ r \notin fired =>
              EntryExact(Current(r), r, point, group, summary[r])
<1>1. CASE IsOpen(r)
  <2>1. Current(r) = rdv[r]
    BY <1>1 DEF Current
  <2>2. QED
    BY <1>1, <2>1 DEF PatientInv, ListHeld, Listed, SteadyInv
<1>2. CASE ~IsOpen(r)
  <2>1. Current(r) = Opened(r) /\ summary[r] = NoEntry
    BY <1>2, CurrentFacts DEF PatientInv
  <2>2. ParamOf(r) # NoParam => ParamOf(r) \in Param
    BY ParamIs DEF PatientInv, RdvInv
  <2>3. /\ ListExact(Opened(r), r, point, group)
        /\ EntryExact(Opened(r), r, point, group, NoEntry)
    BY <2>2, OpenedExact
  <2>4. /\ Opened(r).clients = <<>> /\ Opened(r).full = FALSE
        /\ ParamOf(r) # NoParam =>
             DOMAIN Opened(r).groups = 0..(ParamOf(r).groupNum - 1)
    BY <2>2, OpenedFacts
  <2>5. RoomExact(Opened(r), ParamOf(r)) /\ ToSet(Opened(r).clients) = {}
    BY <2>4 DEF RoomExact, ToSet
  <2>6. QED
    BY <2>1, <2>3, <2>5
<1>3. QED
  BY <1>1, <1>2

\* A client that is not registered.
LEMMA PatientUnknown ==
  ASSUME PatientInv, NEW r \in Points, rdv' = [rdv EXCEPT ![r] = Current(r)],
         UNCHANGED <<mainPc, registered, point, group, awaits, param, summary, fired>>
  PROVE  PatientInv' /\ (SteadyInv => SteadyInv')
<1>1. RdvInv'
  BY UnknownStep DEF PatientInv
<1>2. /\ rdv'[r] = Current(r) /\ \A q \in Points \ {r} : rdv'[q] = rdv[q]
  BY DEF PatientInv, RdvInv, TypeInv
<1>3. ASSUME NEW q \in Points, IsOpen(q)'
      PROVE  /\ ListHeld(q)'
             /\ SteadyInv => RoomExact(rdv'[q], ParamOf(q)')
             /\ SteadyInv /\ q \notin fired =>
                  EntryExact(rdv'[q], q, point', group', summary'[q])
  <2>1. ParamOf(q)' = ParamOf(q)
    BY DEF ParamOf
  <2>2. CASE q = r
    BY <1>2, <2>1, <2>2, CurrentExact DEF ListHeld, Listed
  <2>3. CASE q # r
    <3>1. rdv'[q] = rdv[q] /\ IsOpen(q)
      BY <1>2, <1>3, <2>3 DEF IsOpen
    <3>2. QED
      BY <2>1, <3>1 DEF PatientInv, ListHeld, Listed, SteadyInv
  <2>4. QED
    BY <2>2, <2>3
<1>4. PatientInv'
  BY <1>1, <1>3 DEF PatientInv
<1>5. SteadyInv => SteadyInv'
  BY <1>3 DEF SteadyInv
<1>6. QED
  BY <1>4, <1>5

\* A client for which no group has room.
LEMMA PatientTurnedAway ==
  ASSUME PatientInv, NEW p \in Passports, NEW r \in Points, registered[p],
         awaits[p] = NoPoint, ParamOf(r) # NoParam,
         Current(r).full \/ FreeGroups(Current(r), r) = {},
         group' = [group EXCEPT ![p] = NoGroup], point' = [point EXCEPT ![p] = r],
         awaits' = [awaits EXCEPT ![p] = r],
         rdv' = [rdv EXCEPT ![r] = [Current(r) EXCEPT !.full = TRUE]],
         UNCHANGED <<mainPc, registered, param, summary, fired>>
  PROVE  PatientInv' /\ (SteadyInv => SteadyInv')
<1> DEFINE x == Current(r)
           y == [x EXCEPT !.full = TRUE]
<1>1. RdvInv'
  BY TurnedAwayStep DEF PatientInv
<1>2. /\ IsPoint(x) /\ ListExact(x, r, point, group)
      /\ \A q \in ToSet(x.clients) : awaits[q] = r
      /\ SteadyInv => RoomExact(x, ParamOf(r))
      /\ SteadyInv /\ r \notin fired => EntryExact(x, r, point, group, summary[r])
  BY CurrentExact, CurrentFacts DEF PatientInv
<1>3. IsPoint(y) /\ y.clients = x.clients /\ y.groups = x.groups /\ y.full = TRUE
  BY <1>2, FullFacts
<1>4. SteadyInv => RoomExact(y, ParamOf(r))
  <2>1. ASSUME SteadyInv, NEW g \in DOMAIN x.groups
        PROVE  x.groups[g] >= ParamOf(r).vupNum
    <3>1. CASE x.full
      BY <1>2, <2>1, <3>1 DEF RoomExact
    <3>2. CASE FreeGroups(x, r) = {}
      <4>1. ~(x.groups[g] < ParamOf(r).vupNum)
        BY <3>2 DEF FreeGroups
      <4>2. ParamOf(r) \in Param
        BY ParamIs DEF PatientInv, RdvInv
      <4>3. ParamOf(r).vupNum \in Nat /\ x.groups[g] \in Nat
        BY <1>2, <4>2 DEF Param, IsPoint, IsGroups
      <4>4. QED
        BY <4>1, <4>3
    <3>3. QED
      BY <3>1, <3>2
  <2>2. QED
    BY <1>2, <1>3, <2>1 DEF RoomExact
<1>5. rdv' = [rdv EXCEPT ![r] = y] /\ NoPoint \notin Points
  BY RdvAssumption
<1> HIDE DEF x, y
<1>6. /\ rdv'[r] = y /\ \A q \in Points \ {r} : rdv'[q] = rdv[q]
      /\ \A q \in Passports \ {p} : /\ group'[q] = group[q] /\ point'[q] = point[q]
                                    /\ awaits'[q] = awaits[q]
      /\ point'[p] = r /\ awaits'[p] = r
  BY <1>5 DEF PatientInv, RdvInv, TypeInv
\* The client is listed nowhere.
<1>7. /\ \A v \in ToSet(x.clients) : v \in Passports \ {p}
      /\ \A q \in Points : IsOpen(q) => \A v \in Listed(q) : v \in Passports \ {p}
  <2>1. ToSet(x.clients) \subseteq Passports
    BY <1>2 DEF IsPoint, ToSet
  <2>2. \A q \in Points : IsOpen(q) => Listed(q) \subseteq Passports
    BY DEF PatientInv, RdvInv, TypeInv, IsPoint, Listed, ToSet
  <2>3. QED
    BY <1>2, <1>5, <2>1, <2>2 DEF PatientInv, ListHeld
<1>8. ASSUME NEW q \in Points, IsOpen(q)'
      PROVE  /\ ListHeld(q)'
             /\ SteadyInv => RoomExact(rdv'[q], ParamOf(q)')
             /\ SteadyInv /\ q \notin fired =>
                  EntryExact(rdv'[q], q, point', group', summary'[q])
  <2>1. ParamOf(q)' = ParamOf(q)
    BY DEF ParamOf
  <2>2. CASE q = r
    <3>1. PICK pt, gr, pt2, gr2, e :
            /\ pt = point /\ gr = group /\ e = summary[r] /\ pt2 = point' /\ gr2 = group'
      OBVIOUS
    <3>2. \A v \in ToSet(x.clients) : pt2[v] = pt[v] /\ gr2[v] = gr[v]
      BY <1>6, <1>7, <3>1
    <3>3. y.clients = x.clients /\ y.groups = x.groups /\ ListExact(x, r, pt, gr)
      BY <1>2, <1>3, <3>1
    <3>4. \A v \in ToSet(y.clients) : awaits'[v] = r
      BY <1>2, <1>3, <1>6, <1>7
    <3>5. /\ ListExact(y, r, pt2, gr2)
          /\ EntryExact(x, r, pt, gr, e) => EntryExact(y, r, pt2, gr2, e)
      BY <3>2, <3>3, ExactKept
    <3>6. QED
      BY <1>2, <1>4, <1>6, <2>1, <2>2, <3>1, <3>4, <3>5 DEF ListHeld, Listed
  <2>3. CASE q # r
    <3>1. rdv'[q] = rdv[q] /\ IsOpen(q)
      BY <1>6, <1>8, <2>3 DEF IsOpen
    <3>2. \A v \in Listed(q) : /\ point'[v] = point[v] /\ group'[v] = group[v]
                               /\ awaits'[v] = awaits[v]
      BY <1>6, <1>7, <3>1
    <3>3. /\ ListHeld(q)'
          /\ EntryExact(rdv[q], q, point, group, summary[q])
               => EntryExact(rdv'[q], q, point', group', summary'[q])
      BY <3>1, <3>2, PointUnmoved
    <3>4. QED
      BY <2>1, <3>1, <3>3 DEF SteadyInv
  <2>4. QED
    BY <2>2, <2>3
<1>9. PatientInv'
  BY <1>1, <1>8 DEF PatientInv
<1>10. ASSUME SteadyInv PROVE SteadyInv'
  <2>1. ASSUME NEW q \in Points, q \notin fired, NEW v \in Passports, point'[v] = q
        PROVE  awaits'[v] = q
    BY <1>6, <1>10, <2>1 DEF SteadyInv
  <2>2. QED
    BY <1>8, <1>10, <2>1 DEF SteadyInv
<1>11. QED
  BY <1>9, <1>10

\* A client that gets a seat.
LEMMA PatientSeat ==
  ASSUME PatientInv, NEW p \in Passports, NEW r \in Points, registered[p],
         awaits[p] = NoPoint,
         NEW g \in DOMAIN Current(r).groups, NEW n \in Nat, NEW max \in Int,
         max = Infinite \/ Current(r).groups[g] < max,
         group' = [group EXCEPT ![p] = g], point' = [point EXCEPT ![p] = r],
         awaits' = [awaits EXCEPT ![p] = r],
         rdv' = [rdv EXCEPT ![r] = Seated(Current(r), g, p)],
         Enter(r, n, g, max, p), UNCHANGED <<mainPc, registered, param, fired>>,
         ParamOf(r) = NoParam => n = 1,
         ParamOf(r) # NoParam => n = ParamOf(r).groupNum /\ ~Current(r).full
  PROVE  PatientInv' /\ (SteadyInv => SteadyInv')
<1> DEFINE x == Current(r)
           y == Seated(x, g, p)
           e == summary[r]
           f == summary'[r]
<1>1. RdvInv'
  BY SeatStep DEF PatientInv
<1>2. /\ IsPoint(x) /\ ListExact(x, r, point, group)
      /\ \A q \in ToSet(x.clients) : awaits[q] = r
      /\ SteadyInv => RoomExact(x, ParamOf(r))
      /\ SteadyInv /\ r \notin fired => EntryExact(x, r, point, group, e)
      /\ ParamOf(r) = NoParam => DOMAIN x.groups = {0}
  BY CurrentExact, CurrentFacts DEF PatientInv
<1>3. /\ summary = [q \in Points |-> summary[q]] /\ NoPoint \notin Points
      /\ e # NoEntry => IsEntry(e)
      /\ g \in Nat
  BY <1>2, RdvAssumption DEF PatientInv, RdvInv, TypeInv, IsPoint, IsGroups
<1>4. /\ summary' = [summary EXCEPT ![r] = f] /\ IsEntry(f)
      /\ DOMAIN f.groups = 0..(n - 1)
      /\ g < n => /\ f.total = TotalIn(e) + 1
                  /\ f.groups[g] = [cur |-> GroupIn(e, g).cur + 1, max |-> max,
                                    passports |-> Append(Shown(e, g), p)]
      /\ \A i \in 0..(n - 1) : i # g => f.groups[i] = GroupIn(e, i)
  BY <1>3, EnterFacts, SMTT(30)
<1>5. /\ rdv'[r] = y /\ \A q \in Points \ {r} : rdv'[q] = rdv[q]
      /\ \A q \in Passports \ {p} : /\ group'[q] = group[q] /\ point'[q] = point[q]
                                    /\ awaits'[q] = awaits[q]
      /\ group'[p] = g /\ point'[p] = r /\ awaits'[p] = r
  BY DEF PatientInv, RdvInv, TypeInv
<1>6. \A q \in Points \ {r} : summary'[q] = summary[q]
  BY <1>3, <1>4
\* The client is listed nowhere.
<1>7. /\ p \notin ToSet(x.clients)
      /\ \A q \in Points : IsOpen(q) => \A v \in Listed(q) : v \in Passports \ {p}
  <2>1. \A q \in Points : IsOpen(q) => Listed(q) \subseteq Passports
    BY DEF PatientInv, RdvInv, TypeInv, IsPoint, Listed, ToSet
  <2>2. QED
    BY <1>2, <1>3, <2>1 DEF PatientInv, ListHeld
<1>8. PICK z, w, pt, gr, pt2, gr2, d, c :
        /\ z = x /\ w = y /\ d = e /\ c = f
        /\ pt = point /\ gr = group /\ pt2 = point' /\ gr2 = group'
  OBVIOUS
<1>9. Comes(z, r, g, p, pt, gr, pt2, gr2, w)
  BY <1>2, <1>5, <1>7, <1>8, ZenonT(40) DEF Comes
<1>10. /\ DOMAIN w.groups = DOMAIN z.groups /\ w.full = z.full
       /\ ToSet(w.clients) = ToSet(z.clients) \cup {p}
  BY <1>9, ComesFacts
<1>11. ListExact(w, r, pt2, gr2)
  BY <1>2, <1>8, <1>9, ListTakes
<1>12. \A v \in ToSet(w.clients) : awaits'[v] = r
  <2>1. ToSet(z.clients) \subseteq Passports
    BY <1>2, <1>8 DEF IsPoint, ToSet
  <2>2. QED
    BY <1>2, <1>5, <1>7, <1>8, <1>10, <2>1
<1>13. SteadyInv => /\ DOMAIN z.groups = 0..(n - 1) /\ ~z.full
                    /\ RoomExact(w, ParamOf(r))
  <2>1. ASSUME SteadyInv PROVE DOMAIN z.groups = 0..(n - 1) /\ ~z.full
    <3>1. RoomExact(z, ParamOf(r))
      BY <1>2, <1>8, <2>1
    <3>2. CASE ParamOf(r) = NoParam
      BY <1>2, <1>8, <3>1, <3>2 DEF RoomExact
    <3>3. CASE ParamOf(r) # NoParam
      BY <1>8, <3>1, <3>3 DEF RoomExact
    <3>4. QED
      BY <3>2, <3>3
  <2>2. QED
    BY <1>2, <1>8, <1>10, <2>1 DEF RoomExact
<1> HIDE DEF x, y, e, f
<1>14. ASSUME SteadyInv, r \notin fired
       PROVE  EntryExact(w, r, pt2, gr2, c)
  <2>1. DOMAIN z.groups = 0..(n - 1) /\ g < n
    <3>1. DOMAIN z.groups = 0..(n - 1) /\ g \in DOMAIN z.groups
      BY <1>8, <1>13, <1>14 DEF x
    <3>2. QED
      BY <1>3, <3>1
  <2>2. EntryExact(z, r, pt, gr, d) /\ ListExact(z, r, pt, gr)
    BY <1>2, <1>8, <1>14
  <2>3. (d # NoEntry => IsEntry(d)) /\ IsEntry(c)
    BY <1>3, <1>4, <1>8
  <2>4. /\ DOMAIN c.groups = DOMAIN z.groups /\ c.total = TotalIn(d) + 1
        /\ c.groups[g].cur = GroupIn(d, g).cur + 1
        /\ c.groups[g].passports = Append(Shown(d, g), p)
        /\ \A h \in DOMAIN z.groups : h # g => c.groups[h] = GroupIn(d, h)
    BY <1>4, <1>8, <2>1
  <2>5. QED
    BY <1>9, <2>2, <2>3, <2>4, EntryTakes
<1>15. ASSUME NEW q \in Points, IsOpen(q)'
       PROVE  /\ ListHeld(q)'
              /\ SteadyInv => RoomExact(rdv'[q], ParamOf(q)')
              /\ SteadyInv /\ q \notin fired =>
                   EntryExact(rdv'[q], q, point', group', summary'[q])
  <2>1. ParamOf(q)' = ParamOf(q)
    BY DEF ParamOf
  <2>2. CASE q = r
    <3>1. rdv'[q] = w /\ summary'[q] = c
      BY <1>5, <1>8, <2>2 DEF f
    <3>2. QED
      BY <1>8, <1>11, <1>12, <1>13, <1>14, <2>1, <2>2, <3>1 DEF ListHeld, Listed
  <2>3. CASE q # r
    <3>1. rdv'[q] = rdv[q] /\ IsOpen(q) /\ summary'[q] = summary[q]
      BY <1>5, <1>6, <1>15, <2>3 DEF IsOpen
    <3>2. \A v \in Listed(q) : /\ point'[v] = point[v] /\ group'[v] = group[v]
                               /\ awaits'[v] = awaits[v]
      BY <1>5, <1>7, <3>1
    <3>3. /\ ListHeld(q)'
          /\ EntryExact(rdv[q], q, point, group, summary[q])
               => EntryExact(rdv'[q], q, point', group', summary'[q])
      BY <3>1, <3>2, PointUnmoved
    <3>4. QED
      BY <2>1, <3>1, <3>3 DEF SteadyInv
  <2>4. QED
    BY <2>2, <2>3
<1>16. PatientInv'
  BY <1>1, <1>15 DEF PatientInv
<1>17. ASSUME SteadyInv PROVE SteadyInv'
  <2>1. ASSUME NEW q \in Points, q \notin fired, NEW v \in Passports, point'[v] = q
        PROVE  awaits'[v] = q
    BY <1>5, <1>17, <2>1 DEF SteadyInv
  <2>2. QED
    BY <1>15, <1>17, <2>1 DEF SteadyInv
<1>18. QED
  BY <1>16, <1>17

\* A client that reaches a point when it awaits no other.
LEMMA PatientReach ==
  ASSUME Patient, PatientInv, NEW p \in Passports, NEW r \in Points, Reach(p, r)
  PROVE  PatientInv' /\ (SteadyInv => SteadyInv')
<1>1. UNCHANGED <<mainPc, registered, param, fired>> /\ awaits[p] = NoPoint
  BY Zenon DEF Reach
<1>2. CASE rdv' = [rdv EXCEPT ![r] = Current(r)] /\ ~registered[p]
           /\ UNCHANGED <<point, group, awaits, summary>>
  BY <1>1, <1>2, PatientUnknown
<1>3. CASE /\ registered[p] /\ group' = [group EXCEPT ![p] = NoGroup]
           /\ point' = [point EXCEPT ![p] = r] /\ awaits' = [awaits EXCEPT ![p] = r]
           /\ rdv' = [rdv EXCEPT ![r] = [Current(r) EXCEPT !.full = TRUE]]
           /\ ParamOf(r) # NoParam
           /\ Current(r).full \/ FreeGroups(Current(r), r) = {}
           /\ UNCHANGED summary
  BY <1>1, <1>3, PatientTurnedAway
<1>4. CASE \E g \in DOMAIN Current(r).groups, n \in Nat, max \in Int :
             /\ max = Infinite \/ Current(r).groups[g] < max
             /\ registered[p] /\ group' = [group EXCEPT ![p] = g]
             /\ point' = [point EXCEPT ![p] = r] /\ awaits' = [awaits EXCEPT ![p] = r]
             /\ rdv' = [rdv EXCEPT ![r] = Seated(Current(r), g, p)]
             /\ Enter(r, n, g, max, p)
             /\ ParamOf(r) = NoParam => n = 1
             /\ ParamOf(r) # NoParam => n = ParamOf(r).groupNum /\ ~Current(r).full
  BY <1>1, <1>4, PatientSeat
<1>5. QED
  BY <1>2, <1>3, <1>4, ReachCases, ZenonT(40) DEF PatientInv

\* Nothing is open at the start.
LEMMA InitPatient == Init => PatientInv /\ SteadyInv
<1> SUFFICES ASSUME Init PROVE PatientInv /\ SteadyInv
  OBVIOUS
<1>1. \A r \in Points : ~IsOpen(r)
  BY DEF Init, IsOpen
<1>2. \A p \in Passports : point[p] = NoPoint
  BY DEF Init
<1>3. QED
  BY <1>1, <1>2, InitRdvInv, RdvAssumption DEF PatientInv, SteadyInv

\* A client that registers.
LEMMA PatientRegister ==
  ASSUME PatientInv, NEW p \in Passports, Register(p)
  PROVE  PatientInv' /\ (SteadyInv => SteadyInv')
<1>1. UNCHANGED <<point, group, awaits, rdv, param, summary, fired>>
  BY DEF Register
<1>2. RdvInv'
  BY RegisterStep DEF PatientInv
<1>3. QED
  BY <1>1, <1>2 DEF PatientInv, SteadyInv, ListHeld, Listed, IsOpen, ParamOf

\* A tick that starts: points only age.
LEMMA PatientStartTick ==
  ASSUME PatientInv, NEW dt \in {0, 1}, StartTick(dt)
  PROVE  PatientInv' /\ (SteadyInv => SteadyInv')
<1>1. UNCHANGED <<registered, point, group, awaits, param, summary, fired>>
  BY Zenon DEF StartTick, vupVars
<1>2. RdvInv'
  BY StartTickStep DEF PatientInv
<1>3. ASSUME NEW q \in Points, IsOpen(q)'
      PROVE  /\ ListHeld(q)'
             /\ SteadyInv => RoomExact(rdv'[q], ParamOf(q)')
             /\ SteadyInv /\ q \notin fired =>
                  EntryExact(rdv'[q], q, point', group', summary'[q])
  <2>1. /\ IsOpen(q) /\ rdv'[q].clients = rdv[q].clients
        /\ rdv'[q].groups = rdv[q].groups /\ rdv'[q].full = rdv[q].full
    BY <1>3, TickFacts DEF PatientInv
  <2>2. ParamOf(q)' = ParamOf(q) /\ summary'[q] = summary[q]
    BY <1>1 DEF ParamOf
  <2>3. \A v \in Listed(q) : /\ point'[v] = point[v] /\ group'[v] = group[v]
                             /\ awaits'[v] = awaits[v]
    BY <1>1
  <2>4. /\ ListHeld(q)'
        /\ EntryExact(rdv[q], q, point, group, summary[q])
             => EntryExact(rdv'[q], q, point', group', summary'[q])
    BY <2>1, <2>2, <2>3, PointUnmoved
  <2>5. SteadyInv => RoomExact(rdv'[q], ParamOf(q)')
    BY <2>1, <2>2 DEF SteadyInv, RoomExact
  <2>6. QED
    BY <2>1, <2>4, <2>5 DEF SteadyInv
<1>4. PatientInv'
  BY <1>2, <1>3 DEF PatientInv
<1>5. SteadyInv => SteadyInv'
  BY <1>1, <1>3 DEF SteadyInv
<1>6. QED
  BY <1>4, <1>5

\* setrdvp: without Tunable no open point changes its parameters.
LEMMA PatientOperator ==
  ASSUME PatientInv, NEW m \in Majors, NEW prm \in ParamChoices, SetRDVParameter(m, prm)
  PROVE  PatientInv' /\ (~Tunable /\ SteadyInv => SteadyInv')
<1>1. /\ param' = [param EXCEPT ![m] = prm]
      /\ Tunable \/ \A r \in Points : MajorOf[r] = m => ~IsOpen(r)
      /\ UNCHANGED <<mainPc, registered, point, group, awaits, rdv, summary, fired>>
  BY Zenon DEF SetRDVParameter, vupVars
<1>2. RdvInv'
  BY OperatorStep DEF PatientInv
<1>3. PatientInv'
  BY <1>1, <1>2 DEF PatientInv, ListHeld, Listed, IsOpen
<1>4. ASSUME ~Tunable, NEW q \in Points, IsOpen(q)
      PROVE  ParamOf(q)' = ParamOf(q)
  <2>1. MajorOf[q] # m /\ MajorOf[q] \in Majors
    BY <1>1, <1>4 DEF Majors
  <2>2. param \in [Majors -> Param \cup {NoParam}]
    BY DEF PatientInv, RdvInv, TypeInv
  <2>3. QED
    BY <1>1, <2>1, <2>2 DEF ParamOf
<1>5. ~Tunable /\ SteadyInv => SteadyInv'
  BY <1>1, <1>4 DEF SteadyInv, IsOpen
<1>6. QED
  BY <1>3, <1>5

\* A point that fires starts only clients that await it.
LEMMA OwnClients ==
  ASSUME PatientInv, NEW r \in Points, Due(r), NEW p \in Started(r)
  PROVE  awaits[p] = r
<1>1. IsOpen(r) /\ p \in Listed(r)
  BY DEF Due, Started
<1>2. QED
  BY <1>1 DEF PatientInv, ListHeld

\* _UpdateRDVPoint.
LEMMA PatientUpdate ==
  ASSUME PatientInv, UpdateRDVPoint
  PROVE  PatientInv' /\ (~Tunable /\ SteadyInv => SteadyInv')
<1> DEFINE due == {r \in Points : Due(r)}
           started == UNION {Started(r) : r \in due}
<1>1. /\ rdv' = [r \in Points |-> IF r \in due THEN Closed ELSE rdv[r]]
      /\ summary' = [r \in Points |-> IF r \in due THEN NoEntry ELSE summary[r]]
      /\ awaits' = [p \in Passports |-> IF p \in started THEN NoPoint ELSE awaits[p]]
      /\ fired' = IF Tunable THEN fired ELSE fired \cup due
      /\ UNCHANGED <<registered, point, group, param>>
  BY Zenon DEF UpdateRDVPoint
<1>2. \A p \in started : awaits[p] \in due
  BY OwnClients
<1>3. RdvInv'
  BY UpdateStep DEF PatientInv
<1> HIDE DEF due, started
<1>4. ASSUME NEW q \in Points
      PROVE  /\ IsOpen(q)' => q \notin due
             /\ q \notin due => rdv'[q] = rdv[q] /\ summary'[q] = summary[q]
  BY <1>1 DEF IsOpen
<1>5. ASSUME NEW v \in Passports, awaits[v] \notin due
      PROVE  awaits'[v] = awaits[v]
  BY <1>1, <1>2, <1>5
<1>6. ASSUME NEW q \in Points, IsOpen(q)'
      PROVE  /\ ListHeld(q)' /\ q \notin due
             /\ SteadyInv => RoomExact(rdv'[q], ParamOf(q)')
             /\ SteadyInv /\ q \notin fired =>
                  EntryExact(rdv'[q], q, point', group', summary'[q])
  <2>1. q \notin due /\ rdv'[q] = rdv[q] /\ summary'[q] = summary[q] /\ IsOpen(q)
    BY <1>4, <1>6 DEF IsOpen
  <2>2. ParamOf(q)' = ParamOf(q)
    BY <1>1 DEF ParamOf
  <2>3. \A v \in Listed(q) : /\ point'[v] = point[v] /\ group'[v] = group[v]
                             /\ awaits'[v] = awaits[v]
    <3>1. Listed(q) \subseteq Passports
      BY <2>1 DEF PatientInv, RdvInv, TypeInv, IsPoint, Listed, ToSet
    <3>2. \A v \in Listed(q) : awaits[v] = q
      BY <2>1 DEF PatientInv, ListHeld
    <3>3. QED
      BY <1>1, <1>5, <2>1, <3>1, <3>2
  <2>4. /\ ListHeld(q)'
        /\ EntryExact(rdv[q], q, point, group, summary[q])
             => EntryExact(rdv'[q], q, point', group', summary'[q])
    BY <2>1, <2>3, PointUnmoved
  <2>5. QED
    BY <2>1, <2>2, <2>4 DEF SteadyInv
<1>7. PatientInv'
  BY <1>3, <1>6 DEF PatientInv
<1>8. ASSUME ~Tunable, SteadyInv PROVE SteadyInv'
  <2>1. fired' = fired \cup due
    BY <1>1, <1>8
  <2>2. ASSUME NEW q \in Points, q \notin fired', NEW v \in Passports, point'[v] = q
        PROVE  awaits'[v] = q
    <3>1. q \notin due /\ q \notin fired /\ point[v] = q
      BY <1>1, <2>1, <2>2
    <3>2. awaits[v] = q
      BY <1>8, <3>1 DEF SteadyInv
    <3>3. QED
      BY <1>5, <3>1, <3>2
  <2>3. QED
    BY <1>6, <1>8, <2>1, <2>2 DEF SteadyInv
<1>9. QED
  BY <1>7, <1>8

\* The entry of the point of a client that leaves: its seat goes with the client.
LEMMA EntryLeaves ==
  ASSUME PatientInv, NEW p \in Passports, NEW r \in Points, IsOpen(r),
         point[p] = r, point'[p] # r, Erase(r, group[p], p),
         rdv'[r] = Vacate(rdv[r], p),
         \A q \in Passports \ {p} : point'[q] = point[q] /\ group'[q] = group[q]
  PROVE  /\ ListExact(rdv'[r], r, point', group')
         /\ Listed(r)' = Listed(r) \ {p}
         /\ \A prm : RoomExact(rdv[r], prm) => RoomExact(rdv'[r], prm)
         /\ /\ EntryExact(rdv[r], r, point, group, summary[r])
            /\ group[p] >= 0 => p \in Listed(r)
            => EntryExact(rdv'[r], r, point', group', summary'[r])
<1>1. PICK x, y, pt, gr, pt2, gr2, e, f, g :
        /\ x = rdv[r] /\ y = rdv'[r] /\ pt = point /\ gr = group /\ e = summary[r]
        /\ pt2 = point' /\ gr2 = group' /\ f = summary'[r] /\ g = group[p]
  OBVIOUS
<1>2. /\ IsPoint(x) /\ (e # NoEntry => IsEntry(e)) /\ ListExact(x, r, pt, gr)
      /\ g \in Int
  BY <1>1 DEF PatientInv, RdvInv, TypeInv, ListHeld
<1>3. /\ pt2[p] # r /\ g = gr[p]
      /\ \A q \in Passports \ {p} : pt2[q] = pt[q] /\ gr2[q] = gr[q]
  BY <1>1
<1>4. ToSet(x.clients) \subseteq Passports /\ DOMAIN x.groups \subseteq Nat
  BY <1>2 DEF IsPoint, IsGroups, ToSet
<1>5. /\ e = NoEntry => f = NoEntry
      /\ e # NoEntry /\ TotalLess(e, g) = 0 => f = NoEntry
      /\ e # NoEntry /\ TotalLess(e, g) # 0 =>
           /\ IsEntry(f) /\ f.total = TotalLess(e, g) /\ DOMAIN f.groups = DOMAIN e.groups
           /\ \A i \in DOMAIN e.groups : i # g => f.groups[i] = e.groups[i]
           /\ g \in DOMAIN e.groups =>
                f.groups[g] = [cur |-> e.groups[g].cur - 1, max |-> e.groups[g].max,
                               passports |-> RemoveFirst(e.groups[g].passports, p)]
  <2>1. CASE summary[r] = NoEntry
    BY <1>1, <2>1 DEF Erase
  <2>2. CASE summary[r] # NoEntry
    <3>1. /\ summary = [q \in Points |-> summary[q]] /\ NoPoint \notin Points
          /\ IsEntry(summary[r])
      BY <2>2, RdvAssumption DEF PatientInv, RdvInv, TypeInv
    <3>2. Erase(r, g, p)
      BY <1>1
    <3>3. QED
      BY <1>1, <2>2, <3>1, <3>2, EraseFacts
  <2>3. QED
    BY <2>1, <2>2
<1>6. CASE p \in ToSet(x.clients)
  <2>1. g \in DOMAIN x.groups /\ g >= 0
    BY <1>2, <1>3, <1>4, <1>6 DEF ListExact
  <2>2. y = GivenBack(x, gr[p], p)
    BY <1>1, <1>6, <2>1, Zenon DEF Vacate, GivenBack
  <2>3. GivesBack(x, r, p, pt, gr, pt2, gr2, y)
    BY <1>2, <1>3, <1>6, <2>2, Zenon DEF GivesBack
  <2>4. ListExact(y, r, pt2, gr2)
    BY <2>3, ListGives
  <2>5. ToSet(y.clients) = ToSet(x.clients) \ {p} /\ ~y.full
        /\ DOMAIN y.groups = DOMAIN x.groups
    BY <2>3, GivesBackFacts
  <2>6. \A prm : RoomExact(x, prm) => RoomExact(y, prm)
    BY <2>5 DEF RoomExact
  <2>7. ASSUME EntryExact(x, r, pt, gr, e)
        PROVE  EntryExact(y, r, pt2, gr2, f)
    <3>1. x.clients # <<>>
      BY <1>6 DEF ToSet
    <3>2. e # NoEntry /\ g \in DOMAIN e.groups /\ IsEntry(e)
      BY <1>2, <2>1, <2>7, <3>1 DEF EntryExact
    <3>3. TotalLess(e, g) = e.total - 1 /\ e.total \in Int
      BY <3>2 DEF TotalLess, IsEntry
    <3>4. e # NoEntry /\ e.total = 1 => f = NoEntry
      BY <1>5, <3>2, <3>3
    <3>5. e # NoEntry /\ e.total # 1 =>
            /\ IsEntry(f) /\ f.total = e.total - 1 /\ DOMAIN f.groups = DOMAIN e.groups
            /\ f.groups[g].cur = e.groups[g].cur - 1
            /\ f.groups[g].passports = RemoveFirst(e.groups[g].passports, p)
            /\ \A h \in DOMAIN e.groups : h # g => f.groups[h] = e.groups[h]
      BY <1>5, <3>2, <3>3
    <3>6. QED
      BY <1>2, <1>3, <2>3, <2>7, <3>4, <3>5, EntryGives
  <2>8. QED
    BY <1>1, <2>4, <2>5, <2>6, <2>7 DEF Listed
<1>7. CASE p \notin ToSet(x.clients)
  <2>1. y = x
    BY <1>1, <1>7, Zenon DEF Vacate
  <2>2. \A q \in ToSet(x.clients) : pt2[q] = pt[q] /\ gr2[q] = gr[q]
    BY <1>3, <1>4, <1>7
  <2>3. /\ ListExact(y, r, pt2, gr2)
        /\ \A d : EntryExact(x, r, pt, gr, d) => EntryExact(y, r, pt2, gr2, d)
    BY <1>2, <2>1, <2>2, ExactKept
  <2>4. ASSUME EntryExact(x, r, pt, gr, e), ~(g >= 0)
        PROVE  EntryExact(y, r, pt2, gr2, f)
    <3>1. CASE e = NoEntry
      BY <1>5, <2>3, <2>4, <3>1
    <3>2. CASE e # NoEntry
      <4>1. g \notin DOMAIN e.groups /\ e.total = Len(x.clients) /\ x.clients # <<>>
        BY <1>2, <1>4, <2>4, <3>2 DEF EntryExact
      <4>2. TotalLess(e, g) = e.total
        BY <4>1 DEF TotalLess
      <4>3. x.clients \in Seq(Passports)
        BY <1>2 DEF IsPoint
      <4>4. Len(x.clients) # 0
        BY <4>1, <4>3
      <4>5. /\ IsEntry(f) /\ f.total = e.total /\ DOMAIN f.groups = DOMAIN e.groups
            /\ \A i \in DOMAIN e.groups : f.groups[i] = e.groups[i]
        BY <1>5, <3>2, <4>1, <4>2, <4>4
      <4>6. f # NoEntry
        BY <4>5, EntryIsEntry
      <4>7. EntryExact(x, r, pt, gr, f)
        BY <2>4, <3>2, <4>5, <4>6, EntrySame
      <4>8. QED
        BY <2>3, <4>7
    <3>3. QED
      BY <3>1, <3>2
  <2>5. ToSet(y.clients) = ToSet(x.clients) \ {p}
    BY <1>7, <2>1
  <2>6. QED
    BY <1>1, <1>7, <2>1, <2>3, <2>4, <2>5 DEF Listed
<1>8. QED
  BY <1>6, <1>7

\* RemoveVup.
LEMMA PatientLeave ==
  ASSUME PatientInv, NEW p \in Passports, Leave(p)
  PROVE  PatientInv' /\ (SteadyInv => SteadyInv')
<1> DEFINE r == point[p]
<1>1. /\ registered[p]
      /\ point' = [point EXCEPT ![p] = NoPoint]
      /\ group' = [group EXCEPT ![p] = NoGroup]
      /\ awaits' = [awaits EXCEPT ![p] = NoPoint]
      /\ Erase(r, group[p], p) /\ UNCHANGED <<mainPc, param, fired>>
  BY DEF Leave
<1>2. /\ r # NoPoint /\ IsOpen(r) => rdv' = [rdv EXCEPT ![r] = Vacate(rdv[r], p)]
      /\ ~(r # NoPoint /\ IsOpen(r)) => rdv' = rdv
  BY Zenon DEF Leave
<1>3. /\ r \in Points \cup {NoPoint} /\ NoPoint \notin Points
      /\ rdv = [q \in Points |-> rdv[q]] /\ summary = [q \in Points |-> summary[q]]
      /\ \A q \in Points : IsOpen(q) => Listed(q) \subseteq Passports
  BY RdvAssumption DEF PatientInv, RdvInv, TypeInv, IsPoint, Listed, ToSet
<1>4. RdvInv'
  BY LeaveStep DEF PatientInv
<1>5. /\ point'[p] = NoPoint
      /\ \A q \in Passports \ {p} : /\ point'[q] = point[q] /\ group'[q] = group[q]
                                    /\ awaits'[q] = awaits[q]
  BY <1>1 DEF PatientInv, RdvInv, TypeInv
<1>6. \A q \in Points \ {r} : rdv'[q] = rdv[q]
  <2>1. CASE r # NoPoint /\ IsOpen(r)
    BY <1>2, <1>3, <2>1
  <2>2. CASE ~(r # NoPoint /\ IsOpen(r))
    BY <1>2, <2>2
  <2>3. QED
    BY <2>1, <2>2
<1>7. \A q \in Points \ {r} : summary'[q] = summary[q]
  <2>1. CASE r = NoPoint
    BY <1>1, <2>1 DEF Erase
  <2>2. CASE r \in Points
    BY <1>1, <2>2, EraseShown DEF PatientInv
  <2>3. QED
    BY <1>3, <2>1, <2>2
\* The point of the client, if it has one.
<1>8. ASSUME NEW q \in Points, q = r, IsOpen(q)'
      PROVE  /\ ListHeld(q)'
             /\ SteadyInv => RoomExact(rdv'[q], ParamOf(q)')
             /\ SteadyInv /\ q \notin fired =>
                  EntryExact(rdv'[q], q, point', group', summary'[q])
  <2>1. IsOpen(q)
    BY <1>2, <1>8 DEF IsOpen
  <2>2. rdv'[q] = Vacate(rdv[q], p)
    BY <1>2, <1>3, <1>8, <2>1
  <2>3. Erase(q, group[p], p) /\ point[p] = q /\ point'[p] # q
    BY <1>1, <1>3, <1>5, <1>8
  <2>4. \A v \in Passports \ {p} : point'[v] = point[v] /\ group'[v] = group[v]
    BY <1>5
  <2>5. /\ ListExact(rdv'[q], q, point', group')
        /\ Listed(q)' = Listed(q) \ {p}
        /\ \A prm : RoomExact(rdv[q], prm) => RoomExact(rdv'[q], prm)
        /\ /\ EntryExact(rdv[q], q, point, group, summary[q])
           /\ group[p] >= 0 => p \in Listed(q)
           => EntryExact(rdv'[q], q, point', group', summary'[q])
    BY <2>1, <2>2, <2>3, <2>4, EntryLeaves
  <2>6. ListHeld(q)'
    <3>1. \A v \in Listed(q) : awaits[v] = q
      BY <2>1 DEF PatientInv, ListHeld
    <3>2. \A v \in Listed(q)' : awaits'[v] = q
      BY <1>3, <1>5, <2>1, <2>5, <3>1
    <3>3. QED
      BY <2>5, <3>2 DEF ListHeld
  <2>7. SteadyInv => RoomExact(rdv'[q], ParamOf(q)')
    <3>1. ParamOf(q)' = ParamOf(q)
      BY <1>1 DEF ParamOf
    <3>2. QED
      BY <2>1, <2>5, <3>1 DEF SteadyInv
  <2>8. ASSUME SteadyInv, q \notin fired
        PROVE  EntryExact(rdv'[q], q, point', group', summary'[q])
    <3>1. awaits[p] = q /\ EntryExact(rdv[q], q, point, group, summary[q])
      BY <2>1, <2>3, <2>8 DEF SteadyInv
    <3>2. group[p] >= 0 => p \in Listed(q)
      BY <1>3, <2>3, <3>1 DEF PatientInv, RdvInv, NobodyStranded
    <3>3. QED
      BY <2>5, <3>1, <3>2
  <2>9. QED
    BY <2>6, <2>7, <2>8
\* Any other point.
<1>9. ASSUME NEW q \in Points, q # r, IsOpen(q)'
      PROVE  /\ ListHeld(q)'
             /\ SteadyInv => RoomExact(rdv'[q], ParamOf(q)')
             /\ SteadyInv /\ q \notin fired =>
                  EntryExact(rdv'[q], q, point', group', summary'[q])
  <2>1. rdv'[q] = rdv[q] /\ summary'[q] = summary[q] /\ IsOpen(q)
    BY <1>6, <1>7, <1>9 DEF IsOpen
  <2>2. ParamOf(q)' = ParamOf(q)
    BY <1>1 DEF ParamOf
  <2>3. \A v \in Listed(q) : v \in Passports \ {p}
    BY <1>3, <1>9, <2>1 DEF PatientInv, ListHeld, ListExact, Listed
  <2>4. \A v \in Listed(q) : /\ point'[v] = point[v] /\ group'[v] = group[v]
                             /\ awaits'[v] = awaits[v]
    BY <1>5, <2>3
  <2>5. /\ ListHeld(q)'
        /\ EntryExact(rdv[q], q, point, group, summary[q])
             => EntryExact(rdv'[q], q, point', group', summary'[q])
    BY <2>1, <2>4, PointUnmoved
  <2>6. QED
    BY <2>1, <2>2, <2>5 DEF SteadyInv
<1>10. PatientInv'
  BY <1>4, <1>8, <1>9 DEF PatientInv
<1>11. ASSUME SteadyInv PROVE SteadyInv'
  <2>1. ASSUME NEW q \in Points, q \notin fired, NEW v \in Passports, point'[v] = q
        PROVE  awaits'[v] = q
    BY <1>3, <1>5, <1>11, <2>1 DEF SteadyInv
  <2>2. fired' = fired
    BY <1>1
  <2>3. QED
    BY <1>8, <1>9, <1>11, <2>1, <2>2 DEF SteadyInv
<1>12. QED
  BY <1>10, <1>11

\* PatientInv is inductive; SteadyInv is with it when parameters are fixed.
LEMMA PatientInvStep ==
  ASSUME Patient
  PROVE  /\ PatientInv /\ [Next]_vars => PatientInv'
         /\ ~Tunable /\ PatientInv /\ SteadyInv /\ [Next]_vars => SteadyInv'
<1> SUFFICES ASSUME PatientInv, [Next]_vars
             PROVE  PatientInv' /\ (~Tunable /\ SteadyInv => SteadyInv')
  OBVIOUS
<1>1. CASE \E p \in Passports : Register(p)
  BY <1>1, PatientRegister
<1>2. CASE \E p \in Passports : Leave(p)
  BY <1>2, PatientLeave
<1>3. CASE \E p \in Passports : \E r \in Points : Reach(p, r)
  BY <1>3, PatientReach
<1>4. CASE UpdateRDVPoint
  BY <1>4, PatientUpdate
<1>5. CASE \E dt \in {0, 1} : StartTick(dt)
  BY <1>5, PatientStartTick
<1>6. CASE Operator
  BY <1>6, PatientOperator DEF Operator
<1>7. CASE UNCHANGED vars
  <2>1. RdvInv'
    BY <1>7, RdvInvStep DEF PatientInv
  <2>2. UNCHANGED <<point, group, awaits, rdv, param, summary, fired>>
    BY <1>7 DEF vars
  <2>3. QED
    BY <2>1, <2>2 DEF PatientInv, SteadyInv, ListHeld, Listed, IsOpen, ParamOf
<1>8. QED
  BY <1>1, <1>2, <1>3, <1>4, <1>5, <1>6, <1>7 DEF Next, Client, Tick

\* PatientInv holds in every state.
LEMMA PatientAlways ==
  ASSUME Patient
  PROVE  Spec => []PatientInv
<1>1. Init => PatientInv
  BY InitPatient
<1>2. PatientInv /\ [Next]_vars => PatientInv'
  BY PatientInvStep
<1>3. QED
  BY <1>1, <1>2, PTL DEF Spec

\* Both hold in every state.
LEMMA SteadyAlways ==
  ASSUME Patient, ~Tunable
  PROVE  Spec => [](PatientInv /\ SteadyInv)
<1>1. Init => PatientInv /\ SteadyInv
  BY InitPatient
<1>2. PatientInv /\ SteadyInv /\ [Next]_vars => (PatientInv /\ SteadyInv)'
  BY PatientInvStep
<1>3. QED
  BY <1>1, <1>2, PTL DEF Spec

\* A client that a point lists is registered there.
LEMMA ListedRegistered ==
  ASSUME PatientInv, NEW r \in Points, IsOpen(r)
  PROVE  \A p \in Listed(r) : registered[p] /\ point[p] = r
<1> SUFFICES ASSUME NEW p \in Listed(r) PROVE registered[p] /\ point[p] = r
  OBVIOUS
<1>1. IsPoint(rdv[r]) /\ ListExact(rdv[r], r, point, group) /\ awaits[p] = r
  BY DEF PatientInv, RdvInv, TypeInv, ListHeld
<1>2. point[p] = r /\ p \in Passports /\ group[p] \in Nat
  BY <1>1 DEF ListExact, IsPoint, IsGroups, Listed, ToSet
<1>3. awaits[p] # NoPoint
  BY <1>1, RdvAssumption
<1>4. QED
  BY <1>2, <1>3 DEF PatientInv, RdvInv, NobodyStranded

\* Clients that wait for one point at a time: StartTesting, which does not say
\* for which point it is, reaches a client only from the point it waits for, and
\* that point is closed then (_UpdateRDVPoint), whatever the operator changes.
THEOREM StartsOwnClients ==
  ASSUME Patient
  PROVE  Spec => StartedByOwnPoint
<1> DEFINE Own == \A p \in Passports :
                    awaits[p] # NoPoint /\ awaits'[p] = NoPoint /\ registered'[p]
                      => IsOpen(awaits[p]) /\ rdv'[awaits[p]] = Closed
<1>1. PatientInv /\ [Next]_vars => [Own]_vars
  <2> SUFFICES ASSUME PatientInv, Next,
                      NEW p \in Passports, awaits[p] # NoPoint, awaits'[p] = NoPoint,
                      registered'[p]
               PROVE  IsOpen(awaits[p]) /\ rdv'[awaits[p]] = Closed
    OBVIOUS
  <2>1. /\ awaits \in [Passports -> Points \cup {NoPoint}]
        /\ registered \in [Passports -> BOOLEAN] /\ NoPoint \notin Points
    BY RdvAssumption DEF PatientInv, RdvInv, TypeInv
  <2>2. CASE \E q \in Passports : Register(q)
    BY <2>2 DEF Register
  <2>3. ASSUME NEW q \in Passports, Leave(q) PROVE FALSE
    <3>1. /\ registered' = [registered EXCEPT ![q] = FALSE]
          /\ awaits' = [awaits EXCEPT ![q] = NoPoint]
      BY <2>3 DEF Leave
    <3>2. QED
      BY <2>1, <3>1
  <2>4. ASSUME NEW q \in Passports, NEW r \in Points, Reach(q, r) PROVE FALSE
    <3>1. awaits' = awaits \/ awaits' = [awaits EXCEPT ![q] = r]
      BY <2>4, Zenon DEF Reach
    <3>2. QED
      BY <2>1, <3>1
  <2>5. CASE UpdateRDVPoint
    <3> DEFINE due == {r \in Points : Due(r)}
               started == UNION {Started(r) : r \in due}
    <3>1. /\ rdv' = [r \in Points |-> IF r \in due THEN Closed ELSE rdv[r]]
          /\ awaits' = [v \in Passports |-> IF v \in started THEN NoPoint ELSE awaits[v]]
      BY <2>5, Zenon DEF UpdateRDVPoint
    <3>2. \A v \in started : awaits[v] \in due
      BY OwnClients
    <3>3. \A r \in due : r \in Points /\ IsOpen(r)
      BY DEF Due
    <3> HIDE DEF due, started
    <3>4. awaits[p] \in due
      BY <3>1, <3>2
    <3>5. QED
      BY <3>1, <3>3, <3>4
  <2>6. CASE \E dt \in {0, 1} : StartTick(dt)
    BY <2>6, Zenon DEF StartTick, vupVars
  <2>7. CASE Operator
    BY <2>7, Zenon DEF Operator, SetRDVParameter, vupVars
  <2>8. QED
    BY <2>2, <2>3, <2>4, <2>5, <2>6, <2>7 DEF Next, Client, Tick
<1>2. Spec => []PatientInv
  BY PatientAlways
<1>3. QED
  BY <1>1, <1>2, PTL DEF Spec, StartedByOwnPoint

\* Clients that wait for one point at a time, parameters fixed while a point is
\* open: the point's list and its groups name and count exactly its seated
\* clients, and a client is turned away only when no group has room
\* (ReachRDVPoint case, RemoveVup).
THEOREM SeatsAreExact ==
  ASSUME Patient, ~Tunable
  PROVE  Spec => []SeatsAgree
<1>1. PatientInv /\ SteadyInv => SeatsAgree
  <2> SUFFICES ASSUME PatientInv, SteadyInv, NEW r \in Points, IsOpen(r)
               PROVE  /\ \A i, j \in DOMAIN rdv[r].clients :
                           rdv[r].clients[i] = rdv[r].clients[j] => i = j
                      /\ \A p \in Listed(r) : registered[p] /\ point[p] = r
                      /\ \A g \in DOMAIN rdv[r].groups :
                           rdv[r].groups[g] = Cardinality({p \in Listed(r) : group[p] = g})
                      /\ rdv[r].full => FreeGroups(rdv[r], r) = {}
    BY DEF SeatsAgree
  <2>1. /\ IsPoint(rdv[r]) /\ ListExact(rdv[r], r, point, group)
        /\ \A p \in Listed(r) : awaits[p] = r
        /\ RoomExact(rdv[r], ParamOf(r))
    BY DEF PatientInv, RdvInv, TypeInv, ListHeld, SteadyInv
  <2>2. \A p \in Listed(r) : registered[p] /\ point[p] = r
    BY <2>1, ListedRegistered
  <2>3. ASSUME NEW g \in DOMAIN rdv[r].groups
        PROVE  rdv[r].groups[g] = Cardinality({p \in Listed(r) : group[p] = g})
    <3>1. {p \in Listed(r) : group[p] = g} = Seatees(rdv[r], r, g, point, group)
      BY <2>2 DEF Seatees, Listed
    <3>2. QED
      BY <2>1, <3>1 DEF ListExact
  <2>4. rdv[r].full => FreeGroups(rdv[r], r) = {}
    <3>1. ASSUME rdv[r].full, NEW g \in DOMAIN rdv[r].groups
          PROVE  ~(rdv[r].groups[g] < ParamOf(r).vupNum)
      <4>1. ParamOf(r) # NoParam /\ rdv[r].groups[g] >= ParamOf(r).vupNum
        BY <2>1, <3>1 DEF RoomExact
      <4>2. ParamOf(r) \in Param
        BY <4>1, ParamIs DEF PatientInv, RdvInv
      <4>3. ParamOf(r).vupNum \in Nat /\ rdv[r].groups[g] \in Nat
        BY <2>1, <4>2 DEF Param, IsPoint, IsGroups
      <4>4. QED
        BY <4>1, <4>3
    <3>2. QED
      BY <3>1 DEF FreeGroups
  <2>5. \A i, j \in DOMAIN rdv[r].clients : rdv[r].clients[i] = rdv[r].clients[j] => i = j
    BY <2>1 DEF ListExact, IsInjective
  <2>6. QED
    BY <2>2, <2>3, <2>4, <2>5
<1>2. QED
  BY <1>1, SteadyAlways, PTL

\* The same clients and parameters, until a point fires for the first time: the
\* summary on screen (UpdateGroupInfo) has the point's groups, its counts and its
\* clients.
THEOREM SummaryIsExact ==
  ASSUME Patient, ~Tunable
  PROVE  Spec => []SummaryAgrees
<1>1. PatientInv /\ SteadyInv => SummaryAgrees
  <2> SUFFICES ASSUME PatientInv, SteadyInv, NEW r \in Points \ fired
               PROVE  /\ summary[r] # NoEntry <=> IsOpen(r) /\ rdv[r].clients # <<>>
                      /\ summary[r] # NoEntry =>
                           /\ summary[r].total = Len(rdv[r].clients)
                           /\ DOMAIN summary[r].groups = DOMAIN rdv[r].groups
                           /\ \A g \in DOMAIN rdv[r].groups :
                                /\ summary[r].groups[g].cur = rdv[r].groups[g]
                                /\ ToSet(summary[r].groups[g].passports)
                                     = SeatsOf(r, g) \cap Listed(r)
    BY DEF SummaryAgrees
  <2>1. CASE ~IsOpen(r)
    BY <2>1 DEF PatientInv, RdvInv, EntriesHold
  <2>2. CASE IsOpen(r)
    <3>1. /\ IsPoint(rdv[r]) /\ EntryExact(rdv[r], r, point, group, summary[r])
      BY <2>2 DEF PatientInv, RdvInv, TypeInv, SteadyInv
    <3>2. \A p \in Listed(r) : registered[p] /\ p \in Passports
      BY <2>2, <3>1, ListedRegistered DEF IsPoint, Listed, ToSet
    <3>3. ASSUME NEW g
          PROVE  Seatees(rdv[r], r, g, point, group) = SeatsOf(r, g) \cap Listed(r)
      BY <3>2 DEF Seatees, SeatsOf, Listed
    <3>4. QED
      BY <2>2, <3>1, <3>3 DEF EntryExact
  <2>3. QED
    BY <2>1, <2>2
<1>2. QED
  BY <1>1, SteadyAlways, PTL
=============================================================================
