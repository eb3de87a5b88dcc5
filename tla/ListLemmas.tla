----------------------------- MODULE ListLemmas -----------------------------
(***************************************************************************)
(* Facts about the operations on lists that the models of the loops are    *)
(* made of: a list without duplicates keeps none and changes its members   *)
(* as expected when a member is added, unlinked, taken off or replaced.    *)
(***************************************************************************)
EXTENDS Integers, Sequences, SequencesExt, WellFoundedInduction, TLAPS

(* The members of a sequence. *)
LEMMA MemberOf ==
  ASSUME NEW S, NEW s \in Seq(S)
  PROVE  /\ ToSet(s) \subseteq S
         /\ DOMAIN s = 1 .. Len(s)
         /\ \A x : x \in ToSet(s) <=> \E k \in 1 .. Len(s) : s[k] = x
BY DEF ToSet

(* Adding at the end. *)
LEMMA AppendList ==
  ASSUME NEW S, NEW s \in Seq(S), NEW x \in S
  PROVE  /\ Append(s, x) \in Seq(S)
         /\ ToSet(Append(s, x)) = ToSet(s) \cup {x}
         /\ IsInjective(s) /\ x \notin ToSet(s) => IsInjective(Append(s, x))
<1> DEFINE t == Append(s, x)
<1>1. t \in Seq(S) /\ Len(t) = Len(s) + 1 /\ Len(s) \in Nat /\ DOMAIN t = 1 .. Len(s) + 1
      /\ DOMAIN s = 1 .. Len(s)
  OBVIOUS
<1>2. \A k \in 1 .. Len(s) : t[k] = s[k]
  OBVIOUS
<1>3. t[Len(s) + 1] = x
  OBVIOUS
<1>4. ToSet(t) = ToSet(s) \cup {x}
  <2>1. ASSUME NEW y \in ToSet(t) PROVE y \in ToSet(s) \cup {x}
    BY <1>1, <1>2, <1>3 DEF ToSet
  <2>2. ASSUME NEW y \in ToSet(s) PROVE y \in ToSet(t)
    <3>1. PICK k \in 1 .. Len(s) : y = s[k]
      BY <1>1 DEF ToSet
    <3>2. k \in DOMAIN t /\ t[k] = y
      BY <3>1, <1>1, <1>2
    <3> QED BY <3>2 DEF ToSet
  <2>3. x \in ToSet(t)
    BY <1>1, <1>3 DEF ToSet
  <2> QED BY <2>1, <2>2, <2>3
<1>5. ASSUME IsInjective(s), x \notin ToSet(s) PROVE IsInjective(t)
  <2>1. \A k \in 1 .. Len(s) : s[k] # x
    BY <1>1, <1>5 DEF ToSet
  <2> QED BY <1>1, <1>2, <1>3, <1>5, <2>1 DEF IsInjective
<1> QED BY <1>1, <1>4, <1>5

(* Taking the first member off. *)
LEMMA TailList ==
  ASSUME NEW S, NEW s \in Seq(S), s # <<>>
  PROVE  /\ Tail(s) \in Seq(S) /\ Head(s) \in S
         /\ Head(s) \in ToSet(s)
         /\ ToSet(s) = ToSet(Tail(s)) \cup {Head(s)}
         /\ IsInjective(s) => IsInjective(Tail(s)) /\ Head(s) \notin ToSet(Tail(s))
<1> DEFINE t == Tail(s)
<1>1. t \in Seq(S) /\ Len(s) \in Nat /\ Len(s) > 0 /\ Len(t) = Len(s) - 1
      /\ DOMAIN t = 1 .. Len(s) - 1 /\ DOMAIN s = 1 .. Len(s) /\ Head(s) = s[1]
      /\ s[1] \in S
  OBVIOUS
<1>2. \A k \in 1 .. Len(s) - 1 : t[k] = s[k + 1]
  OBVIOUS
<1>3. s[1] \in ToSet(s)
  BY <1>1 DEF ToSet
<1>4. ToSet(s) = ToSet(t) \cup {s[1]}
  <2>1. ASSUME NEW y \in ToSet(s), y # s[1] PROVE y \in ToSet(t)
    <3>1. PICK k \in 1 .. Len(s) : y = s[k]
      BY <1>1 DEF ToSet
    <3>2. k - 1 \in DOMAIN t /\ t[k - 1] = y
      BY <3>1, <2>1, <1>1, <1>2
    <3> QED BY <3>2 DEF ToSet
  <2>2. ASSUME NEW y \in ToSet(t) PROVE y \in ToSet(s)
    <3>1. PICK k \in 1 .. Len(s) - 1 : y = t[k]
      BY <1>1 DEF ToSet
    <3>2. k + 1 \in DOMAIN s /\ s[k + 1] = y
      BY <3>1, <1>1, <1>2
    <3> QED BY <3>2 DEF ToSet
  <2> QED BY <2>1, <2>2, <1>3
<1>5. ASSUME IsInjective(s) PROVE IsInjective(t) /\ s[1] \notin ToSet(t)
  <2>1. IsInjective(t)
    BY <1>1, <1>2, <1>5 DEF IsInjective
  <2>2. ASSUME s[1] \in ToSet(t) PROVE FALSE
    <3>1. PICK k \in 1 .. Len(s) - 1 : s[1] = t[k]
      BY <2>2, <1>1 DEF ToSet
    <3>2. s[k + 1] = s[1] /\ k + 1 \in DOMAIN s /\ 1 \in DOMAIN s
      BY <3>1, <1>1, <1>2
    <3>3. k + 1 = 1
      BY <3>2, <1>5 DEF IsInjective
    <3> QED BY <3>3
  <2> QED BY <2>1, <2>2
<1> QED BY <1>1, <1>3, <1>4, <1>5

(* Unlinking the member at a position. *)
LEMMA RemoveAtList ==
  ASSUME NEW S, NEW s \in Seq(S), NEW p \in 1 .. Len(s), IsInjective(s)
  PROVE  /\ RemoveAt(s, p) \in Seq(S)
         /\ ToSet(RemoveAt(s, p)) = ToSet(s) \ {s[p]}
         /\ IsInjective(RemoveAt(s, p))
         /\ Len(RemoveAt(s, p)) = Len(s) - 1
         /\ \A k \in 1 .. Len(s) - 1 :
              RemoveAt(s, p)[k] = IF k < p THEN s[k] ELSE s[k + 1]
<1> DEFINE a == SubSeq(s, 1, p - 1)
           b == SubSeq(s, p + 1, Len(s))
           t == a \o b
<1>1. Len(s) \in Nat /\ DOMAIN s = 1 .. Len(s)
  OBVIOUS
<1>2. a \in Seq(S) /\ Len(a) = p - 1 /\ \A k \in 1 .. p - 1 : a[k] = s[k]
  OBVIOUS
<1>3. b \in Seq(S) /\ Len(b) = Len(s) - p /\ \A k \in 1 .. Len(s) - p : b[k] = s[p + k]
  OBVIOUS
<1> HIDE DEF a, b
<1>4. t \in Seq(S) /\ Len(t) = Len(s) - 1 /\ DOMAIN t = 1 .. Len(s) - 1
  <2>0. a \in Seq(S) /\ b \in Seq(S)
    BY <1>2, <1>3
  <2>1. t \in Seq(S) /\ Len(t) = Len(a) + Len(b)
    BY ONLY <2>0
  <2>2. Len(t) = Len(s) - 1
    BY <2>1, <1>1, <1>2, <1>3
  <2> HIDE DEF t
  <2> QED BY <2>1, <2>2
<1>5. \A k \in 1 .. Len(s) - 1 : t[k] = IF k < p THEN s[k] ELSE s[k + 1]
  <2>1. \A k \in 1 .. Len(s) - 1 : t[k] = IF k <= p - 1 THEN a[k] ELSE b[k - (p - 1)]
    BY <1>1, <1>2, <1>3
  <2> QED BY <2>1, <1>1, <1>2, <1>3
<1> HIDE DEF t
<1>6. ToSet(t) = ToSet(s) \ {s[p]}
  <2>1. ASSUME NEW y \in ToSet(t) PROVE y \in ToSet(s) /\ y # s[p]
    <3>1. PICK k \in 1 .. Len(s) - 1 : y = t[k]
      BY <1>4 DEF ToSet
    <3>2. PICK j \in 1 .. Len(s) : j # p /\ y = s[j]
      BY <3>1, <1>1, <1>5
    <3> QED BY <3>2, <1>1 DEF ToSet, IsInjective
  <2>2. ASSUME NEW y \in ToSet(s), y # s[p] PROVE y \in ToSet(t)
    <3>1. PICK j \in 1 .. Len(s) : y = s[j]
      BY <1>1 DEF ToSet
    <3>2. PICK k \in 1 .. Len(s) - 1 : t[k] = y
      <4>1. CASE j < p
        BY <4>1, <3>1, <1>1, <1>5
      <4>2. CASE j > p
        <5>1. j - 1 \in 1 .. Len(s) - 1 /\ t[j - 1] = s[j]
          BY <4>2, <1>1, <1>5
        <5> QED BY <5>1, <3>1
      <4> QED BY <4>1, <4>2, <3>1, <2>2
    <3> QED BY <3>2, <1>4 DEF ToSet
  <2> QED BY <2>1, <2>2
<1>7. IsInjective(t)
  <2> SUFFICES ASSUME NEW j \in 1 .. Len(s) - 1, NEW k \in 1 .. Len(s) - 1, t[j] = t[k]
               PROVE  j = k
    BY <1>4 DEF IsInjective
  <2>1. \A m, n \in 1 .. Len(s) : s[m] = s[n] => m = n
    BY <1>1 DEF IsInjective
  <2> QED BY <2>1, <1>1, <1>5
<1> QED BY <1>4, <1>5, <1>6, <1>7 DEF RemoveAt, t, a, b

(* Linking a member in at a position. *)
LEMMA InsertAtList ==
  ASSUME NEW S, NEW s \in Seq(S), NEW p \in 1 .. Len(s) + 1, NEW x \in S,
         x \notin ToSet(s), IsInjective(s)
  PROVE  /\ InsertAt(s, p, x) \in Seq(S)
         /\ ToSet(InsertAt(s, p, x)) = ToSet(s) \cup {x}
         /\ IsInjective(InsertAt(s, p, x))
         /\ Len(InsertAt(s, p, x)) = Len(s) + 1
         /\ \A k \in 1 .. Len(s) + 1 : InsertAt(s, p, x)[k] =
              IF k < p THEN s[k] ELSE IF k = p THEN x ELSE s[k - 1]
<1> DEFINE a == SubSeq(s, 1, p - 1)
           b == SubSeq(s, p, Len(s))
           c == a \o <<x>>
           t == c \o b
<1>1. Len(s) \in Nat /\ DOMAIN s = 1 .. Len(s)
  OBVIOUS
<1>2. a \in Seq(S) /\ Len(a) = p - 1 /\ \A k \in 1 .. p - 1 : a[k] = s[k]
  OBVIOUS
<1>3. b \in Seq(S) /\ Len(b) = Len(s) - p + 1 /\ \A k \in 1 .. Len(s) - p + 1 : b[k] = s[p + k - 1]
  OBVIOUS
<1>4. c \in Seq(S) /\ Len(c) = p /\ c[p] = x /\ \A k \in 1 .. p - 1 : c[k] = s[k]
  <2> HIDE DEF a
  <2>1. <<x>> \in Seq(S) /\ Len(<<x>>) = 1 /\ <<x>>[1] = x
    OBVIOUS
  <2>2. a \in Seq(S) /\ Len(a) = p - 1
    BY <1>2
  <2>3. /\ c \in Seq(S) /\ Len(c) = Len(a) + 1
        /\ \A k \in 1 .. Len(a) + 1 : c[k] = IF k <= Len(a) THEN a[k] ELSE x
    BY <2>1, <2>2
  <2> HIDE DEF c
  <2> QED BY <2>2, <2>3, <1>1, <1>2
<1> HIDE DEF a, b, c
<1>5. t \in Seq(S) /\ Len(t) = Len(s) + 1 /\ DOMAIN t = 1 .. Len(s) + 1
  BY <1>1, <1>3, <1>4
<1>6. \A k \in 1 .. Len(s) + 1 : t[k] = IF k < p THEN s[k] ELSE IF k = p THEN x ELSE s[k - 1]
  <2>1. \A k \in 1 .. Len(s) + 1 : t[k] = IF k <= p THEN c[k] ELSE b[k - p]
    BY <1>1, <1>3, <1>4
  <2> QED BY <2>1, <1>1, <1>3, <1>4
<1> HIDE DEF t
<1>7. ToSet(t) = ToSet(s) \cup {x}
  <2>1. ASSUME NEW y \in ToSet(t), y # x PROVE y \in ToSet(s)
    <3>1. PICK k \in 1 .. Len(s) + 1 : y = t[k]
      BY <1>5 DEF ToSet
    <3>2. PICK j \in 1 .. Len(s) : y = s[j]
      BY <3>1, <2>1, <1>1, <1>6
    <3> QED BY <3>2, <1>1 DEF ToSet
  <2>2. ASSUME NEW y \in ToSet(s) PROVE y \in ToSet(t)
    <3>1. PICK j \in 1 .. Len(s) : y = s[j]
      BY <1>1 DEF ToSet
    <3>2. PICK k \in 1 .. Len(s) + 1 : t[k] = y
      <4>1. CASE j < p
        BY <4>1, <3>1, <1>1, <1>6
      <4>2. CASE j >= p
        <5>1. j + 1 \in 1 .. Len(s) + 1 /\ t[j + 1] = s[j]
          BY <4>2, <1>1, <1>6
        <5> QED BY <5>1, <3>1
      <4> QED BY <4>1, <4>2
    <3> QED BY <3>2, <1>5 DEF ToSet
  <2>3. x \in ToSet(t)
    BY <1>1, <1>5, <1>6 DEF ToSet
  <2> QED BY <2>1, <2>2, <2>3
<1>8. IsInjective(t)
  <2> SUFFICES ASSUME NEW j \in 1 .. Len(s) + 1, NEW k \in 1 .. Len(s) + 1, t[j] = t[k]
               PROVE  j = k
    BY <1>5 DEF IsInjective
  <2>1. \A m \in 1 .. Len(s) : s[m] # x
    BY <1>1 DEF ToSet
  <2>2. \A m, n \in 1 .. Len(s) : s[m] = s[n] => m = n
    BY <1>1 DEF IsInjective
  <2> QED BY <2>1, <2>2, <1>1, <1>6
<1> QED BY <1>5, <1>6, <1>7, <1>8 DEF InsertAt, a, b, c, t

(* Putting one member in the place of another. *)
LEMMA ReplaceAllList ==
  ASSUME NEW S, NEW s \in Seq(S), NEW x \in S, NEW y \in S, y \notin ToSet(s),
         IsInjective(s)
  PROVE  /\ ReplaceAll(s, x, y) \in Seq(S)
         /\ ToSet(ReplaceAll(s, x, y)) =
              IF x \in ToSet(s) THEN (ToSet(s) \ {x}) \cup {y} ELSE ToSet(s)
         /\ IsInjective(ReplaceAll(s, x, y))
<1> DEFINE t == ReplaceAll(s, x, y)
<1>1. Len(s) \in Nat /\ DOMAIN s = 1 .. Len(s) /\ \A k \in 1 .. Len(s) : s[k] \in S
  OBVIOUS
<1>2. t = [k \in 1 .. Len(s) |-> IF s[k] = x THEN y ELSE s[k]]
  BY DEF ReplaceAll
<1>3. t \in Seq(S) /\ DOMAIN t = 1 .. Len(s)
  BY <1>1, <1>2
<1>4. \A k \in 1 .. Len(s) : t[k] = IF s[k] = x THEN y ELSE s[k]
  BY <1>2
<1>5. \A k \in 1 .. Len(s) : s[k] # y
  BY <1>1 DEF ToSet
<1> HIDE DEF t
<1>6. ToSet(t) = IF x \in ToSet(s) THEN (ToSet(s) \ {x}) \cup {y} ELSE ToSet(s)
  <2>1. \A z : z \in ToSet(t) <=> \E k \in 1 .. Len(s) : z = t[k]
    BY <1>3 DEF ToSet
  <2>2. \A z : z \in ToSet(s) <=> \E k \in 1 .. Len(s) : z = s[k]
    BY <1>1 DEF ToSet
  <2>3. ASSUME NEW z PROVE z \in ToSet(t) <=>
               (z \in ToSet(s) /\ z # x) \/ (z = y /\ x \in ToSet(s))
    BY <2>1, <2>2, <1>4, <1>5
  <2> QED BY <2>3
<1>7. IsInjective(t)
  BY <1>1, <1>3, <1>4, <1>5 DEF IsInjective
<1> QED BY <1>3, <1>6, <1>7 DEF t

(* A set of naturals that is not empty has a least member. *)
LEMMA LeastMember ==
  ASSUME NEW T, T \subseteq Nat, T # {}
  PROVE  \E n \in T : \A m \in T : n <= m
<1> DEFINE R == {mn \in Nat \X Nat : mn[1] < mn[2]}
<1>1. IsWellFoundedOn(R, Nat)
  BY NatLessThanWellFounded DEF OpToRel
<1> HIDE DEF R
<1>2. PICK n \in T : \A m \in T : ~(<<m, n>> \in R)
  BY <1>1, WFMin
<1>3. ASSUME NEW m \in T PROVE n <= m
  <2>1. m < n => <<m, n>> \in R
    BY DEF R
  <2> QED BY <2>1, <1>2
<1> QED BY <1>3

=============================================================================
