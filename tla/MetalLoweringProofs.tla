------------------------- MODULE MetalLoweringProofs -------------------------
(***************************************************************************)
(* The planner's programs are well formed, for every plan that was verified. *)
(*                                                                         *)
(* The argument: the steps cover the nodes of the plan that are no           *)
(* constants, in order and each once (Covers).  What leaves the nodes of a   *)
(* step is an output of the step, and what it releases no later node uses.   *)
(* The values that share storage with an operand updated in place are those  *)
(* of one chain of updates, dead but for its last, and views of that.        *)
(***************************************************************************)
EXTENDS MetalGraphProofs, MetalLowering, FiniteSetTheorems, WellFoundedInduction

----------------------------------------------------------------------------
(* Numbers, intervals and sequences.                                       *)

LEMMA LeastNumber ==
  ASSUME NEW T, T \subseteq Nat, T # {}
  PROVE  \E n \in T : \A m \in T : n <= m
<1>1. IsWellFoundedOn(OpToRel(<, Nat), Nat)
  BY NatLessThanWellFounded
<1>2. PICK n \in T : \A m \in T : ~ (<<m, n>> \in OpToRel(<, Nat))
  BY <1>1, WFMin
<1>3. \A m \in T : ~ (m < n)
  BY <1>2 DEF OpToRel
<1> QED
  BY <1>3

(* A set of numbers that holds a number when it holds all below it.         *)
LEMMA NumberInduction ==
  ASSUME NEW S, \A n \in Nat : (\A m \in Nat : m < n => m \in S) => n \in S
  PROVE  Nat \subseteq S
<1> DEFINE T == Nat \ S
<1> SUFFICES ASSUME T # {} PROVE FALSE
  OBVIOUS
<1>1. PICK n \in T : \A m \in T : n <= m
  <2>1. T \subseteq Nat
    OBVIOUS
  <2> HIDE DEF T
  <2> QED BY <2>1, LeastNumber
<1>2. \A m \in Nat : m < n => m \in S
  BY <1>1
<1> QED BY <1>1, <1>2

LEMMA MaximumIs ==
  ASSUME NEW n \in Nat, NEW S \in SUBSET (0 .. n), S # {}
  PROVE  Max(S) \in S /\ \A x \in S : x <= Max(S)
<1> DEFINE T == {n - i : i \in S}
<1>1. T \subseteq Nat /\ T # {}
  <2>1. \A i \in S : n - i \in Nat
    OBVIOUS
  <2> QED BY <2>1
<1>2. \E m \in T : \A k \in T : m <= k
  <2> HIDE DEF T
  <2> QED BY <1>1, LeastNumber
<1>3. PICK low \in T : \A k \in T : low <= k
  BY <1>2
<1>4. PICK i \in S : low = n - i
  OBVIOUS
<1>5. \A j \in S : i >= j
  <2> SUFFICES ASSUME NEW j \in S PROVE i >= j
    OBVIOUS
  <2>1. n - i <= n - j
    BY <1>3, <1>4
  <2> QED BY <2>1
<1>6. Max(S) \in S /\ \A y \in S : Max(S) >= y
  BY <1>5 DEF Max
<1> DEFINE m == Max(S)
<1>7. m \in S /\ \A y \in S : m >= y
  BY <1>6
<1> HIDE DEF m
<1>8. \A y \in S : y <= m
  BY <1>7
<1> QED BY <1>7, <1>8 DEF m

LEMMA MinimumIs ==
  ASSUME NEW S \in SUBSET Nat, S # {}
  PROVE  Min(S) \in S /\ \A x \in S : Min(S) <= x
<1>1. PICK n \in S : \A m \in S : n <= m
  BY LeastNumber
<1> QED BY <1>1 DEF Min

LEMMA IntervalBounds ==
  ASSUME NEW a \in Nat, NEW b \in Nat, a <= b
  PROVE  /\ Min(a .. b) = a /\ Max(a .. b) = b
         /\ IsFiniteSet(a .. b) /\ Cardinality(a .. b) = b - a + 1
<1>1. a .. b \in SUBSET (0 .. b) /\ a .. b # {} /\ a .. b \in SUBSET Nat
  OBVIOUS
<1>2. Max(a .. b) \in a .. b /\ \A x \in a .. b : x <= Max(a .. b)
  BY <1>1, MaximumIs
<1>3. Min(a .. b) \in a .. b /\ \A x \in a .. b : Min(a .. b) <= x
  BY <1>1, MinimumIs
<1>4. IsFiniteSet(a .. b) /\ Cardinality(a .. b) = b - a + 1
  BY FS_Interval
<1> QED BY <1>2, <1>3, <1>4

(* A set of numbers that holds what lies between its least and any other is *)
(* an interval.                                                            *)
LEMMA RunIsInterval ==
  ASSUME NEW n \in Nat, NEW i \in Nat, NEW S \in SUBSET (i .. n), i \in S,
         \A j \in S : i .. j \subseteq S
  PROVE  Max(S) \in i .. n /\ S = i .. Max(S)
<1>1. S \in SUBSET (0 .. n) /\ S # {}
  OBVIOUS
<1> DEFINE m == Max(S)
<1>2. m \in S /\ \A x \in S : x <= m
  BY <1>1, MaximumIs
<1> HIDE DEF m
<1>3. m \in i .. n /\ i .. m \subseteq S
  BY <1>2
<1>4. ASSUME NEW x \in S PROVE x \in i .. m
  <2>1. x \in i .. n /\ x <= m
    BY <1>2
  <2> QED BY <1>3, <2>1
<1>5. S = i .. m
  BY <1>3, <1>4
<1> QED BY <1>3, <1>5 DEF m

LEMMA Concatenation ==
  ASSUME NEW X, NEW s \in Seq(X), NEW r \in Seq(X)
  PROVE  /\ s \o r \in Seq(X) /\ DOMAIN (s \o r) = 1 .. Len(s) + Len(r) /\ Len(s \o r) = Len(s) + Len(r)
         /\ Len(s) \in Nat /\ Len(r) \in Nat
         /\ \A t \in 1 .. Len(s) : (s \o r)[t] = s[t]
         /\ \A t \in 1 .. Len(r) : (s \o r)[Len(s) + t] = r[t]
OBVIOUS

LEMMA Prefixed ==
  ASSUME NEW X, NEW l \in Seq(X), NEW r \in Seq(X)
  PROVE  Len(l) = 1 =>
           /\ l \o r \in Seq(X) /\ DOMAIN (l \o r) = 1 .. 1 + Len(r) /\ (l \o r)[1] = l[1]
           /\ \A t \in 1 .. Len(r) : (l \o r)[1 + t] = r[t] /\ 1 + t \in 1 .. 1 + Len(r)
<1> DEFINE q == l \o r
           m == Len(l)
           n == Len(r)
<1>1. /\ q \in Seq(X) /\ DOMAIN q = 1 .. m + n /\ n \in Nat
      /\ \A t \in 1 .. m : q[t] = l[t]
      /\ \A t \in 1 .. n : q[m + t] = r[t]
  BY Concatenation
<1> HIDE DEF q, m, n
<1>2. SUFFICES ASSUME m = 1
               PROVE  /\ q \in Seq(X) /\ DOMAIN q = 1 .. 1 + n /\ q[1] = l[1]
                      /\ \A t \in 1 .. n : q[1 + t] = r[t] /\ 1 + t \in 1 .. 1 + n
  BY DEF q, m, n
<1> QED BY <1>1, <1>2

(* The numbers of a finite set in ascending order: each once.              *)
Enumerates(f, S) ==
  f \in [1 .. Cardinality(S) -> S] /\ \A j, k \in 1 .. Cardinality(S) : j < k => f[j] < f[k]

LEMMA EnumerationExtends ==
  ASSUME NEW n \in Nat, NEW S \in SUBSET (0 .. n), S # {}, NEW f, Enumerates(f, S \ {Max(S)}),
         IsFiniteSet(S), NEW c \in Nat, Cardinality(S) = c
  PROVE  \E g : Enumerates(g, S)
<1> DEFINE m == Max(S)
<1>1. m \in S /\ \A x \in S : x <= m
  BY MaximumIs
<1> HIDE DEF m
<1>2. Cardinality(S \ {m}) = c - 1 /\ c # 0
  BY <1>1, FS_RemoveElement, FS_EmptySet
<1>3. f \in [1 .. c - 1 -> S \ {m}] /\ \A j, k \in 1 .. c - 1 : j < k => f[j] < f[k]
  BY <1>2 DEF Enumerates, m
<1> DEFINE g == [j \in 1 .. c |-> IF j = c THEN m ELSE f[j]]
<1>4. g \in [1 .. c -> S]
  BY <1>1, <1>3
<1>5. ASSUME NEW j \in 1 .. c, NEW k \in 1 .. c, j < k PROVE g[j] < g[k]
  <2>1. j \in 1 .. c - 1 /\ g[j] = f[j] /\ f[j] \in S \ {m}
    BY <1>2, <1>3, <1>5
  <2>4. f[j] \in 0 .. n /\ m \in 0 .. n
    BY <1>1, <2>1
  <2>2. CASE k = c
    <3>1. g[k] = m /\ f[j] <= m /\ f[j] # m
      BY <1>1, <2>1, <2>2
    <3> QED BY <2>1, <2>4, <3>1
  <2>3. CASE k # c
    BY <1>3, <1>5, <2>1, <2>3
  <2> QED BY <2>2, <2>3
<1> QED BY <1>4, <1>5 DEF Enumerates

LEMMA EnumerationExists ==
  ASSUME NEW n \in Nat, NEW S \in SUBSET (0 .. n)
  PROVE  IsFiniteSet(S) /\ \E f : Enumerates(f, S)
<1> DEFINE Good == {c \in Nat : \A T \in SUBSET (0 .. n) : Cardinality(T) = c => \E f : Enumerates(f, T)}
<1>1. ASSUME NEW T \in SUBSET (0 .. n) PROVE IsFiniteSet(T) /\ Cardinality(T) \in Nat
  <2>1. IsFiniteSet(0 .. n)
    BY FS_Interval
  <2>2. IsFiniteSet(T)
    BY <2>1, FS_Subset
  <2> QED BY <2>2, FS_CardinalityType
<1>2. ASSUME NEW c \in Nat, \A d \in Nat : d < c => d \in Good,
             NEW T \in SUBSET (0 .. n), Cardinality(T) = c
      PROVE  \E f : Enumerates(f, T)
  <2>1. CASE T = {}
    <3>1. Cardinality(T) = 0 /\ 1 .. 0 = {}
      BY <2>1, FS_EmptySet
    <3>2. Enumerates([j \in 1 .. 0 |-> 0], T)
      BY <2>1, <3>1 DEF Enumerates
    <3> QED BY <3>2
  <2>2. CASE T # {}
    <3>1. Max(T) \in T
      BY <2>2, MaximumIs
    <3>2. Cardinality(T \ {Max(T)}) = c - 1 /\ c # 0
      BY <1>1, <1>2, <2>2, <3>1, FS_RemoveElement, FS_EmptySet
    <3>3. c - 1 \in Good
      BY <1>2, <3>2
    <3>4. PICK f : Enumerates(f, T \ {Max(T)})
      BY <3>2, <3>3
    <3> QED BY <1>1, <1>2, <2>2, <3>4, EnumerationExtends
  <2> QED BY <2>1, <2>2
<1>3. \A c \in Nat : (\A d \in Nat : d < c => d \in Good) => c \in Good
  BY <1>2
<1> HIDE DEF Good
<1>4. Cardinality(S) \in Good
  BY <1>1, <1>3, NumberInduction
<1> QED BY <1>1, <1>4 DEF Good

LEMMA AscendingIs ==
  ASSUME NEW n \in Nat, NEW S \in SUBSET (0 .. n)
  PROVE  /\ IsFiniteSet(S) /\ Cardinality(S) \in Nat
         /\ Ascending(S) \in Seq(S) /\ Len(Ascending(S)) = Cardinality(S)
         /\ Elements(Ascending(S)) = S /\ Range(Ascending(S)) = S
         /\ \A j, k \in DOMAIN Ascending(S) : Ascending(S)[j] = Ascending(S)[k] => j = k
<1> DEFINE c == Cardinality(S)
           f == Ascending(S)
<1>1. IsFiniteSet(S) /\ c \in Nat
  BY EnumerationExists, FS_CardinalityType
<1>2. f \in [1 .. c -> S] /\ \A j, k \in 1 .. c : j < k => f[j] < f[k]
  <2>1. PICK g : Enumerates(g, S)
    BY EnumerationExists
  <2> QED BY <2>1 DEF Enumerates, Ascending
<1> HIDE DEF f, c
<1>3. \A j, k \in 1 .. c : f[j] = f[k] => j = k
  <2> SUFFICES ASSUME NEW j \in 1 .. c, NEW k \in 1 .. c, f[j] = f[k] PROVE j = k
    OBVIOUS
  <2>1. f[j] \in 0 .. n /\ j \in 1 .. c /\ k \in 1 .. c
    BY <1>2
  <2>2. ~(j < k) /\ ~(k < j)
    BY <1>2, <2>1
  <2> QED BY <1>1, <2>1, <2>2
<1>4. Cardinality(1 .. c) = c
  BY <1>1, FS_Interval
<1>5. f \in Injection(1 .. c, S)
  BY <1>2, <1>3 DEF Injection, IsInjective
<1>6. f \in Surjection(1 .. c, S)
  BY <1>1, <1>4, <1>5, FS_Injection DEF c
<1>7. \A x \in S : \E j \in 1 .. c : f[j] = x
  BY <1>6 DEF Surjection
<1>8. f \in Seq(S) /\ Len(f) = c /\ DOMAIN f = 1 .. c
  BY <1>1, <1>2
<1>9. Elements(f) = S /\ Range(f) = S
  BY <1>2, <1>7, <1>8 DEF Elements, Range
<1> QED BY <1>1, <1>3, <1>8, <1>9 DEF f, c
----------------------------------------------------------------------------
(* Plans.                                                                  *)

Size(plan) == Len(plan.instructions)
Kinds == {"constant", "alias", "map", "update", "dot"}

LEMMA PlanShape ==
  ASSUME NEW plan, Verified(plan)
  PROVE  /\ plan.params \in Nat /\ Size(plan) \in Nat /\ Nodes(plan) = 1 .. Size(plan)
         /\ ValueIds(plan) = 1 .. plan.params + Size(plan)
         /\ plan.output_ids \in Seq(ValueIds(plan))
         /\ plan.donations \subseteq [output : DOMAIN plan.output_ids, parameter : 1 .. plan.params]
         /\ plan.elements \in 1 .. 2^30
         /\ \A i \in Nodes(plan) :
              /\ Kind(plan, i) \in Kinds
              /\ plan.instructions[i].inputs \in Seq(Nat)
              /\ Operands(plan, i) \subseteq 1 .. plan.params + i - 1
              /\ \A k \in DOMAIN plan.instructions[i].inputs : plan.instructions[i].inputs[k] \in Operands(plan, i)
              /\ Kind(plan, i) = "constant" => plan.instructions[i].inputs = <<>> /\ Operands(plan, i) = {}
              /\ Kind(plan, i) = "alias" => Len(plan.instructions[i].inputs) = 1
              /\ Kind(plan, i) \in {"update", "dot"} => Len(plan.instructions[i].inputs) = 2
<1>1. plan.instructions \in Seq([kind : Kinds, inputs : Seq(Nat)])
  BY DEF Verified, Kinds
<1>2. Size(plan) \in Nat /\ Nodes(plan) = 1 .. Size(plan)
  BY <1>1 DEF Size, Nodes
<1>3. ASSUME NEW i \in Nodes(plan)
      PROVE  /\ Kind(plan, i) \in Kinds
             /\ plan.instructions[i].inputs \in Seq(Nat)
             /\ Operands(plan, i) \subseteq 1 .. plan.params + i - 1
             /\ \A k \in DOMAIN plan.instructions[i].inputs : plan.instructions[i].inputs[k] \in Operands(plan, i)
             /\ Kind(plan, i) = "constant" => plan.instructions[i].inputs = <<>> /\ Operands(plan, i) = {}
             /\ Kind(plan, i) = "alias" => Len(plan.instructions[i].inputs) = 1
             /\ Kind(plan, i) \in {"update", "dot"} => Len(plan.instructions[i].inputs) = 2
  <2>1. plan.instructions[i] \in [kind : Kinds, inputs : Seq(Nat)]
    <3> DEFINE X == [kind : Kinds, inputs : Seq(Nat)]
    <3>1. plan.instructions \in Seq(X) /\ i \in DOMAIN plan.instructions
      BY <1>1 DEF Nodes
    <3> HIDE DEF X
    <3>2. plan.instructions[i] \in X
      BY <3>1
    <3> QED BY <3>2 DEF X
  <2>2. Kind(plan, i) \in Kinds /\ plan.instructions[i].inputs \in Seq(Nat)
    BY <2>1 DEF Kind
  <2>3. Operands(plan, i) \subseteq 1 .. plan.params + i - 1
    BY DEF Verified
  <2>4. \A k \in DOMAIN plan.instructions[i].inputs : plan.instructions[i].inputs[k] \in Operands(plan, i)
    BY DEF Operands, Range
  <2>5. Kind(plan, i) = "constant" => plan.instructions[i].inputs = <<>>
    BY DEF Verified
  <2>6. Kind(plan, i) = "constant" => Operands(plan, i) = {}
    BY <2>5 DEF Operands, Range
  <2>7. Kind(plan, i) = "alias" => Len(plan.instructions[i].inputs) = 1
    BY DEF Verified
  <2>8. Kind(plan, i) \in {"update", "dot"} => Len(plan.instructions[i].inputs) = 2
    BY DEF Verified
  <2> QED BY <2>2, <2>3, <2>4, <2>5, <2>6, <2>7, <2>8
<1>4. /\ plan.params \in Nat /\ plan.output_ids \in Seq(ValueIds(plan))
      /\ plan.donations \subseteq [output : DOMAIN plan.output_ids, parameter : 1 .. plan.params]
      /\ plan.elements \in 1 .. 2^30
  BY DEF Verified
<1>5. ValueIds(plan) = 1 .. plan.params + Size(plan)
  BY DEF ValueIds, Size
<1> QED BY <1>2, <1>3, <1>4, <1>5

(* A value is a parameter or the result of a node; an operand is a value    *)
(* from before.                                                            *)
LEMMA Numbers ==
  ASSUME NEW plan, Verified(plan)
  PROVE  /\ \A i \in Nodes(plan) :
              /\ i \in Nat /\ 1 <= i /\ i <= Size(plan)
              /\ ResultId(plan, i) = plan.params + i /\ ResultId(plan, i) \in ValueIds(plan)
              /\ producer_node(plan, ResultId(plan, i)) = i
              /\ \A v \in Operands(plan, i) : v \in ValueIds(plan) /\ v < ResultId(plan, i)
         /\ \A v \in ValueIds(plan) :
              /\ v \in Nat /\ 1 <= v
              /\ v > plan.params => producer_node(plan, v) \in Nodes(plan) /\ ResultId(plan, producer_node(plan, v)) = v
              /\ producer_node(plan, v) > 0 <=> v > plan.params
<1>1. /\ plan.params \in Nat /\ Size(plan) \in Nat /\ Nodes(plan) = 1 .. Size(plan)
      /\ ValueIds(plan) = 1 .. plan.params + Size(plan)
  BY PlanShape
<1>2. ASSUME NEW i \in Nodes(plan)
      PROVE  /\ i \in Nat /\ 1 <= i /\ i <= Size(plan)
             /\ ResultId(plan, i) = plan.params + i /\ ResultId(plan, i) \in ValueIds(plan)
             /\ producer_node(plan, ResultId(plan, i)) = i
             /\ \A v \in Operands(plan, i) : v \in ValueIds(plan) /\ v < ResultId(plan, i)
  <2>1. Operands(plan, i) \subseteq 1 .. plan.params + i - 1
    BY PlanShape
  <2>2. i \in Nat /\ 1 <= i /\ i <= Size(plan)
    BY <1>1
  <2>3. \A v \in 1 .. plan.params + i - 1 : v \in 1 .. plan.params + Size(plan) /\ v < plan.params + i
    BY <1>1, <2>2
  <2> QED BY <1>1, <2>1, <2>2, <2>3 DEF ResultId, producer_node
<1>3. ASSUME NEW v \in ValueIds(plan)
      PROVE  /\ v \in Nat /\ 1 <= v
             /\ v > plan.params => producer_node(plan, v) \in Nodes(plan) /\ ResultId(plan, producer_node(plan, v)) = v
             /\ producer_node(plan, v) > 0 <=> v > plan.params
  BY <1>1 DEF ResultId, producer_node
<1> QED BY <1>2, <1>3

(* The last use is a use, and no use comes after it.                       *)
LEMMA LastUse ==
  ASSUME NEW plan, Verified(plan), NEW v
  PROVE  /\ last_use_node(plan, v) \in 0 .. Size(plan)
         /\ \A i \in Nodes(plan) : v \in Operands(plan, i) => i <= last_use_node(plan, v)
         /\ last_use_node(plan, v) # 0 => last_use_node(plan, v) \in Nodes(plan) /\ v \in Operands(plan, last_use_node(plan, v))
<1> DEFINE S == {0} \cup {i \in Nodes(plan) : v \in Operands(plan, i)}
<1>1. Size(plan) \in Nat /\ Nodes(plan) = 1 .. Size(plan)
  BY PlanShape
<1>2. S \in SUBSET (0 .. Size(plan)) /\ S # {}
  BY <1>1
<1> HIDE DEF S
<1>3. Max(S) \in S /\ \A x \in S : x <= Max(S)
  BY <1>1, <1>2, MaximumIs
<1>4. last_use_node(plan, v) = Max(S)
  BY DEF last_use_node, S
<1> QED BY <1>1, <1>2, <1>3, <1>4 DEF S
----------------------------------------------------------------------------
(* What is taken together from a node.                                     *)

LEMMA FusionSegmentIs ==
  ASSUME NEW plan, Verified(plan), NEW i \in Nodes(plan), fusionSegmentAt(plan, i) # {}
  PROVE  \E j \in i .. Size(plan) :
           fusionSegmentAt(plan, i) = i .. j /\ \A k \in i .. j : programNodeFusible(Kind(plan, k))
<1> DEFINE fusible == {k \in Nodes(plan) : programNodeFusible(Kind(plan, k))}
           ends == {j \in LongestRun(plan, i, fusible) : groupEligible(plan, Run(i, j))}
<1>1. fusionSegmentAt(plan, i) = IF ends = {} THEN {} ELSE Run(i, Max(ends))
  BY DEF fusionSegmentAt
<1>2. \A j \in ends : j \in i .. Size(plan) /\ i .. j \subseteq fusible
  BY DEF LongestRun, Run, Size
<1>3. Size(plan) \in Nat /\ i \in Nat /\ ends \in SUBSET (0 .. Size(plan))
  <2>1. Size(plan) \in Nat /\ i \in Nat
    BY PlanShape, Numbers
  <2> HIDE DEF ends
  <2> QED BY <1>2, <2>1
<1> HIDE DEF ends
<1>4. ends # {}
  BY <1>1
<1>5. Max(ends) \in ends
  BY <1>3, <1>4, MaximumIs
<1> DEFINE j == Max(ends)
<1>6. j \in i .. Size(plan) /\ i .. j \subseteq fusible /\ fusionSegmentAt(plan, i) = i .. j
  BY <1>1, <1>2, <1>4, <1>5 DEF Run
<1> HIDE DEF j
<1> QED BY <1>6

LEMMA DotGroupIs ==
  ASSUME NEW plan, Verified(plan), NEW i \in Nodes(plan), dotGroupAt(plan, i) # {}
  PROVE  \E j \in i .. Size(plan) :
           /\ dotGroupAt(plan, i) = i .. j /\ i < j
           /\ \A k \in i .. j : Kind(plan, k) = "dot" /\ plan.instructions[k].inputs[1] = plan.instructions[i].inputs[1]
<1> DEFINE joins == {k \in Nodes(plan) : Kind(plan, k) = "dot" /\ plan.instructions[k].inputs[1] = plan.instructions[i].inputs[1]}
           group == LongestRun(plan, i, joins)
<1>1. dotGroupAt(plan, i) = group /\ Kind(plan, i) = "dot" /\ Cardinality(group) > 1
  BY DEF dotGroupAt
<1>2. Size(plan) \in Nat /\ i \in Nat /\ i \in 1 .. Size(plan)
  BY PlanShape, Numbers
<1>3. group \in SUBSET (i .. Size(plan)) /\ \A j \in group : i .. j \subseteq joins
  BY DEF LongestRun, Run, Size
<1>4. i \in group
  <2>1. i .. i = {i} /\ i \in joins
    BY <1>1, <1>2
  <2> HIDE DEF joins
  <2> QED BY <1>2, <2>1 DEF LongestRun, Run, Size
<1>5. ASSUME NEW j \in group PROVE i .. j \subseteq group
  <2> SUFFICES ASSUME NEW k \in i .. j PROVE k \in group
    OBVIOUS
  <2>1. j \in i .. Size(plan) /\ i .. j \subseteq joins
    BY <1>3
  <2>2. k \in i .. Size(plan) /\ i .. k \subseteq i .. j
    BY <1>2, <2>1
  <2> HIDE DEF joins
  <2> QED BY <2>1, <2>2 DEF LongestRun, Run, Size
<1> HIDE DEF group
<1>6. Max(group) \in i .. Size(plan) /\ group = i .. Max(group)
  BY <1>2, <1>3, <1>4, <1>5, RunIsInterval
<1> DEFINE j == Max(group)
<1>7. j \in i .. Size(plan) /\ group = i .. j /\ j \in group
  BY <1>2, <1>6
<1> HIDE DEF j
<1>8. i < j
  <2>1. j \in Nat /\ i <= j
    BY <1>2, <1>7
  <2>2. Cardinality(group) = j - i + 1
    BY <1>2, <1>7, <2>1, IntervalBounds
  <2> QED BY <1>1, <1>2, <2>1, <2>2
<1>9. i .. j \subseteq joins
  BY <1>3, <1>7
<1> QED BY <1>1, <1>7, <1>8, <1>9
----------------------------------------------------------------------------
(* What a step has to do with the nodes a .. b that it stands for.          *)

Used(plan, S) == UNION {Operands(plan, k) : k \in S}
Results(plan, S) == {ResultId(plan, k) : k \in S}
TakesOver(plan, k) == UpdatesInPlace(plan, k, releaseValuesAfter(plan, {k}))
Dead(plan, b) == {v \in ValueIds(plan) : releasableValue(plan, v) /\ last_use_node(plan, v) <= b}

(* The step is that of one node.                                           *)
OfNode(plan, a, s) ==
  s.inputs = plan.instructions[a].inputs /\ s.outputs = <<ResultId(plan, a)>>

StepFits(plan, a, b, s) ==
  /\ s.inputs \in Seq(ValueIds(plan)) /\ s.outputs \in Seq(ValueIds(plan))
  /\ s.elements = plan.elements /\ s.kernel = Kernel(plan, a .. b)
  /\ Elements(s.inputs) \subseteq Used(plan, a .. b)
  /\ Used(plan, a .. b) \ Results(plan, a .. b) \subseteq Elements(s.inputs)
  /\ SafePlan(plan) => Elements(s.inputs) \cap Results(plan, a .. b) = {}
  /\ Elements(s.outputs) \subseteq Results(plan, a .. b)
  /\ FusedOutputs(plan, a .. b) \subseteq Elements(s.outputs)
  /\ s.outputs # <<>> /\ Injective(s.outputs)
  /\ s.release \subseteq Dead(plan, b)
  /\ NoDeadCode(plan) => s.release = releaseValuesAfter(plan, a .. b)
  /\ s.alias \in BOOLEAN /\ s.in_place \in {0, 1}
  /\ s.alias => a = b /\ Kind(plan, a) = "alias" /\ OfNode(plan, a, s) /\ s.in_place = 0
  /\ s.in_place # 0 => a = b /\ TakesOver(plan, a) /\ OfNode(plan, a, s)
  /\ \A k \in a .. b : TakesOver(plan, k) => s.in_place # 0 /\ k = a

LEMMA ReleasedAreDead ==
  ASSUME NEW plan, Verified(plan), NEW a \in Nodes(plan), NEW b \in Nodes(plan), a <= b
  PROVE  /\ releaseValuesAfter(plan, a .. b) \subseteq Dead(plan, b)
         /\ releaseValuesAfter(plan, a .. b) = Used(plan, a .. b) \cap Dead(plan, b)
<1>1. a \in Nat /\ b \in Nat /\ Max(a .. b) = b
  BY Numbers, IntervalBounds
<1>2. a .. b \subseteq Nodes(plan)
  BY <1>1, PlanShape
<1>3. Used(plan, a .. b) \subseteq ValueIds(plan)
  BY <1>2, Numbers DEF Used
<1>4. releaseValuesAfter(plan, a .. b) = {v \in Used(plan, a .. b) : releasableValue(plan, v) /\ last_use_node(plan, v) <= b}
  BY <1>1 DEF releaseValuesAfter, Used
<1> QED BY <1>3, <1>4 DEF Dead

LEMMA TypedSequence ==
  ASSUME NEW X, NEW Y, NEW s \in Seq(X), \A k \in DOMAIN s : s[k] \in Y
  PROVE  s \in Seq(Y)
<1>1. Len(s) \in Nat /\ s \in [1 .. Len(s) -> Y]
  OBVIOUS
<1> QED BY <1>1

LEMMA SubsetSequence ==
  ASSUME NEW X, NEW Y, X \subseteq Y, NEW s \in Seq(X)
  PROVE  s \in Seq(Y)
<1>1. \A k \in DOMAIN s : s[k] \in Y
  OBVIOUS
<1> QED BY <1>1, TypedSequence

LEMMA NodeFits ==
  ASSUME NEW plan, Verified(plan), NEW a \in Nodes(plan), Kind(plan, a) # "constant",
         NEW R, R \subseteq Dead(plan, a),
         Kind(plan, a) = "update" \/ NoDeadCode(plan) => R = releaseValuesAfter(plan, {a})
  PROVE  StepFits(plan, a, a, makeStep(plan, a, R))
<1> DEFINE s == makeStep(plan, a, R)
<1>1. a \in Nat /\ a .. a = {a}
  BY Numbers
<1>2. /\ s.inputs = plan.instructions[a].inputs /\ s.outputs = <<ResultId(plan, a)>>
      /\ s.release = R /\ s.alias \in BOOLEAN /\ (s.alias <=> Kind(plan, a) = "alias")
      /\ s.in_place = (IF UpdatesInPlace(plan, a, R) THEN 1 ELSE 0)
      /\ s.elements = plan.elements /\ s.kernel = Kernel(plan, {a})
  BY DEF makeStep, GraphStep
<1> HIDE DEF s
<1>3. Used(plan, {a}) = Operands(plan, a) /\ Results(plan, {a}) = {ResultId(plan, a)}
  BY DEF Used, Results
<1>4. Elements(s.inputs) = Operands(plan, a)
  BY <1>2 DEF Elements, Operands, Range
<1>5. s.inputs \in Seq(ValueIds(plan))
  <2>1. s.inputs \in Seq(Nat)
    BY <1>2, PlanShape
  <2>2. \A k \in DOMAIN s.inputs : s.inputs[k] \in ValueIds(plan)
    BY <1>2, PlanShape, Numbers
  <2> QED BY <2>1, <2>2, TypedSequence
<1>6. Operands(plan, a) \cap {ResultId(plan, a)} = {} /\ ResultId(plan, a) \in ValueIds(plan)
  <2>1. ResultId(plan, a) \in ValueIds(plan) /\ ResultId(plan, a) \in Nat
    BY Numbers
  <2>2. \A v \in Operands(plan, a) : v < ResultId(plan, a) /\ v \in Nat
    BY Numbers
  <2> QED BY <2>1, <2>2
<1>7. /\ s.outputs \in Seq(ValueIds(plan)) /\ Elements(s.outputs) = {ResultId(plan, a)}
      /\ s.outputs # <<>> /\ Injective(s.outputs)
  BY <1>2, <1>6 DEF Elements, Injective
<1>8. FusedOutputs(plan, {a}) \subseteq {ResultId(plan, a)}
  BY DEF FusedOutputs
<1>9. TakesOver(plan, a) <=> UpdatesInPlace(plan, a, R)
  BY DEF TakesOver, UpdatesInPlace
<1>10. /\ s.alias \in BOOLEAN /\ s.in_place \in {0, 1}
       /\ s.alias => Kind(plan, a) = "alias" /\ OfNode(plan, a, s) /\ s.in_place = 0
       /\ s.in_place # 0 => TakesOver(plan, a) /\ OfNode(plan, a, s)
       /\ TakesOver(plan, a) => s.in_place # 0
  <2>1. s.alias => ~UpdatesInPlace(plan, a, R)
    BY <1>2 DEF UpdatesInPlace
  <2> QED BY <1>2, <1>9, <2>1 DEF OfNode
<1>11. StepFits(plan, a, a, s)
  BY <1>1, <1>2, <1>3, <1>4, <1>5, <1>6, <1>7, <1>8, <1>10 DEF StepFits
<1> QED BY <1>11 DEF s

LEMMA FusedFits ==
  ASSUME NEW plan, Verified(plan), NEW a \in Nodes(plan), NEW b \in Nodes(plan), a <= b,
         \A k \in a .. b : programNodeFusible(Kind(plan, k)), FusedOutputs(plan, a .. b) # {}
  PROVE  StepFits(plan, a, b, GraphStep(plan, a .. b, Ascending(FusedInputs(plan, a .. b)), Ascending(FusedOutputs(plan, a .. b)),
                                   releaseValuesAfter(plan, a .. b)))
<1> DEFINE S == a .. b
           I == Ascending(FusedInputs(plan, S))
           O == Ascending(FusedOutputs(plan, S))
           s == GraphStep(plan, S, I, O, releaseValuesAfter(plan, S))
           n == plan.params + Size(plan)
<1>1. a \in Nat /\ b \in Nat /\ a .. b \subseteq Nodes(plan) /\ n \in Nat /\ ValueIds(plan) = 1 .. n
  BY Numbers, PlanShape
<1>2. /\ s.inputs = I /\ s.outputs = O /\ s.release = releaseValuesAfter(plan, S)
      /\ s.alias = FALSE /\ s.in_place = 0 /\ s.elements = plan.elements /\ s.kernel = Kernel(plan, S)
  BY DEF GraphStep
<1>3. FusedInputs(plan, S) = Used(plan, S) \ Results(plan, S)
  BY DEF FusedInputs, Used, Results
<1>4. FusedOutputs(plan, S) \subseteq Results(plan, S)
  BY DEF FusedOutputs, Results
<1>5. Used(plan, S) \subseteq ValueIds(plan) /\ Results(plan, S) \subseteq ValueIds(plan)
  BY <1>1, Numbers DEF Used, Results
<1>6. \A k \in S : ~TakesOver(plan, k)
  BY DEF TakesOver, UpdatesInPlace, programNodeFusible
<1>7. /\ releaseValuesAfter(plan, S) \subseteq Dead(plan, b)
  BY ReleasedAreDead
<1> HIDE DEF s, I, O, S
<1>8. I \in Seq(ValueIds(plan)) /\ Elements(I) = FusedInputs(plan, S)
  <2> DEFINE T == FusedInputs(plan, S)
  <2>1. T \in SUBSET (0 .. n) /\ T \subseteq ValueIds(plan)
    BY <1>1, <1>3, <1>5
  <2> HIDE DEF T
  <2>2. Ascending(T) \in Seq(T) /\ Elements(Ascending(T)) = T
    BY <1>1, <2>1, AscendingIs
  <2>3. Ascending(T) \in Seq(ValueIds(plan))
    BY <2>1, <2>2, SubsetSequence
  <2> QED BY <2>2, <2>3 DEF I, T
<1>9. O \in Seq(ValueIds(plan)) /\ Elements(O) = FusedOutputs(plan, S) /\ Injective(O) /\ O # <<>>
  <2> DEFINE T == FusedOutputs(plan, S)
  <2>1. T \in SUBSET (0 .. n) /\ T \subseteq ValueIds(plan) /\ T # {}
    BY <1>1, <1>4, <1>5 DEF S
  <2> HIDE DEF T
  <2>2. Ascending(T) \in Seq(T) /\ Elements(Ascending(T)) = T
        /\ \A j, k \in DOMAIN Ascending(T) : Ascending(T)[j] = Ascending(T)[k] => j = k
    BY <1>1, <2>1, AscendingIs
  <2>3. Ascending(T) \in Seq(ValueIds(plan))
    BY <2>1, <2>2, SubsetSequence
  <2>4. Ascending(T) # <<>>
    <3>1. Elements(<<>>) = {}
      BY DEF Elements
    <3> QED BY <2>1, <2>2, <3>1
  <2> QED BY <2>2, <2>3, <2>4 DEF O, T, Injective
<1>10. StepFits(plan, a, b, s)
  BY <1>2, <1>3, <1>4, <1>6, <1>7, <1>8, <1>9 DEF StepFits, S
<1> QED BY <1>10 DEF s, I, O, S

LEMMA GroupFits ==
  ASSUME NEW plan, Verified(plan), NEW a \in Nodes(plan), NEW b \in Nodes(plan), a <= b, dotGroupAt(plan, a) = a .. b,
         \A k \in a .. b : Kind(plan, k) = "dot" /\ plan.instructions[k].inputs[1] = plan.instructions[a].inputs[1]
  PROVE  StepFits(plan, a, b, makeGroupStep(plan, a .. b))
<1> DEFINE S == a .. b
           c == b - a + 1
           lhs == <<plan.instructions[a].inputs[1]>>
           rhs == [k \in 1 .. c |-> plan.instructions[a + k - 1].inputs[2]]
           O == [k \in 1 .. c |-> ResultId(plan, a + k - 1)]
           s == makeGroupStep(plan, S)
<1>1. /\ a \in Nat /\ b \in Nat /\ a .. b \subseteq Nodes(plan) /\ plan.params \in Nat
      /\ Min(S) = a /\ Cardinality(S) = c /\ c \in Nat /\ 1 <= c
  <2>1. a \in Nat /\ b \in Nat
    BY Numbers
  <2>2. a .. b \subseteq Nodes(plan) /\ plan.params \in Nat
    BY <2>1, PlanShape
  <2>3. Min(a .. b) = a /\ Cardinality(a .. b) = b - a + 1
    BY <2>1, IntervalBounds
  <2>4. b - a + 1 \in Nat /\ 1 <= b - a + 1
    BY <2>1
  <2> QED BY <2>1, <2>2, <2>3, <2>4
<1>2. /\ s.inputs = lhs \o rhs /\ s.outputs = O /\ s.release = releaseValuesAfter(plan, S)
      /\ s.alias = FALSE /\ s.in_place = 0 /\ s.elements = plan.elements /\ s.kernel = Kernel(plan, S)
  <2>1. s = GraphStep(plan, S, lhs \o rhs, O, releaseValuesAfter(plan, S))
    BY <1>1, Zenon DEF makeGroupStep
  <2> HIDE DEF s, lhs, rhs, O, S
  <2> QED BY <2>1 DEF GraphStep
<1>3. ASSUME NEW k \in S
      PROVE  /\ Operands(plan, k) = {plan.instructions[a].inputs[1], plan.instructions[k].inputs[2]}
             /\ Operands(plan, k) \subseteq ValueIds(plan)
             /\ ResultId(plan, k) = plan.params + k /\ ResultId(plan, k) \in ValueIds(plan)
  <2>1. k \in Nodes(plan) /\ Kind(plan, k) = "dot" /\ plan.instructions[k].inputs[1] = plan.instructions[a].inputs[1]
    BY <1>1
  <2>2. plan.instructions[k].inputs \in Seq(Nat) /\ Len(plan.instructions[k].inputs) = 2
    BY <2>1, PlanShape
  <2>3. Operands(plan, k) = {plan.instructions[k].inputs[1], plan.instructions[k].inputs[2]}
    BY <2>2 DEF Operands, Range
  <2> QED BY <2>1, <2>3, Numbers
<1>4. \A k \in 1 .. c : a + k - 1 \in S
  BY <1>1
<1>5. \A k \in S : k - a + 1 \in 1 .. c /\ a + (k - a + 1) - 1 = k
  BY <1>1
<1> HIDE DEF c
<1>6. a \in S /\ Used(plan, S) \subseteq ValueIds(plan)
  BY <1>1, <1>3 DEF Used
<1>7. lhs \in Seq(ValueIds(plan)) /\ Len(lhs) = 1 /\ lhs[1] = plan.instructions[a].inputs[1] /\ lhs[1] \in Used(plan, S)
  <2>1. plan.instructions[a].inputs[1] \in Operands(plan, a) /\ Operands(plan, a) \subseteq ValueIds(plan)
    BY <1>3, <1>6
  <2> QED BY <1>6, <2>1 DEF Used
<1>8. rhs \in Seq(ValueIds(plan)) /\ Len(rhs) = c /\ \A k \in 1 .. c : rhs[k] \in Used(plan, S)
  <2>1. \A k \in 1 .. c : rhs[k] \in Operands(plan, a + k - 1)
    BY <1>3, <1>4
  <2>2. \A k \in 1 .. c : rhs[k] \in ValueIds(plan) /\ rhs[k] \in Used(plan, S)
    BY <1>3, <1>4, <2>1 DEF Used
  <2>3. rhs = [k \in 1 .. c |-> rhs[k]]
    OBVIOUS
  <2> HIDE DEF rhs
  <2>4. rhs \in [1 .. c -> ValueIds(plan)]
    BY <2>2, <2>3
  <2> QED BY <1>1, <2>2, <2>4
<1>9. O \in Seq(ValueIds(plan)) /\ Elements(O) = Results(plan, S) /\ Injective(O) /\ O # <<>>
  <2>1. \A k \in 1 .. c : O[k] \in ValueIds(plan) /\ O[k] \in Results(plan, S) /\ O[k] = plan.params + (a + k - 1)
    BY <1>3, <1>4 DEF Results
  <2>2. O \in Seq(ValueIds(plan)) /\ DOMAIN O = 1 .. c /\ O # <<>>
    <3>1. O = [k \in 1 .. c |-> O[k]]
      OBVIOUS
    <3> HIDE DEF O
    <3>2. O \in [1 .. c -> ValueIds(plan)]
      BY <2>1, <3>1
    <3>3. O \in Seq(ValueIds(plan)) /\ Len(O) = c
      BY <1>1, <3>2
    <3> QED BY <1>1, <3>2, <3>3
  <2>3. \A k \in S : O[k - a + 1] = ResultId(plan, k)
    BY <1>5
  <2> HIDE DEF O
  <2>4. Results(plan, S) \subseteq Elements(O)
    BY <1>5, <2>2, <2>3 DEF Results, Elements
  <2>5. \A j, k \in 1 .. c : O[j] = O[k] => j = k
    BY <1>1, <2>1
  <2> QED BY <2>1, <2>2, <2>4, <2>5 DEF Elements, Injective
<1>10. s.inputs \in Seq(ValueIds(plan)) /\ Elements(s.inputs) = Used(plan, S)
  <2>1. \A k \in S : rhs[k - a + 1] = plan.instructions[k].inputs[2]
    BY <1>5
  <2> HIDE DEF lhs, rhs, s, S, c, O
  <2> DEFINE I == lhs \o rhs
  <2>2. lhs \in Seq(ValueIds(plan)) /\ rhs \in Seq(ValueIds(plan)) /\ Len(lhs) = 1 /\ Len(rhs) = c
    BY <1>7, <1>8
  <2>3. I \in Seq(ValueIds(plan)) /\ DOMAIN I = 1 .. 1 + c /\ I[1] = lhs[1]
        /\ \A t \in 1 .. c : I[1 + t] = rhs[t] /\ 1 + t \in 1 .. 1 + c
    <3>1. Len(rhs) = c /\ Len(lhs) = 1
      BY <2>2
    <3>2. /\ I \in Seq(ValueIds(plan)) /\ DOMAIN I = 1 .. 1 + Len(rhs) /\ I[1] = lhs[1]
          /\ \A t \in 1 .. Len(rhs) : I[1 + t] = rhs[t] /\ 1 + t \in 1 .. 1 + Len(rhs)
      BY <2>2, Prefixed
    <3> HIDE DEF I
    <3> QED BY <3>1, <3>2
  <2>4. ASSUME NEW t \in DOMAIN I PROVE t = 1 \/ (t - 1 \in 1 .. c /\ I[t] = rhs[t - 1])
    <3>1. t \in 1 .. 1 + c
      BY <2>3
    <3>2. t # 1 => t - 1 \in 1 .. c /\ 1 + (t - 1) = t
      BY <1>1, <3>1
    <3> HIDE DEF I
    <3> QED BY <2>3, <3>2
  <2> HIDE DEF I
  <2>5. ASSUME NEW t \in DOMAIN I PROVE I[t] \in Used(plan, S)
    BY <1>7, <1>8, <2>3, <2>4
  <2>8. Elements(I) \subseteq Used(plan, S)
    BY <2>5 DEF Elements
  <2>6. 1 \in DOMAIN I
    BY <1>1, <2>3
  <2>7. ASSUME NEW v \in Used(plan, S) PROVE v \in Elements(I)
    <3>1. PICK k \in S : v \in Operands(plan, k)
      BY DEF Used
    <3>2. CASE v = plan.instructions[a].inputs[1]
      BY <1>7, <2>3, <2>6, <3>2 DEF Elements
    <3>3. CASE v = plan.instructions[k].inputs[2]
      BY <1>5, <2>1, <2>3, <3>3 DEF Elements
    <3> QED BY <1>3, <3>1, <3>2, <3>3
  <2> QED BY <1>2, <2>3, <2>7, <2>8 DEF I
<1>11. SafePlan(plan) => Used(plan, S) \cap Results(plan, S) = {}
  <2>1. SafePlan(plan) => \A j \in S : Operands(plan, j) \cap {ResultId(plan, k) : k \in S} = {}
    BY DEF SafePlan
  <2> QED BY <2>1 DEF Used, Results
<1>12. \A k \in S : ~TakesOver(plan, k)
  BY DEF TakesOver, UpdatesInPlace
<1>13. releaseValuesAfter(plan, S) \subseteq Dead(plan, b)
  BY ReleasedAreDead
<1>14. FusedOutputs(plan, S) \subseteq Results(plan, S)
  BY DEF FusedOutputs, Results
<1> HIDE DEF s, O, S, lhs, rhs, c
<1>15. StepFits(plan, a, b, s)
  BY <1>2, <1>9, <1>10, <1>11, <1>12, <1>13, <1>14 DEF StepFits, S
<1> QED BY <1>15 DEF s, S
----------------------------------------------------------------------------
(* The steps s stand for the nodes i .. j: step t for f[t] .. l[t].  Only     *)
(* constants have no step.                                                 *)

Covers(plan, i, j, s, f, l) ==
  /\ s \in Seq(Elements(s))
  /\ f \in [DOMAIN s -> Nodes(plan)] /\ l \in [DOMAIN s -> Nodes(plan)]
  /\ \A t \in DOMAIN s :
       /\ i <= f[t] /\ f[t] <= l[t] /\ l[t] <= j
       /\ StepFits(plan, f[t], l[t], s[t])
       /\ \A k \in f[t] .. l[t] : Kind(plan, k) # "constant"
  /\ \A t, u \in DOMAIN s : t < u => l[t] < f[u]
  /\ \A k \in i .. j : Kind(plan, k) # "constant" => \E t \in DOMAIN s : k \in f[t] .. l[t]

LEMMA OneStepCovers ==
  ASSUME NEW plan, NEW a \in Nodes(plan), NEW b \in Nodes(plan), a <= b, Verified(plan),
         NEW s, StepFits(plan, a, b, s), \A k \in a .. b : Kind(plan, k) # "constant"
  PROVE  \E f, l : Covers(plan, a, b, <<s>>, f, l)
<1> DEFINE f == [t \in 1 .. 1 |-> a]
           l == [t \in 1 .. 1 |-> b]
<1>1. a \in Nat /\ b \in Nat
  BY Numbers
<1>2. <<s>> \in Seq(Elements(<<s>>)) /\ DOMAIN <<s>> = 1 .. 1 /\ <<s>>[1] = s
  BY DEF Elements
<1>3. \A t \in 1 .. 1 : t = 1 /\ f[t] = a /\ l[t] = b
  OBVIOUS
<1>4. f \in [1 .. 1 -> Nodes(plan)] /\ l \in [1 .. 1 -> Nodes(plan)]
  OBVIOUS
<1> HIDE DEF f, l
<1>5. Covers(plan, a, b, <<s>>, f, l)
  BY <1>1, <1>2, <1>3, <1>4 DEF Covers
<1> QED BY <1>5

LEMMA ConstantCovers ==
  ASSUME NEW plan, NEW a \in Nodes(plan), Verified(plan), Kind(plan, a) = "constant"
  PROVE  \E f, l : Covers(plan, a, a, <<>>, f, l)
<1>1. a \in Nat /\ a .. a = {a}
  BY Numbers
<1>2. <<>> \in Seq(Elements(<<>>)) /\ DOMAIN <<>> = {} /\ <<>> \in [{} -> Nodes(plan)]
  OBVIOUS
<1>3. Covers(plan, a, a, <<>>, <<>>, <<>>)
  BY <1>1, <1>2 DEF Covers
<1> QED BY <1>3

LEMMA CoversJoin ==
  ASSUME NEW plan, Verified(plan), NEW i \in Nat, NEW j \in Nat, NEW n \in Nat, i <= j, j <= n,
         NEW s, NEW f, NEW l, Covers(plan, i, j, s, f, l),
         NEW r, NEW g, NEW m, Covers(plan, j + 1, n, r, g, m)
  PROVE  \E h, o : Covers(plan, i, n, s \o r, h, o)
<1> DEFINE c == Len(s)
           d == Len(r)
           q == s \o r
           h == [t \in 1 .. c + d |-> IF t <= c THEN f[t] ELSE g[t - c]]
           o == [t \in 1 .. c + d |-> IF t <= c THEN l[t] ELSE m[t - c]]
<1>1. s \in Seq(Elements(s) \cup Elements(r)) /\ r \in Seq(Elements(s) \cup Elements(r))
  <2>1. s \in Seq(Elements(s)) /\ r \in Seq(Elements(r))
    BY DEF Covers
  <2> QED BY <2>1, SubsetSequence
<1>2. /\ q \in Seq(Elements(s) \cup Elements(r)) /\ DOMAIN q = 1 .. c + d /\ c \in Nat /\ d \in Nat
      /\ DOMAIN s = 1 .. c /\ DOMAIN r = 1 .. d
      /\ \A t \in 1 .. c : q[t] = s[t]
      /\ \A t \in 1 .. d : q[c + t] = r[t]
  BY <1>1, Concatenation
<1> HIDE DEF c, d, q
<1>3. q \in Seq(Elements(q))
  <2>1. \A k \in DOMAIN q : q[k] \in Elements(q)
    BY DEF Elements
  <2> QED BY <1>2, <2>1, TypedSequence
<1>4. /\ \A t \in 1 .. c : t \in 1 .. c + d /\ h[t] = f[t] /\ o[t] = l[t] /\ h[t] \in Nodes(plan) /\ o[t] \in Nodes(plan)
      /\ \A t \in 1 .. d : c + t \in 1 .. c + d /\ h[c + t] = g[t] /\ o[c + t] = m[t]
                           /\ h[c + t] \in Nodes(plan) /\ o[c + t] \in Nodes(plan)
  <2>1. f \in [1 .. c -> Nodes(plan)] /\ l \in [1 .. c -> Nodes(plan)] /\ g \in [1 .. d -> Nodes(plan)] /\ m \in [1 .. d -> Nodes(plan)]
    BY <1>2 DEF Covers
  <2>2. ASSUME NEW t \in 1 .. d
        PROVE  /\ c + t \in 1 .. c + d /\ h[c + t] = g[t] /\ o[c + t] = m[t]
               /\ h[c + t] \in Nodes(plan) /\ o[c + t] \in Nodes(plan)
    <3>1. c + t \in 1 .. c + d /\ ~(c + t <= c) /\ (c + t) - c = t
      BY <1>2
    <3>2. h[c + t] = g[t] /\ o[c + t] = m[t]
      BY <3>1
    <3> HIDE DEF h, o
    <3> QED BY <2>1, <3>1, <3>2
  <2>3. ASSUME NEW t \in 1 .. c
        PROVE  t \in 1 .. c + d /\ h[t] = f[t] /\ o[t] = l[t] /\ h[t] \in Nodes(plan) /\ o[t] \in Nodes(plan)
    <3>1. t \in 1 .. c + d /\ t <= c
      BY <1>2
    <3>2. h[t] = f[t] /\ o[t] = l[t]
      BY <3>1
    <3> HIDE DEF h, o
    <3> QED BY <2>1, <3>1, <3>2
  <2> HIDE DEF h, o
  <2> QED BY <2>2, <2>3
<1>5. DOMAIN h = 1 .. c + d /\ DOMAIN o = 1 .. c + d /\ h = [t \in 1 .. c + d |-> h[t]] /\ o = [t \in 1 .. c + d |-> o[t]]
  OBVIOUS
<1> HIDE DEF h, o
<1>6. ASSUME NEW t \in 1 .. c + d PROVE t \in 1 .. c \/ \E u \in 1 .. d : t = c + u
  <2>1. CASE t <= c
    BY <1>2, <2>1
  <2>2. CASE ~(t <= c)
    <3>1. t - c \in 1 .. d /\ t = c + (t - c)
      BY <1>2, <2>2
    <3> QED BY <3>1
  <2> QED BY <2>1, <2>2
<1>7. h \in [1 .. c + d -> Nodes(plan)] /\ o \in [1 .. c + d -> Nodes(plan)]
  BY <1>4, <1>5, <1>6
<1>8. ASSUME NEW t \in 1 .. c + d
      PROVE  /\ i <= h[t] /\ h[t] <= o[t] /\ o[t] <= n
             /\ StepFits(plan, h[t], o[t], q[t])
             /\ \A k \in h[t] .. o[t] : Kind(plan, k) # "constant"
             /\ t \in 1 .. c => o[t] <= j
             /\ t \notin 1 .. c => j + 1 <= h[t]
  <2>1. h[t] \in Nat /\ o[t] \in Nat
    BY <1>7, Numbers
  <2>2. CASE t \in 1 .. c
    <3>1. i <= h[t] /\ h[t] <= o[t] /\ o[t] <= j /\ StepFits(plan, h[t], o[t], q[t])
          /\ \A k \in h[t] .. o[t] : Kind(plan, k) # "constant"
      BY <1>2, <1>4, <2>2 DEF Covers
    <3> QED BY <2>1, <2>2, <3>1
  <2>3. CASE t \notin 1 .. c
    <3>1. PICK u \in 1 .. d : t = c + u
      BY <1>6, <2>3
    <3>2. j + 1 <= h[t] /\ h[t] <= o[t] /\ o[t] <= n /\ StepFits(plan, h[t], o[t], q[t])
          /\ \A k \in h[t] .. o[t] : Kind(plan, k) # "constant"
      <4>1. h[t] = g[u] /\ o[t] = m[u] /\ q[t] = r[u]
        BY <1>2, <1>4, <3>1
      <4>2. j + 1 <= g[u] /\ g[u] <= m[u] /\ m[u] <= n /\ StepFits(plan, g[u], m[u], r[u])
            /\ \A k \in g[u] .. m[u] : Kind(plan, k) # "constant"
        BY <1>2 DEF Covers
      <4> QED BY <4>1, <4>2
    <3>3. i <= h[t]
      BY <2>1, <3>2
    <3> QED BY <2>3, <3>2, <3>3
  <2> QED BY <2>2, <2>3
<1>9. ASSUME NEW t \in 1 .. c + d, NEW u \in 1 .. c + d, t < u PROVE o[t] < h[u]
  <2>1. h[u] \in Nat /\ o[t] \in Nat
    BY <1>7, Numbers
  <2>2. CASE u \in 1 .. c
    <3>1. t \in 1 .. c
      BY <1>2, <1>9, <2>2
    <3> QED BY <1>2, <1>4, <1>9, <2>2, <3>1 DEF Covers
  <2>3. CASE u \notin 1 .. c /\ t \in 1 .. c
    BY <1>8, <2>1, <2>3
  <2>4. CASE u \notin 1 .. c /\ t \notin 1 .. c
    <3>1. PICK x \in 1 .. d : t = c + x
      BY <1>6, <2>4
    <3>2. PICK y \in 1 .. d : u = c + y
      BY <1>6, <2>4
    <3>3. x < y
      BY <1>2, <1>9, <3>1, <3>2
    <3>4. m[x] < g[y]
      BY <1>2, <3>3 DEF Covers
    <3> QED BY <1>4, <3>1, <3>2, <3>4
  <2> QED BY <2>2, <2>3, <2>4
<1>10. ASSUME NEW k \in i .. n, Kind(plan, k) # "constant" PROVE \E t \in 1 .. c + d : k \in h[t] .. o[t]
  <2>1. CASE k \in i .. j
    <3>1. PICK t \in 1 .. c : k \in f[t] .. l[t]
      BY <1>2, <1>10, <2>1 DEF Covers
    <3> QED BY <1>4, <3>1
  <2>2. CASE k \in j + 1 .. n
    <3>1. PICK t \in 1 .. d : k \in g[t] .. m[t]
      BY <1>2, <1>10, <2>2 DEF Covers
    <3>2. c + t \in 1 .. c + d /\ k \in h[c + t] .. o[c + t]
      BY <1>4, <3>1
    <3> QED BY <3>2
  <2> QED BY <2>1, <2>2
<1>11. Covers(plan, i, n, q, h, o)
  BY <1>2, <1>3, <1>7, <1>8, <1>9, <1>10 DEF Covers
<1> QED BY <1>11 DEF q

(* Without dead code, something leaves any nodes taken together.           *)
LEMMA SomethingEscapes ==
  ASSUME NEW plan, Verified(plan), NoDeadCode(plan), NEW a \in Nodes(plan), NEW b \in Nodes(plan), a <= b
  PROVE  FusedOutputs(plan, a .. b) # {}
<1> DEFINE v == ResultId(plan, b)
<1>1. a \in Nat /\ b \in Nat /\ b \in a .. b /\ plan.params \in Nat
  BY Numbers, PlanShape
<1>2. is_output(plan, v) \/ last_use_node(plan, v) \notin (a .. b) \cup {0}
  <2> SUFFICES ASSUME ~is_output(plan, v) PROVE last_use_node(plan, v) \notin (a .. b) \cup {0}
    OBVIOUS
  <2>1. PICK u \in Nodes(plan) : v \in Operands(plan, u)
    BY DEF NoDeadCode, Uses
  <2>2. v < ResultId(plan, u) /\ u \in Nat /\ v = plan.params + b /\ ResultId(plan, u) = plan.params + u
    BY <2>1, Numbers
  <2>3. b < u
    BY <1>1, <2>2
  <2>4. u <= last_use_node(plan, v) /\ last_use_node(plan, v) \in 0 .. Size(plan) /\ Size(plan) \in Nat
    BY <2>1, LastUse, PlanShape
  <2> QED BY <1>1, <2>2, <2>3, <2>4
<1> QED BY <1>1, <1>2 DEF FusedOutputs, valueEscapesNodes

(* A fusion group that nothing leaves: one step for each of its nodes.      *)
LEMMA DeadGroupCovers ==
  ASSUME NEW plan, Verified(plan), NEW a \in Nodes(plan), NEW b \in Nodes(plan), a <= b,
         \A k \in a .. b : programNodeFusible(Kind(plan, k)), FusedOutputs(plan, a .. b) = {}
  PROVE  \E f, l : Covers(plan, a, b, FusionSteps(plan, a .. b), f, l)
<1> DEFINE c == b - a + 1
           R(i) == IF i = b THEN releaseValuesAfter(plan, a .. b) ELSE {}
           s == [k \in 1 .. c |-> makeStep(plan, a + k - 1, R(a + k - 1))]
           f == [k \in 1 .. c |-> a + k - 1]
<1>1. a \in Nat /\ b \in Nat /\ a .. b \subseteq Nodes(plan)
  <2>1. a \in Nat /\ b \in Nat
    BY Numbers
  <2> QED BY <2>1, PlanShape
<1>2. c \in Nat /\ Min(a .. b) = a /\ Max(a .. b) = b /\ Cardinality(a .. b) = c
  <2>1. b - a + 1 \in Nat
    BY <1>1
  <2> QED BY <1>1, <2>1, IntervalBounds
<1>3. FusionSteps(plan, a .. b) = s
  BY <1>2 DEF FusionSteps
<1>4. ASSUME NEW k \in 1 .. c PROVE a + k - 1 \in a .. b
  BY <1>1
<1>5. ASSUME NEW i \in a .. b PROVE Kind(plan, i) # "constant" /\ StepFits(plan, i, i, makeStep(plan, i, R(i)))
  <2>1. Kind(plan, i) # "constant" /\ Kind(plan, i) # "update" /\ i \in Nodes(plan)
    BY <1>1 DEF programNodeFusible
  <2>2. ~NoDeadCode(plan)
    BY SomethingEscapes
  <2>3. R(i) \subseteq Dead(plan, i)
    BY ReleasedAreDead
  <2> HIDE DEF R
  <2> QED BY <2>1, <2>2, <2>3, NodeFits
<1> HIDE DEF R
<1>6. \A i \in a .. b : i - a + 1 \in 1 .. c /\ a + (i - a + 1) - 1 = i
  BY <1>1
<1>7. \A k, m \in 1 .. c : k < m => a + k - 1 < a + m - 1
  BY <1>1, <1>2
<1>8. \A i \in a .. b : i \in Nat /\ a <= i /\ i <= b /\ i .. i = {i}
  BY <1>1
<1> HIDE DEF c
<1>9. \A k \in 1 .. c : s[k] = makeStep(plan, a + k - 1, R(a + k - 1)) /\ f[k] = a + k - 1
  OBVIOUS
<1>10. DOMAIN s = 1 .. c /\ s \in Seq(Elements(s)) /\ DOMAIN f = 1 .. c /\ f = [k \in 1 .. c |-> f[k]]
  <2>1. s = [k \in 1 .. c |-> s[k]]
    OBVIOUS
  <2> HIDE DEF s
  <2>2. DOMAIN s = 1 .. c /\ \A k \in 1 .. c : s[k] \in Elements(s)
    BY <2>1 DEF Elements
  <2>3. s \in [1 .. c -> Elements(s)]
    BY <2>1, <2>2
  <2> QED BY <1>2, <2>2, <2>3
<1> HIDE DEF s, f
<1>11. f \in [1 .. c -> Nodes(plan)]
  BY <1>1, <1>4, <1>9, <1>10
<1>12. ASSUME NEW t \in 1 .. c
       PROVE  /\ a <= f[t] /\ f[t] <= f[t] /\ f[t] <= b
              /\ StepFits(plan, f[t], f[t], s[t])
              /\ \A k \in f[t] .. f[t] : Kind(plan, k) # "constant"
  <2>1. f[t] \in a .. b /\ f[t] = a + t - 1 /\ s[t] = makeStep(plan, f[t], R(f[t]))
    BY <1>4, <1>9
  <2>2. f[t] \in Nat /\ a <= f[t] /\ f[t] <= b /\ f[t] .. f[t] = {f[t]}
    BY <1>8, <2>1
  <2> QED BY <1>5, <2>1, <2>2
<1>13. ASSUME NEW k \in a .. b PROVE \E t \in 1 .. c : k \in f[t] .. f[t]
  <2>1. k - a + 1 \in 1 .. c /\ f[k - a + 1] = k
    BY <1>6, <1>9
  <2> QED BY <1>8, <2>1
<1>14. Covers(plan, a, b, s, f, f)
  BY <1>7, <1>9, <1>10, <1>11, <1>12, <1>13 DEF Covers
<1> QED BY <1>3, <1>14

LEMMA StepsCover ==
  ASSUME NEW plan, Verified(plan), NEW i \in Nodes(plan)
  PROVE  /\ Max(NodesFrom(plan, i)) \in i .. Size(plan)
         /\ \E f, l : Covers(plan, i, Max(NodesFrom(plan, i)), StepsOf(plan, i), f, l)
<1>1. i \in Nat /\ i \in i .. Size(plan) /\ Size(plan) \in Nat /\ i .. i = {i}
  <2>1. i \in Nat /\ 1 <= i /\ i <= Size(plan) /\ Size(plan) \in Nat
    BY Numbers, PlanShape
  <2> QED BY <2>1
<1>2. \A j \in i .. Size(plan) : j \in Nodes(plan) /\ i <= j /\ Max(i .. j) = j
  <2>1. \A j \in i .. Size(plan) : j \in 1 .. Size(plan) /\ j \in Nat /\ i <= j
    BY <1>1, Numbers
  <2> QED BY <1>1, <2>1, PlanShape, IntervalBounds
<1>3. CASE dotGroupAt(plan, i) # {}
  <2>1. PICK j \in i .. Size(plan) :
           /\ dotGroupAt(plan, i) = i .. j /\ i < j
           /\ \A k \in i .. j : Kind(plan, k) = "dot" /\ plan.instructions[k].inputs[1] = plan.instructions[i].inputs[1]
    BY <1>3, DotGroupIs
  <2>2. j \in Nodes(plan) /\ i <= j /\ Max(i .. j) = j
    BY <1>2
  <2>3. StepFits(plan, i, j, makeGroupStep(plan, i .. j))
    BY <2>1, <2>2, GroupFits
  <2>4. \E f, l : Covers(plan, i, j, <<makeGroupStep(plan, i .. j)>>, f, l)
    BY <2>1, <2>2, <2>3, OneStepCovers
  <2>5. NodesFrom(plan, i) = i .. j /\ StepsOf(plan, i) = <<makeGroupStep(plan, i .. j)>>
    BY <1>3, <2>1 DEF NodesFrom, StepsOf
  <2> QED BY <2>2, <2>4, <2>5
<1>4. CASE dotGroupAt(plan, i) = {} /\ fusionSegmentAt(plan, i) # {}
  <2>1. PICK j \in i .. Size(plan) :
           fusionSegmentAt(plan, i) = i .. j /\ \A k \in i .. j : programNodeFusible(Kind(plan, k))
    BY <1>4, FusionSegmentIs
  <2>2. j \in Nodes(plan) /\ i <= j /\ Max(i .. j) = j
    BY <1>2
  <2>3. NodesFrom(plan, i) = i .. j /\ StepsOf(plan, i) = FusionSteps(plan, i .. j)
    BY <1>4, <2>1 DEF NodesFrom, StepsOf
  <2>4. \A k \in i .. j : Kind(plan, k) # "constant"
    BY <2>1 DEF programNodeFusible
  <2>5. CASE FusedOutputs(plan, i .. j) = {}
    BY <2>1, <2>2, <2>3, <2>5, DeadGroupCovers
  <2>6. CASE FusedOutputs(plan, i .. j) # {}
    <3> DEFINE x == GraphStep(plan, i .. j, Ascending(FusedInputs(plan, i .. j)), Ascending(FusedOutputs(plan, i .. j)),
                         releaseValuesAfter(plan, i .. j))
    <3>1. FusionSteps(plan, i .. j) = <<x>>
      BY <2>6 DEF FusionSteps
    <3>2. StepFits(plan, i, j, x)
      BY <2>1, <2>2, <2>6, FusedFits
    <3> HIDE DEF x
    <3>3. \E f, l : Covers(plan, i, j, <<x>>, f, l)
      BY <2>2, <2>4, <3>2, OneStepCovers
    <3> QED BY <2>2, <2>3, <3>1, <3>3
  <2> QED BY <2>5, <2>6
<1>5. CASE dotGroupAt(plan, i) = {} /\ fusionSegmentAt(plan, i) = {}
  <2>1. NodesFrom(plan, i) = {i} /\ StepsOf(plan, i) = appendInstructionStep(plan, i, releaseValuesAfter(plan, {i}))
    BY <1>5 DEF NodesFrom, StepsOf
  <2>2. Max(NodesFrom(plan, i)) = i
    BY <1>1, <1>2, <2>1
  <2>3. CASE Kind(plan, i) = "constant"
    <3>1. StepsOf(plan, i) = <<>>
      BY <2>1, <2>3 DEF appendInstructionStep
    <3>2. \E f, l : Covers(plan, i, i, <<>>, f, l)
      BY <2>3, ConstantCovers
    <3> QED BY <1>1, <2>2, <3>1, <3>2
  <2>4. CASE Kind(plan, i) # "constant"
    <3> DEFINE x == makeStep(plan, i, releaseValuesAfter(plan, {i}))
    <3>1. StepsOf(plan, i) = <<x>>
      BY <2>1, <2>4 DEF appendInstructionStep
    <3>2. releaseValuesAfter(plan, {i}) \subseteq Dead(plan, i)
      <4>1. i <= i
        BY <1>1
      <4>2. releaseValuesAfter(plan, i .. i) \subseteq Dead(plan, i)
        BY <4>1, ReleasedAreDead
      <4> QED BY <1>1, <4>2
    <3>3. StepFits(plan, i, i, x)
      BY <2>4, <3>2, NodeFits
    <3> HIDE DEF x
    <3>4. \A k \in i .. i : Kind(plan, k) # "constant"
      BY <1>1, <2>4
    <3>5. \E f, l : Covers(plan, i, i, <<x>>, f, l)
      BY <1>1, <3>3, <3>4, OneStepCovers
    <3> QED BY <1>1, <2>2, <3>1, <3>5
  <2> QED BY <2>3, <2>4
<1> QED BY <1>3, <1>4, <1>5
----------------------------------------------------------------------------
(* The steps of a plan cover it.                                           *)

LoweredFrom(plan, g, i) ==
  IF i = Size(plan) + 1 THEN <<>> ELSE StepsOf(plan, i) \o g[Max(NodesFrom(plan, i)) + 1]

LEMMA LoweredStepsAre ==
  ASSUME NEW plan
  PROVE  LoweredSteps(plan) = (CHOOSE g : g = [i \in 1 .. Size(plan) + 1 |-> LoweredFrom(plan, g, i)])[1]
BY DEF LoweredSteps, LoweredFrom, Size

LoweredTail(plan, g, n) ==
  /\ g = [i \in 1 .. Size(plan) + 1 |-> g[i]]
  /\ \A i \in 1 .. Size(plan) + 1 : i + n > Size(plan) => g[i] = LoweredFrom(plan, g, i)

LEMMA LoweredTailExtends ==
  ASSUME NEW plan, Verified(plan), NEW n \in Nat, NEW g, LoweredTail(plan, g, n)
  PROVE  \E h : LoweredTail(plan, h, n + 1)
<1> DEFINE N == Size(plan)
           h == [i \in 1 .. N + 1 |-> IF i + n > N THEN g[i] ELSE LoweredFrom(plan, g, i)]
<1>1. N \in Nat /\ Nodes(plan) = 1 .. N
  BY PlanShape
<1>2. h = [i \in 1 .. N + 1 |-> h[i]] /\ \A i \in 1 .. N + 1 : i + n > N => h[i] = g[i]
  OBVIOUS
<1>3. ASSUME NEW i \in 1 .. N + 1 PROVE h[i] = LoweredFrom(plan, g, i)
  BY DEF LoweredTail
<1> HIDE DEF h, N
<1>4. ASSUME NEW i \in 1 .. N + 1, i + (n + 1) > N PROVE LoweredFrom(plan, g, i) = LoweredFrom(plan, h, i)
  <2>1. CASE i = N + 1
    BY <2>1 DEF LoweredFrom, N
  <2>2. CASE i # N + 1
    <3> DEFINE j == Max(NodesFrom(plan, i)) + 1
    <3>1. i \in Nodes(plan) /\ i \in Nat
      BY <1>1, <2>2
    <3>2. Max(NodesFrom(plan, i)) \in i .. N
      BY <3>1, StepsCover DEF N
    <3>3. j \in 1 .. N + 1 /\ j + n > N
      <4> DEFINE m == Max(NodesFrom(plan, i))
      <4>1. m \in i .. N
        BY <3>2
      <4> HIDE DEF m
      <4>2. m + 1 \in 1 .. N + 1 /\ (m + 1) + n > N
        BY <1>1, <1>4, <3>1, <4>1
      <4> QED BY <4>2 DEF m
    <3>4. h[j] = g[j]
      BY <1>2, <3>3
    <3> QED BY <3>4 DEF LoweredFrom
  <2> QED BY <2>1, <2>2
<1>5. LoweredTail(plan, h, n + 1)
  BY <1>2, <1>3, <1>4 DEF LoweredTail, N
<1> QED BY <1>5

LEMMA LoweredExists ==
  ASSUME NEW plan, Verified(plan)
  PROVE  \E g : g = [i \in 1 .. Size(plan) + 1 |-> LoweredFrom(plan, g, i)]
<1> DEFINE N == Size(plan)
           Good == {n \in Nat : \E g : LoweredTail(plan, g, n)}
<1>1. N \in Nat
  BY PlanShape
<1>2. \E g : LoweredTail(plan, g, 0)
  <2> DEFINE g == [i \in 1 .. N + 1 |-> <<>>]
  <2>1. g = [i \in 1 .. N + 1 |-> g[i]] /\ \A i \in 1 .. N + 1 : g[i] = <<>>
    OBVIOUS
  <2> HIDE DEF g
  <2>2. \A i \in 1 .. N + 1 : i + 0 > N => i = N + 1
    BY <1>1
  <2>3. LoweredTail(plan, g, 0)
    BY <2>1, <2>2 DEF LoweredTail, LoweredFrom
  <2> QED BY <2>3
<1>3. ASSUME NEW n \in Nat, \A m \in Nat : m < n => m \in Good PROVE n \in Good
  <2>1. CASE n = 0
    BY <1>2, <2>1
  <2>2. CASE n # 0
    <3>1. n - 1 \in Nat /\ n - 1 < n /\ (n - 1) + 1 = n
      BY <2>2
    <3>2. PICK g : LoweredTail(plan, g, n - 1)
      BY <1>3, <3>1
    <3>3. \E h : LoweredTail(plan, h, (n - 1) + 1)
      BY <3>1, <3>2, LoweredTailExtends
    <3> QED BY <3>1, <3>3
  <2> QED BY <2>1, <2>2
<1> HIDE DEF Good
<1>4. N \in Good
  BY <1>1, <1>3, NumberInduction
<1>5. PICK g : LoweredTail(plan, g, N)
  BY <1>4 DEF Good
<1>6. \A i \in 1 .. N + 1 : i + N > N
  BY <1>1
<1>7. g = [i \in 1 .. N + 1 |-> LoweredFrom(plan, g, i)]
  BY <1>5, <1>6 DEF LoweredTail
<1> QED BY <1>7

LEMMA PlanCovered ==
  ASSUME NEW plan, Verified(plan)
  PROVE  \E f, l : Covers(plan, 1, Size(plan), LoweredSteps(plan), f, l)
<1> DEFINE N == Size(plan)
           from == CHOOSE g : g = [i \in 1 .. N + 1 |-> LoweredFrom(plan, g, i)]
           Good == {n \in Nat : \A i \in 1 .. N + 1 : i + n = N + 1 => \E f, l : Covers(plan, i, N, from[i], f, l)}
<1>1. N \in Nat /\ Nodes(plan) = 1 .. N
  BY PlanShape
<1>2. from = [i \in 1 .. N + 1 |-> LoweredFrom(plan, from, i)] /\ LoweredSteps(plan) = from[1]
  BY LoweredExists, LoweredStepsAre
<1> HIDE DEF from, N
<1>3. ASSUME NEW n \in Nat, \A m \in Nat : m < n => m \in Good, NEW i \in 1 .. N + 1, i + n = N + 1
      PROVE  \E f, l : Covers(plan, i, N, from[i], f, l)
  <2>1. i \in Nat /\ 1 <= i
    BY <1>1
  <2>2. from[i] = LoweredFrom(plan, from, i)
    BY <1>2
  <2>3. CASE i = N + 1
    <3>1. from[i] = <<>>
      BY <2>2, <2>3 DEF LoweredFrom, N
    <3>2. <<>> \in Seq(Elements(<<>>)) /\ DOMAIN <<>> = {} /\ <<>> \in [{} -> Nodes(plan)]
      OBVIOUS
    <3>3. i .. N = {}
      BY <1>1, <2>3
    <3>4. Covers(plan, i, N, <<>>, <<>>, <<>>)
      BY <3>2, <3>3 DEF Covers
    <3> QED BY <3>1, <3>4
  <2>4. CASE i # N + 1
    <3>1. i \in Nodes(plan)
      BY <1>1, <2>4
    <3>2. PICK j \in i .. N : j = Max(NodesFrom(plan, i)) /\ \E f, l : Covers(plan, i, j, StepsOf(plan, i), f, l)
      BY <3>1, StepsCover DEF N
    <3>3. /\ j \in Nat /\ i <= j /\ j <= N /\ j + 1 \in 1 .. N + 1
          /\ N - j \in Nat /\ N - j < n /\ (j + 1) + (N - j) = N + 1
      BY <1>1, <1>3, <2>1, <3>2
    <3>4. PICK g, m : Covers(plan, j + 1, N, from[j + 1], g, m)
      BY <1>3, <3>3
    <3>5. PICK f, l : Covers(plan, i, j, StepsOf(plan, i), f, l)
      BY <3>2
    <3>6. \E h, o : Covers(plan, i, N, StepsOf(plan, i) \o from[j + 1], h, o)
      BY <1>1, <2>1, <3>3, <3>4, <3>5, CoversJoin
    <3>7. from[i] = StepsOf(plan, i) \o from[j + 1]
      BY <2>2, <2>4, <3>2 DEF LoweredFrom, N
    <3> QED BY <3>6, <3>7
  <2> QED BY <2>3, <2>4
<1>4. \A n \in Nat : (\A m \in Nat : m < n => m \in Good) => n \in Good
  BY <1>3
<1> HIDE DEF Good
<1>5. N \in Good /\ 1 \in 1 .. N + 1 /\ 1 + N = N + 1
  BY <1>1, <1>4, NumberInduction
<1>6. \E f, l : Covers(plan, 1, N, from[1], f, l)
  BY <1>5 DEF Good
<1> QED BY <1>2, <1>6 DEF N
----------------------------------------------------------------------------
(* Requests: what the steps of a plan define, need and release.             *)

Covering(plan, f, l) == Covers(plan, 1, Size(plan), LoweredSteps(plan), f, l)
ConstantIds(plan) == {ResultId(plan, i) : i \in {j \in Nodes(plan) : Kind(plan, j) = "constant"}}
Known(plan) == 1 .. plan.params \cup ConstantIds(plan)

LEMMA StepAt ==
  ASSUME NEW plan, Verified(plan), NEW f, NEW l, Covering(plan, f, l), NEW t \in DOMAIN LoweredSteps(plan)
  PROVE  /\ f[t] \in Nodes(plan) /\ l[t] \in Nodes(plan) /\ f[t] \in Nat /\ l[t] \in Nat /\ f[t] <= l[t]
         /\ f[t] .. l[t] \subseteq Nodes(plan)
         /\ StepFits(plan, f[t], l[t], LoweredSteps(plan)[t])
         /\ \A k \in f[t] .. l[t] : Kind(plan, k) # "constant" /\ k \in Nat /\ ResultId(plan, k) \in ValueIds(plan) \ Known(plan)
<1>1. f[t] \in Nodes(plan) /\ l[t] \in Nodes(plan) /\ f[t] <= l[t] /\ StepFits(plan, f[t], l[t], LoweredSteps(plan)[t])
      /\ \A k \in f[t] .. l[t] : Kind(plan, k) # "constant"
  BY DEF Covering, Covers
<1>2. f[t] \in Nat /\ l[t] \in Nat
  BY <1>1, Numbers
<1>3. f[t] .. l[t] \subseteq Nodes(plan)
  BY <1>1, <1>2, PlanShape
<1>4. ASSUME NEW k \in f[t] .. l[t] PROVE k \in Nat /\ ResultId(plan, k) \in ValueIds(plan) \ Known(plan)
  <2>1. k \in Nodes(plan) /\ Kind(plan, k) # "constant"
    BY <1>1, <1>3
  <2>2. k \in Nat /\ 1 <= k /\ ResultId(plan, k) = plan.params + k /\ ResultId(plan, k) \in ValueIds(plan) /\ plan.params \in Nat
    BY <2>1, Numbers, PlanShape
  <2>3. ResultId(plan, k) \notin 1 .. plan.params
    BY <2>2
  <2>4. \A i \in Nodes(plan) : i \in Nat /\ ResultId(plan, i) = plan.params + i
    BY Numbers
  <2>5. ResultId(plan, k) \notin ConstantIds(plan)
    BY <2>1, <2>2, <2>4 DEF ConstantIds
  <2> QED BY <2>2, <2>3, <2>5 DEF Known
<1> QED BY <1>1, <1>2, <1>3, <1>4

(* A node that is no constant has its step; the nodes of later steps are     *)
(* later.                                                                  *)
LEMMA StepOfNode ==
  ASSUME NEW plan, Verified(plan), NEW f, NEW l, Covering(plan, f, l), NEW k \in Nodes(plan), Kind(plan, k) # "constant"
  PROVE  \E t \in DOMAIN LoweredSteps(plan) : k \in f[t] .. l[t]
<1>1. k \in 1 .. Size(plan)
  BY PlanShape
<1> QED BY <1>1 DEF Covering, Covers

LEMMA StepsInOrder ==
  ASSUME NEW plan, Verified(plan), NEW f, NEW l, Covering(plan, f, l),
         NEW t \in DOMAIN LoweredSteps(plan), NEW u \in DOMAIN LoweredSteps(plan)
  PROVE  /\ t \in Nat /\ u \in Nat
         /\ t < u => l[t] < f[u]
         /\ \A j \in f[t] .. l[t], k \in f[u] .. l[u] : (t < u => j < k) /\ (j < k => t <= u) /\ (j = k => t = u)
<1>1. LoweredSteps(plan) \in Seq(Elements(LoweredSteps(plan)))
  BY DEF Covering, Covers
<1>2. t \in Nat /\ u \in Nat
  BY <1>1
<1>3. (t < u => l[t] < f[u]) /\ (u < t => l[u] < f[t])
  BY DEF Covering, Covers
<1>4. f[t] \in Nat /\ l[t] \in Nat /\ f[u] \in Nat /\ l[u] \in Nat
  BY StepAt
<1> QED BY <1>2, <1>3, <1>4

(* The results of the nodes of two steps are apart.                        *)
LEMMA ResultsApart ==
  ASSUME NEW plan, Verified(plan), NEW f, NEW l, Covering(plan, f, l),
         NEW t \in DOMAIN LoweredSteps(plan), NEW u \in DOMAIN LoweredSteps(plan), t # u
  PROVE  Results(plan, f[t] .. l[t]) \cap Results(plan, f[u] .. l[u]) = {}
<1>1. SUFFICES ASSUME NEW j \in f[t] .. l[t], NEW k \in f[u] .. l[u], ResultId(plan, j) = ResultId(plan, k) PROVE FALSE
  BY DEF Results
<1>2. j \in Nodes(plan) /\ k \in Nodes(plan)
  BY StepAt
<1>3. j \in Nat /\ k \in Nat /\ plan.params \in Nat /\ ResultId(plan, j) = plan.params + j /\ ResultId(plan, k) = plan.params + k
  BY <1>2, Numbers, PlanShape
<1>4. j = k
  <2> DEFINE p == plan.params
  <2>1. p + j = p + k
    BY <1>1, <1>3
  <2>2. p \in Nat /\ j \in Nat /\ k \in Nat
    BY <1>3
  <2> HIDE DEF p
  <2> QED BY <2>1, <2>2
<1> QED BY <1>1, <1>4, StepsInOrder

(* A value that a node after step t uses and that is no result of a later    *)
(* node is read by a later step; what a step reads, its nodes use.           *)
LEMMA ReadByLater ==
  ASSUME NEW plan, Verified(plan), NEW f, NEW l, Covering(plan, f, l), NEW t \in DOMAIN LoweredSteps(plan),
         NEW k \in Nodes(plan), NEW v \in Operands(plan, k), l[t] < k, v <= ResultId(plan, l[t])
  PROVE  \E u \in DOMAIN LoweredSteps(plan) : t < u /\ v \in Elements(LoweredSteps(plan)[u].inputs)
<1>1. Kind(plan, k) # "constant"
  BY PlanShape
<1>2. PICK u \in DOMAIN LoweredSteps(plan) : k \in f[u] .. l[u]
  BY <1>1, StepOfNode
<1>3. /\ l[t] \in f[t] .. l[t] /\ l[t] \in Nodes(plan) /\ l[t] \in Nat /\ k \in Nat
      /\ f[u] \in Nodes(plan) /\ f[u] \in Nat /\ l[u] \in Nat
  <2>1. l[t] \in Nodes(plan) /\ l[t] \in Nat /\ f[t] \in Nat /\ f[t] <= l[t] /\ f[u] \in Nodes(plan) /\ f[u] \in Nat /\ l[u] \in Nat
    BY StepAt
  <2> QED BY <2>1, Numbers
<1>4. t < u
  <2>1. t \in Nat /\ u \in Nat /\ t <= u /\ (t = u => k <= l[t])
    BY <1>2, <1>3, StepsInOrder
  <2> QED BY <1>3, <2>1
<1>5. v \in Used(plan, f[u] .. l[u])
  BY <1>2 DEF Used
<1>6. v \notin Results(plan, f[u] .. l[u])
  <2> SUFFICES ASSUME NEW j \in f[u] .. l[u], v = ResultId(plan, j) PROVE FALSE
    BY DEF Results
  <2>1. j \in Nodes(plan) /\ l[t] < j
    BY <1>3, <1>4, StepAt, StepsInOrder
  <2>2. ResultId(plan, j) = plan.params + j /\ ResultId(plan, l[t]) = plan.params + l[t] /\ plan.params \in Nat /\ j \in Nat
    BY <1>3, <2>1, Numbers, PlanShape
  <2> QED BY <1>3, <2>1, <2>2
<1>7. StepFits(plan, f[u], l[u], LoweredSteps(plan)[u])
  BY StepAt
<1>8. v \in Elements(LoweredSteps(plan)[u].inputs)
  BY <1>5, <1>6, <1>7 DEF StepFits
<1> QED BY <1>4, <1>8

LEMMA ReadIsUsed ==
  ASSUME NEW plan, Verified(plan), NEW f, NEW l, Covering(plan, f, l), NEW u \in DOMAIN LoweredSteps(plan),
         NEW v \in Elements(LoweredSteps(plan)[u].inputs)
  PROVE  \E k \in f[u] .. l[u] : k \in Nodes(plan) /\ v \in Operands(plan, k) /\ k <= last_use_node(plan, v)
<1>1. v \in Used(plan, f[u] .. l[u]) /\ f[u] .. l[u] \subseteq Nodes(plan)
  BY StepAt DEF StepFits
<1>2. PICK k \in f[u] .. l[u] : k \in Nodes(plan) /\ v \in Operands(plan, k)
  BY <1>1 DEF Used
<1> QED BY <1>2, LastUse

(* What is released after step t no later step reads, and no one else has.   *)
LEMMA DeadLater ==
  ASSUME NEW plan, Verified(plan), NEW f, NEW l, Covering(plan, f, l), NEW t \in DOMAIN LoweredSteps(plan),
         NEW v \in Dead(plan, l[t])
  PROVE  /\ v \in ValueIds(plan) \ Known(plan) /\ v \notin Range(plan.output_ids)
         /\ \A u \in DOMAIN LoweredSteps(plan) : t < u => v \notin Elements(LoweredSteps(plan)[u].inputs)
<1>1. v \in ValueIds(plan) /\ releasableValue(plan, v) /\ last_use_node(plan, v) <= l[t]
  BY DEF Dead
<1>2. v \notin Known(plan)
  <2>1. v > plan.params /\ v \in Nat /\ plan.params \in Nat
    BY <1>1, Numbers, PlanShape DEF releasableValue
  <2>2. ASSUME NEW i \in Nodes(plan), Kind(plan, i) = "constant", v = ResultId(plan, i) PROVE FALSE
    <3>1. producer_node(plan, v) = i
      BY <2>2, Numbers
    <3> QED BY <1>1, <2>2, <3>1 DEF releasableValue
  <2> QED BY <2>1, <2>2 DEF Known, ConstantIds
<1>3. ASSUME NEW u \in DOMAIN LoweredSteps(plan), t < u, v \in Elements(LoweredSteps(plan)[u].inputs) PROVE FALSE
  <2>1. PICK k \in f[u] .. l[u] : k \in Nodes(plan) /\ k <= last_use_node(plan, v)
    BY <1>3, ReadIsUsed
  <2>2. l[t] < f[u] /\ l[t] \in Nat /\ f[u] \in Nat /\ l[u] \in Nat
    BY <1>3, StepsInOrder, StepAt
  <2>3. last_use_node(plan, v) \in 0 .. Size(plan) /\ Size(plan) \in Nat
    BY LastUse, PlanShape
  <2> QED BY <1>1, <2>1, <2>2, <2>3
<1> QED BY <1>1, <1>2, <1>3 DEF releasableValue, is_output

(* What is not known from the start and leaves its nodes, to a later node or *)
(* as an output, is an output of the step of its node.                      *)
LEMMA Escapes ==
  ASSUME NEW plan, Verified(plan), NEW f, NEW l, Covering(plan, f, l), NEW v \in ValueIds(plan) \ Known(plan)
  PROVE  \E t \in DOMAIN LoweredSteps(plan) :
           /\ producer_node(plan, v) \in f[t] .. l[t]
           /\ (v \in Range(plan.output_ids) \/ \E k \in Nodes(plan) : v \in Operands(plan, k) /\ l[t] < k)
                => v \in Elements(LoweredSteps(plan)[t].outputs)
<1> DEFINE i == producer_node(plan, v)
<1>1. i \in Nodes(plan) /\ ResultId(plan, i) = v
  <2>1. plan.params \in Nat /\ v \in Nat /\ 1 <= v
    BY Numbers, PlanShape
  <2>2. v > plan.params
    BY <2>1 DEF Known
  <2> QED BY <2>2, Numbers
<1> HIDE DEF i
<1>2. Kind(plan, i) # "constant"
  BY <1>1 DEF Known, ConstantIds
<1>3. PICK t \in DOMAIN LoweredSteps(plan) : i \in f[t] .. l[t]
  BY <1>1, <1>2, StepOfNode
<1>4. ASSUME v \in Range(plan.output_ids) \/ \E k \in Nodes(plan) : v \in Operands(plan, k) /\ l[t] < k
      PROVE  v \in Elements(LoweredSteps(plan)[t].outputs)
  <2>1. valueEscapesNodes(plan, v, f[t] .. l[t])
    <3>1. CASE v \in Range(plan.output_ids)
      BY <3>1 DEF valueEscapesNodes, is_output
    <3>2. CASE v \notin Range(plan.output_ids)
      <4>1. PICK k \in Nodes(plan) : v \in Operands(plan, k) /\ l[t] < k
        BY <1>4, <3>2
      <4>2. k <= last_use_node(plan, v) /\ last_use_node(plan, v) \in 0 .. Size(plan) /\ Size(plan) \in Nat /\ k \in Nat
        BY <4>1, LastUse, PlanShape, Numbers
      <4>3. l[t] \in Nat /\ f[t] \in Nat
        BY StepAt
      <4>4. last_use_node(plan, v) \notin f[t] .. l[t] /\ last_use_node(plan, v) # 0
        BY <4>1, <4>2, <4>3
      <4> QED BY <4>4 DEF valueEscapesNodes
    <3> QED BY <3>1, <3>2
  <2>2. v \in FusedOutputs(plan, f[t] .. l[t])
    BY <1>1, <1>3, <2>1 DEF FusedOutputs
  <2> QED BY <2>2, StepAt DEF StepFits
<1> QED BY <1>3, <1>4 DEF i

LEMMA LowerIs ==
  ASSUME NEW plan
  PROVE  /\ Lower(plan).kind = "program" /\ Lower(plan).specs = [v \in ValueIds(plan) |-> plan.elements]
         /\ Lower(plan).params = plan.params /\ Lower(plan).outputs = plan.output_ids
         /\ Lower(plan).steps = LoweredSteps(plan) /\ Lower(plan).donated = {a.parameter : a \in plan.donations}
         /\ Lower(plan).meaning = Meaning(plan) /\ Lower(plan).root = Root(plan, LoweredSteps(plan))
         /\ (Lower(plan).safe => SafePlan(plan)) /\ (Lower(plan).compact => NoDeadCode(plan))
         /\ Lower(plan).inputs = [i \in 1 .. plan.params |-> i] \o Ascending(ConstantIds(plan))
BY DEF Lower, ConstantIds

LEMMA LoweredInputs ==
  ASSUME NEW plan, Verified(plan)
  PROVE  /\ Lower(plan).inputs \in Seq(ValueIds(plan)) /\ Injective(Lower(plan).inputs)
         /\ Elements(Lower(plan).inputs) = Known(plan) /\ Known(plan) \subseteq ValueIds(plan)
         /\ Parameters(Lower(plan)) = 1 .. plan.params
         /\ \A i \in 1 .. plan.params : Lower(plan).inputs[i] = i
<1> DEFINE p == plan.params
           n == p + Size(plan)
           C == ConstantIds(plan)
           s == [i \in 1 .. p |-> i]
           r == Ascending(C)
           q == s \o r
<1>1. p \in Nat /\ n \in Nat /\ ValueIds(plan) = 1 .. n /\ p <= n
  BY PlanShape
<1>2. C \in SUBSET (0 .. n) /\ C \subseteq ValueIds(plan) /\ \A v \in C : v \in Nat /\ p < v
  <2>1. \A i \in Nodes(plan) : ResultId(plan, i) \in ValueIds(plan) /\ ResultId(plan, i) = p + i /\ i \in Nat /\ 1 <= i
    BY Numbers
  <2>2. \A i \in Nodes(plan) : ResultId(plan, i) \in Nat /\ p < ResultId(plan, i)
    BY <1>1, <2>1
  <2> QED BY <1>1, <2>1, <2>2 DEF ConstantIds
<1> HIDE DEF C, n
<1>3. r \in Seq(C) /\ Elements(r) = C /\ \A j, k \in DOMAIN r : r[j] = r[k] => j = k
  BY <1>1, <1>2, AscendingIs
<1> HIDE DEF r
<1>4. s \in [1 .. p -> ValueIds(plan)] /\ \A i \in 1 .. p : s[i] = i
  <2>1. \A i \in 1 .. p : i \in ValueIds(plan)
    BY <1>1 DEF n
  <2> QED BY <2>1
<1> HIDE DEF s, p
<1>12. s \in Seq(ValueIds(plan)) /\ r \in Seq(ValueIds(plan)) /\ DOMAIN r = 1 .. Len(r)
  <2>1. s \in Seq(ValueIds(plan))
    BY <1>1, <1>4
  <2>2. r \in Seq(ValueIds(plan))
    BY <1>2, <1>3, SubsetSequence
  <2> QED BY <2>1, <2>2
<1>13. Len(s) = p
  BY <1>1, <1>4
<1>5. /\ q \in Seq(ValueIds(plan)) /\ DOMAIN q = 1 .. p + Len(r) /\ Len(r) \in Nat
      /\ \A t \in 1 .. p : q[t] = t
      /\ \A t \in 1 .. Len(r) : q[p + t] = r[t]
  <2>1. /\ q \in Seq(ValueIds(plan)) /\ DOMAIN q = 1 .. Len(s) + Len(r) /\ Len(r) \in Nat
        /\ \A t \in 1 .. Len(s) : q[t] = s[t]
        /\ \A t \in 1 .. Len(r) : q[Len(s) + t] = r[t]
    BY <1>12, Concatenation
  <2> HIDE DEF q
  <2> QED BY <1>4, <1>13, <2>1
<1> HIDE DEF q
<1>6. ASSUME NEW t \in DOMAIN q
      PROVE  \/ t \in 1 .. p /\ q[t] = t
             \/ \E u \in 1 .. Len(r) : t = p + u /\ q[t] = r[u] /\ r[u] \in C
  <2>1. CASE t <= p
    BY <1>1, <1>5, <2>1
  <2>2. CASE ~(t <= p)
    <3>1. t - p \in 1 .. Len(r) /\ t = p + (t - p)
      BY <1>1, <1>5, <2>2
    <3>2. r[t - p] \in C
      BY <1>3, <1>12, <3>1 DEF Elements
    <3> QED BY <1>5, <3>1, <3>2
  <2> QED BY <2>1, <2>2
<1>7. Elements(q) = 1 .. p \cup C
  <2>1. Elements(q) \subseteq 1 .. p \cup C
    BY <1>6 DEF Elements
  <2>2. ASSUME NEW v \in 1 .. p PROVE v \in Elements(q)
    <3>1. v \in DOMAIN q /\ q[v] = v
      BY <1>1, <1>5
    <3> QED BY <3>1 DEF Elements
  <2>3. ASSUME NEW v \in C PROVE v \in Elements(q)
    <3>1. PICK u \in 1 .. Len(r) : r[u] = v
      BY <1>3, <1>12 DEF Elements
    <3>2. p + u \in DOMAIN q /\ q[p + u] = v
      BY <1>1, <1>5, <3>1
    <3> QED BY <3>2 DEF Elements
  <2> QED BY <2>1, <2>2, <2>3
<1>8. Injective(q)
  <2> SUFFICES ASSUME NEW j \in DOMAIN q, NEW k \in DOMAIN q, q[j] = q[k] PROVE j = k
    BY DEF Injective
  <2>4. \A v \in C : v \notin 1 .. p
    BY <1>1, <1>2
  <2>1. CASE j \in 1 .. p /\ q[j] = j
    BY <1>6, <2>1, <2>4
  <2>2. CASE k \in 1 .. p /\ q[k] = k
    BY <1>6, <2>2, <2>4
  <2>3. CASE (\E u \in 1 .. Len(r) : j = p + u /\ q[j] = r[u]) /\ (\E u \in 1 .. Len(r) : k = p + u /\ q[k] = r[u])
    <3>1. PICK u \in 1 .. Len(r) : j = p + u /\ q[j] = r[u]
      BY <2>3
    <3>2. PICK w \in 1 .. Len(r) : k = p + w /\ q[k] = r[w]
      BY <2>3
    <3>3. u = w
      BY <1>3, <1>12, <3>1, <3>2
    <3> QED BY <3>1, <3>2, <3>3
  <2> QED BY <1>6, <2>1, <2>2, <2>3
<1>9. Lower(plan).inputs = q /\ Lower(plan).params = p
  BY LowerIs DEF q, s, r, C, p
<1>10. Parameters(Lower(plan)) = 1 .. p
  <2>1. Parameters(Lower(plan)) = {q[i] : i \in 1 .. p}
    BY <1>9 DEF Parameters
  <2> QED BY <1>5, <2>1
<1>11. Known(plan) = 1 .. p \cup C /\ 1 .. p \subseteq ValueIds(plan)
  <2>1. 1 .. p \subseteq 1 .. n
    BY <1>1 DEF n
  <2> QED BY <1>1, <2>1 DEF Known, p, C
<1> QED BY <1>2, <1>5, <1>7, <1>8, <1>9, <1>10, <1>11 DEF p

LEMMA LoweredAccepted ==
  ASSUME NEW plan, Verified(plan)
  PROVE  Accepted(Lower(plan))
<1> DEFINE r == Lower(plan)
<1>1. PICK f, l : Covering(plan, f, l)
  BY PlanCovered DEF Covering
<1>2. /\ r.kind = "program" /\ r.specs = [v \in ValueIds(plan) |-> plan.elements]
      /\ r.outputs = plan.output_ids /\ r.steps = LoweredSteps(plan)
  BY LowerIs
<1>3. r.inputs \in Seq(ValueIds(plan))
  BY LoweredInputs
<1> HIDE DEF r
<1>4. Values(r) = ValueIds(plan) /\ plan.elements \in 1 .. 2^30 /\ \A v \in Values(r) : r.specs[v] = plan.elements
  BY <1>2, PlanShape DEF Values
<1>5. plan.elements # 0
  <2>1. plan.elements \in 1 .. 2^30
    BY <1>4
  <2>2. \A e \in 1 .. 2^30 : e # 0
    OBVIOUS
  <2> QED BY <2>1, <2>2
<1>6. \A s \in Seq(ValueIds(plan)) : Elements(s) \subseteq ValueIds(plan)
  BY DEF Elements
<1>7. InRange(r, r.inputs) /\ InRange(r, r.outputs)
  BY <1>2, <1>3, <1>4, <1>6, PlanShape DEF InRange
<1>8. ASSUME NEW t \in DOMAIN r.steps PROVE StepAccepted(r, r.steps[t])
  <2> DEFINE s == r.steps[t]
             a == f[t]
  <2>1. StepFits(plan, f[t], l[t], s) /\ a \in Nodes(plan)
    BY <1>1, <1>2, <1>8, StepAt
  <2> HIDE DEF s
  <2>2. InRange(r, s.inputs) /\ InRange(r, s.outputs) /\ s.release \subseteq Values(r)
    <3>1. s.inputs \in Seq(ValueIds(plan)) /\ s.outputs \in Seq(ValueIds(plan)) /\ s.release \subseteq ValueIds(plan)
      BY <2>1 DEF StepFits, Dead
    <3> QED BY <1>4, <1>6, <3>1 DEF InRange
  <2>3. s.alias => Len(s.inputs) = 1 /\ Len(s.outputs) = 1 /\ s.in_place = 0
    <3> SUFFICES ASSUME s.alias PROVE Len(s.inputs) = 1 /\ Len(s.outputs) = 1 /\ s.in_place = 0
      OBVIOUS
    <3>1. Kind(plan, a) = "alias" /\ s.inputs = plan.instructions[a].inputs /\ s.outputs = <<ResultId(plan, a)>> /\ s.in_place = 0
      BY <2>1 DEF StepFits, OfNode
    <3> QED BY <2>1, <3>1, PlanShape
  <2>4. KernelAccepted(r, s, FALSE)
    <3>1. s.outputs # <<>> /\ s.elements = plan.elements
      BY <2>1 DEF StepFits
    <3> QED BY <1>4, <1>5, <2>2, <3>1 DEF KernelAccepted, InRange
  <2>5. s.in_place # 0 => ~s.alias /\ Len(s.outputs) = 1 /\ s.in_place \in DOMAIN s.inputs
    <3> SUFFICES ASSUME s.in_place # 0 PROVE ~s.alias /\ Len(s.outputs) = 1 /\ s.in_place \in DOMAIN s.inputs
      OBVIOUS
    <3>1. s.in_place = 1 /\ TakesOver(plan, a) /\ s.inputs = plan.instructions[a].inputs /\ s.outputs = <<ResultId(plan, a)>>
      BY <2>1 DEF StepFits, OfNode
    <3>2. Kind(plan, a) = "update"
      BY <3>1 DEF TakesOver, UpdatesInPlace
    <3>3. Len(s.inputs) = 2 /\ s.inputs \in Seq(Nat)
      BY <2>1, <3>1, <3>2, PlanShape
    <3>4. 1 \in DOMAIN s.inputs
      BY <3>3
    <3> QED BY <2>3, <3>1, <3>4
  <2>6. StepAccepted(r, s)
    BY <2>2, <2>3, <2>4, <2>5 DEF StepAccepted
  <2> QED BY <2>6 DEF s
<1>9. Accepted(r)
  BY <1>2, <1>4, <1>5, <1>7, <1>8 DEF Accepted
<1> QED BY <1>9 DEF r

(* The parts of a request that its schedule is about.                      *)
LEMMA LoweredParts ==
  ASSUME NEW plan, Verified(plan)
  PROVE  /\ Steps(Lower(plan)) = DOMAIN LoweredSteps(plan)
         /\ Elements(Lower(plan).outputs) = Range(plan.output_ids) /\ Range(plan.output_ids) \subseteq ValueIds(plan)
         /\ \A t : /\ Inputs(Lower(plan), t) = Elements(LoweredSteps(plan)[t].inputs)
                   /\ Outputs(Lower(plan), t) = Elements(LoweredSteps(plan)[t].outputs)
                   /\ Defined(Lower(plan), t) = Known(plan) \cup
                        UNION {Elements(LoweredSteps(plan)[u].outputs) : u \in {x \in DOMAIN LoweredSteps(plan) : x < t}}
                   /\ Needed(Lower(plan), t) = Range(plan.output_ids) \cup
                        UNION {Elements(LoweredSteps(plan)[u].inputs) : u \in {x \in DOMAIN LoweredSteps(plan) : x >= t}}
<1> DEFINE r == Lower(plan)
<1>1. r.steps = LoweredSteps(plan) /\ r.outputs = plan.output_ids
  BY LowerIs
<1>2. Elements(r.inputs) = Known(plan)
  BY LoweredInputs
<1> HIDE DEF r
<1>3. Steps(r) = DOMAIN LoweredSteps(plan)
  BY <1>1 DEF Steps
<1>4. \A t : Inputs(r, t) = Elements(LoweredSteps(plan)[t].inputs) /\ Outputs(r, t) = Elements(LoweredSteps(plan)[t].outputs)
  BY <1>1 DEF Inputs, Outputs
<1>5. Elements(r.outputs) = Range(plan.output_ids)
  BY <1>1 DEF Elements, Range
<1>6. Range(plan.output_ids) \subseteq ValueIds(plan)
  BY PlanShape DEF Range
<1>7. \A t : Defined(r, t) = Known(plan) \cup
               UNION {Elements(LoweredSteps(plan)[u].outputs) : u \in {x \in DOMAIN LoweredSteps(plan) : x < t}}
  BY <1>2, <1>3, <1>4 DEF Defined
<1>8. \A t : Needed(r, t) = Range(plan.output_ids) \cup
               UNION {Elements(LoweredSteps(plan)[u].inputs) : u \in {x \in DOMAIN LoweredSteps(plan) : x >= t}}
  BY <1>3, <1>4, <1>5 DEF Needed
<1> QED BY <1>3, <1>4, <1>5, <1>6, <1>7, <1>8 DEF r

LEMMA LoweredScheduled ==
  ASSUME NEW plan, Verified(plan), SafePlan(plan)
  PROVE  Scheduled(Lower(plan))
<1> DEFINE r == Lower(plan)
           s == LoweredSteps(plan)
<1>1. PICK f, l : Covering(plan, f, l)
  BY PlanCovered DEF Covering
<1>2. /\ Steps(r) = DOMAIN s /\ Elements(r.outputs) = Range(plan.output_ids) /\ Range(plan.output_ids) \subseteq ValueIds(plan)
      /\ \A t : /\ Inputs(r, t) = Elements(s[t].inputs)
                /\ Outputs(r, t) = Elements(s[t].outputs)
                /\ Defined(r, t) = Known(plan) \cup UNION {Elements(s[u].outputs) : u \in {x \in DOMAIN s : x < t}}
                /\ Needed(r, t) = Range(plan.output_ids) \cup UNION {Elements(s[u].inputs) : u \in {x \in DOMAIN s : x >= t}}
  BY LoweredParts
<1>3. r.steps = s /\ r.outputs = plan.output_ids /\ Elements(r.inputs) = Known(plan) /\ Injective(r.inputs)
  BY LowerIs, LoweredInputs
<1>4. Len(s) \in Nat /\ DOMAIN s = 1 .. Len(s)
  <2>1. s \in Seq(Elements(s))
    BY <1>1 DEF Covering, Covers
  <2> HIDE DEF s
  <2> QED BY <2>1
<1>5. \A t \in DOMAIN s : /\ f[t] \in Nodes(plan) /\ l[t] \in Nodes(plan) /\ f[t] \in Nat /\ l[t] \in Nat /\ f[t] <= l[t]
                          /\ f[t] .. l[t] \subseteq Nodes(plan) /\ StepFits(plan, f[t], l[t], s[t])
                          /\ \A k \in f[t] .. l[t] : k \in Nat /\ ResultId(plan, k) \in ValueIds(plan) \ Known(plan)
  BY <1>1, StepAt
<1>6. Injective(r.outputs)
  BY <1>3 DEF SafePlan, Injective, IsInjective
<1>7. ASSUME NEW v \in Range(plan.output_ids) PROVE v \in Defined(r, Len(s) + 1)
  <2>1. CASE v \in Known(plan)
    BY <1>2, <2>1
  <2>2. CASE v \notin Known(plan)
    <3>1. PICK t \in DOMAIN s : v \in Elements(s[t].outputs)
      BY <1>1, <1>2, <2>2, Escapes
    <3>2. t < Len(s) + 1
      BY <1>4
    <3> HIDE DEF r, s
    <3> QED BY <1>2, <3>1, <3>2
  <2> QED BY <2>1, <2>2
<1>8. ASSUME NEW t \in DOMAIN s
      PROVE  /\ Injective(s[t].outputs)
             /\ Inputs(r, t) \subseteq Defined(r, t)
             /\ Outputs(r, t) \cap Defined(r, t) = {}
             /\ s[t].release \cap (Needed(r, t + 1) \cup Elements(r.inputs)) = {}
  <2>1. Injective(s[t].outputs) /\ s[t].release \subseteq Dead(plan, l[t])
        /\ Elements(s[t].outputs) \subseteq Results(plan, f[t] .. l[t])
        /\ Elements(s[t].inputs) \subseteq Used(plan, f[t] .. l[t])
        /\ Elements(s[t].inputs) \cap Results(plan, f[t] .. l[t]) = {}
    BY <1>5 DEF StepFits
  <2>2. ASSUME NEW v \in Elements(s[t].inputs) PROVE v \in Defined(r, t)
    <3>1. PICK k \in f[t] .. l[t] : k \in Nodes(plan) /\ v \in Operands(plan, k)
      BY <1>5, <2>1 DEF Used
    <3>2. v \in ValueIds(plan) /\ v < ResultId(plan, k) /\ k \in Nat /\ ResultId(plan, k) = plan.params + k /\ v \in Nat /\ plan.params \in Nat
      BY <3>1, Numbers, PlanShape
    <3>3. CASE v \in Known(plan)
      BY <1>2, <3>3
    <3>4. CASE v \notin Known(plan)
      <4> DEFINE i == producer_node(plan, v)
      <4>1. PICK u \in DOMAIN s : /\ i \in f[u] .. l[u]
                                  /\ (\E j \in Nodes(plan) : v \in Operands(plan, j) /\ l[u] < j) => v \in Elements(s[u].outputs)
        BY <1>1, <3>2, <3>4, Escapes
      <4>2. i \in Nodes(plan) /\ ResultId(plan, i) = v /\ i \in Nat /\ i < k
        <5>1. i \in Nodes(plan)
          BY <1>5, <4>1
        <5>2. i = v - plan.params
          BY DEF producer_node
        <5> HIDE DEF i
        <5>3. i \in Nat /\ ResultId(plan, i) = plan.params + i
          BY <5>1, Numbers
        <5> QED BY <3>2, <5>1, <5>2, <5>3
      <4> HIDE DEF i
      <4>3. u # t
        <5> SUFFICES ASSUME u = t PROVE FALSE
          OBVIOUS
        <5>1. v \in Results(plan, f[t] .. l[t])
          BY <4>1, <4>2 DEF Results
        <5> QED BY <2>1, <5>1
      <4>4. u < t /\ l[u] < f[t]
        <5>1. u \in Nat /\ t \in Nat /\ (i < k => u <= t) /\ (u < t => l[u] < f[t])
          BY <1>1, <3>1, <4>1, StepsInOrder
        <5> QED BY <4>2, <4>3, <5>1
      <4>5. l[u] < k
        BY <1>5, <3>1, <4>4
      <4>6. v \in Elements(s[u].outputs)
        BY <3>1, <4>1, <4>5
      <4> HIDE DEF r, s
      <4> QED BY <1>2, <4>4, <4>6
    <3> QED BY <3>3, <3>4
  <2>3. ASSUME NEW v \in Elements(s[t].outputs), v \in Defined(r, t) PROVE FALSE
    <3>1. v \in Results(plan, f[t] .. l[t]) /\ v \notin Known(plan)
      BY <1>5, <2>1 DEF Results
    <3>2. PICK u \in DOMAIN s : u < t /\ v \in Elements(s[u].outputs)
      <4> HIDE DEF r, s
      <4> QED BY <1>2, <2>3, <3>1
    <3>3. u # t /\ v \in Results(plan, f[u] .. l[u])
      <4>1. u \in Nat /\ t \in Nat
        BY <1>1, StepsInOrder
      <4>2. Elements(s[u].outputs) \subseteq Results(plan, f[u] .. l[u])
        BY <1>5 DEF StepFits
      <4> QED BY <3>2, <4>1, <4>2
    <3> QED BY <1>1, <3>1, <3>3, ResultsApart
  <2>4. ASSUME NEW v \in s[t].release, v \in Needed(r, t + 1) \cup Elements(r.inputs) PROVE FALSE
    <3>1. v \notin Known(plan) /\ v \notin Range(plan.output_ids)
          /\ \A u \in DOMAIN s : t < u => v \notin Elements(s[u].inputs)
      BY <1>1, <2>1, DeadLater
    <3>2. \A u \in DOMAIN s : u >= t + 1 => t < u
      BY <1>4
    <3> HIDE DEF r, s
    <3> QED BY <1>2, <1>3, <2>4, <3>1, <3>2
  <2> HIDE DEF r, s
  <2> QED BY <1>2, <2>1, <2>2, <2>3, <2>4
<1> HIDE DEF r, s
<1>9. Scheduled(r)
  BY <1>2, <1>3, <1>6, <1>7, <1>8 DEF Scheduled, Elements
<1> QED BY <1>9 DEF r

LEMMA LoweredTimely ==
  ASSUME NEW plan, Verified(plan), NoDeadCode(plan)
  PROVE  Timely(Lower(plan))
<1> DEFINE r == Lower(plan)
           s == LoweredSteps(plan)
<1>1. PICK f, l : Covering(plan, f, l)
  BY PlanCovered DEF Covering
<1>2. /\ Steps(r) = DOMAIN s
      /\ \A t : /\ Inputs(r, t) = Elements(s[t].inputs)
                /\ Outputs(r, t) = Elements(s[t].outputs)
                /\ Needed(r, t) = Range(plan.output_ids) \cup UNION {Elements(s[u].inputs) : u \in {x \in DOMAIN s : x >= t}}
  BY LoweredParts
<1>3. r.steps = s /\ Elements(r.inputs) = Known(plan)
  BY LowerIs, LoweredInputs
<1>4. DOMAIN s \subseteq Nat
  <2>1. s \in Seq(Elements(s))
    BY <1>1 DEF Covering, Covers
  <2> HIDE DEF s
  <2> QED BY <2>1
<1> HIDE DEF r
<1>5. ASSUME NEW t \in DOMAIN s, NEW v \in Inputs(r, t) \cup Outputs(r, t), v \notin Needed(r, t + 1), v \notin Elements(r.inputs)
      PROVE  v \in s[t].release
  <2>1. /\ f[t] \in Nodes(plan) /\ l[t] \in Nodes(plan) /\ f[t] \in Nat /\ l[t] \in Nat /\ f[t] <= l[t]
        /\ f[t] .. l[t] \subseteq Nodes(plan) /\ StepFits(plan, f[t], l[t], s[t])
    BY <1>1, StepAt
  <2>2. v \notin Known(plan) /\ v \notin Range(plan.output_ids) /\ \A u \in DOMAIN s : t < u => v \notin Elements(s[u].inputs)
    <3>1. \A u \in DOMAIN s : t < u => u >= t + 1
      BY <1>4
    <3> HIDE DEF s
    <3> QED BY <1>2, <1>3, <1>5, <3>1
  <2>3. \A k \in f[t] .. l[t] : ResultId(plan, k) = plan.params + k /\ k \in Nat /\ k \in Nodes(plan)
    BY <2>1, Numbers
  <2>4. ResultId(plan, l[t]) = plan.params + l[t] /\ plan.params \in Nat
    BY <2>1, Numbers, PlanShape
  <2>5. v \in ValueIds(plan) /\ v \in Nat /\ v <= ResultId(plan, l[t])
    <3>1. CASE v \in Inputs(r, t)
      <4>1. v \in Elements(s[t].inputs)
        BY <1>2, <3>1
      <4>2. PICK k \in f[t] .. l[t] : k \in Nodes(plan) /\ v \in Operands(plan, k)
        BY <2>1, <4>1 DEF StepFits, Used
      <4>3. v \in ValueIds(plan) /\ v < ResultId(plan, k) /\ v \in Nat
        BY <4>2, Numbers
      <4> QED BY <2>1, <2>3, <2>4, <4>3
    <3>2. CASE v \in Outputs(r, t)
      <4>1. v \in Elements(s[t].outputs)
        BY <1>2, <3>2
      <4>2. PICK k \in f[t] .. l[t] : v = ResultId(plan, k)
        BY <2>1, <4>1 DEF StepFits, Results
      <4>3. v \in ValueIds(plan) /\ v \in Nat
        BY <2>3, <4>2, Numbers
      <4> QED BY <2>1, <2>3, <2>4, <4>2, <4>3
    <3> QED BY <3>1, <3>2
  <2>6. ASSUME NEW k \in Nodes(plan), v \in Operands(plan, k) PROVE k <= l[t]
    <3>1. k \in Nat
      BY Numbers
    <3>2. l[t] < k => \E u \in DOMAIN s : t < u /\ v \in Elements(s[u].inputs)
      BY <1>1, <2>5, <2>6, ReadByLater
    <3> QED BY <2>1, <2>2, <3>1, <3>2
  <2>7. last_use_node(plan, v) <= l[t]
    <3>1. last_use_node(plan, v) \in 0 .. Size(plan) /\ Size(plan) \in Nat
          /\ (last_use_node(plan, v) # 0 => last_use_node(plan, v) \in Nodes(plan) /\ v \in Operands(plan, last_use_node(plan, v)))
      BY LastUse, PlanShape
    <3> QED BY <2>1, <2>6, <3>1
  <2>8. releasableValue(plan, v)
    <3>1. v > plan.params
      BY <2>2, <2>4, <2>5, Numbers DEF Known
    <3>2. producer_node(plan, v) > 0 /\ producer_node(plan, v) \in Nodes(plan) /\ ResultId(plan, producer_node(plan, v)) = v
      BY <2>5, <3>1, Numbers
    <3>3. Kind(plan, producer_node(plan, v)) # "constant"
      BY <2>2, <3>2 DEF Known, ConstantIds
    <3> QED BY <2>2, <3>2, <3>3 DEF releasableValue, is_output
  <2>9. v \in Used(plan, f[t] .. l[t])
    <3>1. CASE v \in Inputs(r, t)
      BY <1>2, <2>1, <3>1 DEF StepFits
    <3>2. CASE v \in Outputs(r, t)
      <4>1. PICK k \in f[t] .. l[t] : v = ResultId(plan, k)
        BY <1>2, <2>1, <3>2 DEF StepFits, Results
      <4>2. PICK m \in Nodes(plan) : v \in Operands(plan, m)
        BY <2>1, <2>2, <4>1 DEF NoDeadCode, is_output, Uses
      <4>3. m <= l[t] /\ m \in Nat /\ v < ResultId(plan, m) /\ ResultId(plan, m) = plan.params + m
        BY <2>6, <4>2, Numbers
      <4>4. k < m
        BY <2>3, <2>4, <4>1, <4>3
      <4>5. m \in f[t] .. l[t]
        BY <2>1, <2>3, <4>3, <4>4
      <4> QED BY <4>2, <4>5 DEF Used
    <3> QED BY <3>1, <3>2
  <2>10. s[t].release = Used(plan, f[t] .. l[t]) \cap Dead(plan, l[t])
    BY <2>1, ReleasedAreDead DEF StepFits
  <2> QED BY <2>5, <2>7, <2>8, <2>9, <2>10 DEF Dead
<1>6. Timely(r)
  BY <1>2, <1>3, <1>5 DEF Timely
<1> QED BY <1>6 DEF r
----------------------------------------------------------------------------
(* What a step computes is what the plan means.                             *)

PlanMeaningGiven(plan, g, v) ==
  IF v <= plan.params THEN <<plan.data[v], <<>>>> ELSE TermOf(plan.instructions[v - plan.params], v, g)

LEMMA MeaningIsChosen ==
  ASSUME NEW plan
  PROVE  Meaning(plan) = CHOOSE g : g = [v \in ValueIds(plan) |-> PlanMeaningGiven(plan, g, v)]
BY DEF Meaning, PlanMeaningGiven

LEMMA TermSame ==
  ASSUME NEW x, NEW y, x.kind = y.kind, x.inputs = y.inputs, NEW v, NEW f, NEW g, x.kind = "alias" => 1 \in DOMAIN x.inputs,
         \A k \in DOMAIN x.inputs : f[x.inputs[k]] = g[x.inputs[k]]
  PROVE  TermOf(x, v, f) = TermOf(y, v, g)
BY DEF TermOf

LEMMA OperandsOf ==
  ASSUME NEW plan, Verified(plan), NEW i \in Nodes(plan)
  PROVE  /\ Kind(plan, i) = plan.instructions[i].kind
         /\ plan.instructions[i].kind = "alias" => 1 \in DOMAIN plan.instructions[i].inputs
         /\ \A k \in DOMAIN plan.instructions[i].inputs : plan.instructions[i].inputs[k] \in Operands(plan, i)
         /\ \A w \in Operands(plan, i) : w \in ValueIds(plan) /\ w < ResultId(plan, i)
<1>1. Kind(plan, i) = plan.instructions[i].kind
  BY DEF Kind
<1>2. Kind(plan, i) = "alias" => 1 \in DOMAIN plan.instructions[i].inputs
  <2>1. plan.instructions[i].inputs \in Seq(Nat) /\ (Kind(plan, i) = "alias" => Len(plan.instructions[i].inputs) = 1)
    BY PlanShape
  <2> QED BY <2>1
<1> QED BY <1>1, <1>2, PlanShape, Numbers

MeaningUpTo(plan, g, n) ==
  g = [v \in ValueIds(plan) |-> g[v]] /\ \A v \in ValueIds(plan) : v <= n => g[v] = PlanMeaningGiven(plan, g, v)

LEMMA MeaningUpToNext ==
  ASSUME NEW plan, Verified(plan), NEW n \in Nat, NEW g, MeaningUpTo(plan, g, n)
  PROVE  \E h : MeaningUpTo(plan, h, n + 1)
<1> DEFINE h == [v \in ValueIds(plan) |-> IF v <= n THEN g[v] ELSE PlanMeaningGiven(plan, g, v)]
<1>1. h = [v \in ValueIds(plan) |-> h[v]] /\ \A v \in ValueIds(plan) : v <= n => h[v] = g[v]
  OBVIOUS
<1>2. \A v \in ValueIds(plan) : h[v] = PlanMeaningGiven(plan, g, v)
  BY DEF MeaningUpTo
<1> HIDE DEF h
<1>3. ASSUME NEW v \in ValueIds(plan), v <= n + 1 PROVE PlanMeaningGiven(plan, g, v) = PlanMeaningGiven(plan, h, v)
  <2>1. CASE v <= plan.params
    BY <2>1 DEF PlanMeaningGiven
  <2>2. CASE ~(v <= plan.params)
    <3> DEFINE i == v - plan.params
    <3>1. i \in Nodes(plan) /\ ResultId(plan, i) = v /\ v \in Nat
      <4>1. v > plan.params /\ v \in Nat
        BY <2>2, Numbers, PlanShape
      <4> QED BY <4>1, Numbers DEF producer_node
    <3> HIDE DEF i
    <3>2. \A w \in Operands(plan, i) : h[w] = g[w]
      <4>1. \A w \in Operands(plan, i) : w \in ValueIds(plan) /\ w < v /\ w \in Nat
        BY <3>1, Numbers
      <4> QED BY <1>1, <1>3, <3>1, <4>1
    <3>3. TermOf(plan.instructions[i], v, g) = TermOf(plan.instructions[i], v, h)
      BY <3>1, <3>2, OperandsOf, TermSame
    <3> QED BY <2>2, <3>3 DEF PlanMeaningGiven, i
  <2> QED BY <2>1, <2>2
<1>4. MeaningUpTo(plan, h, n + 1)
  BY <1>1, <1>2, <1>3 DEF MeaningUpTo
<1> QED BY <1>4

LEMMA PlanMeaningIs ==
  ASSUME NEW plan, Verified(plan)
  PROVE  \A v \in ValueIds(plan) : Meaning(plan)[v] = PlanMeaningGiven(plan, Meaning(plan), v)
<1> DEFINE N == plan.params + Size(plan)
           Good == {n \in Nat : \E g : MeaningUpTo(plan, g, n)}
<1>1. N \in Nat /\ ValueIds(plan) = 1 .. N
  BY PlanShape
<1>2. \E g : MeaningUpTo(plan, g, 0)
  <2> DEFINE g == [v \in ValueIds(plan) |-> 0]
  <2>1. g = [v \in ValueIds(plan) |-> g[v]]
    OBVIOUS
  <2> HIDE DEF g
  <2>2. \A v \in ValueIds(plan) : ~(v <= 0)
    BY <1>1
  <2>3. MeaningUpTo(plan, g, 0)
    BY <2>1, <2>2 DEF MeaningUpTo
  <2> QED BY <2>3
<1>3. ASSUME NEW n \in Nat, \A m \in Nat : m < n => m \in Good PROVE n \in Good
  <2>1. CASE n = 0
    BY <1>2, <2>1
  <2>2. CASE n # 0
    <3>1. n - 1 \in Nat /\ n - 1 < n /\ (n - 1) + 1 = n
      BY <2>2
    <3>2. PICK g : MeaningUpTo(plan, g, n - 1)
      BY <1>3, <3>1
    <3>3. \E h : MeaningUpTo(plan, h, (n - 1) + 1)
      BY <3>1, <3>2, MeaningUpToNext
    <3> QED BY <3>1, <3>3
  <2> QED BY <2>1, <2>2
<1> HIDE DEF Good
<1>4. N \in Good
  BY <1>1, <1>3, NumberInduction
<1>5. PICK g : MeaningUpTo(plan, g, N)
  BY <1>4 DEF Good
<1>6. \A v \in ValueIds(plan) : v <= N
  BY <1>1
<1> HIDE DEF N
<1>7. g = [v \in ValueIds(plan) |-> PlanMeaningGiven(plan, g, v)]
  BY <1>5, <1>6 DEF MeaningUpTo
<1> DEFINE M == Meaning(plan)
<1>8. M = [v \in ValueIds(plan) |-> PlanMeaningGiven(plan, M, v)]
  BY <1>7, MeaningIsChosen
<1> HIDE DEF M
<1>9. \A v \in ValueIds(plan) : M[v] = PlanMeaningGiven(plan, M, v)
  BY <1>8
<1> QED BY <1>9 DEF M

LEMMA NodeMeaning ==
  ASSUME NEW plan, Verified(plan), NEW i \in Nodes(plan)
  PROVE  Meaning(plan)[ResultId(plan, i)] = TermOf(plan.instructions[i], ResultId(plan, i), Meaning(plan))
<1>1. ResultId(plan, i) \in ValueIds(plan) /\ ResultId(plan, i) = plan.params + i /\ i \in Nat /\ 1 <= i /\ plan.params \in Nat
  BY Numbers, PlanShape
<1>2. ~(ResultId(plan, i) <= plan.params) /\ ResultId(plan, i) - plan.params = i
  BY <1>1
<1> QED BY <1>1, <1>2, PlanMeaningIs DEF PlanMeaningGiven

(* The recursion of RunKernel.                                             *)
NodeOf(s, v) == CHOOSE n \in s.kernel : n.result = v
KernelGiven(s, arguments, g, v) ==
  IF v \in Range(s.inputs) THEN arguments[CHOOSE k \in DOMAIN s.inputs : s.inputs[k] = v] ELSE TermOf(NodeOf(s, v), v, g)
KernelValues(s) == Range(s.inputs) \cup {n.result : n \in s.kernel}
KernelFunction(s, arguments) == CHOOSE g : g = [v \in KernelValues(s) |-> KernelGiven(s, arguments, g, v)]

LEMMA RunKernelIs ==
  ASSUME NEW s, NEW arguments
  PROVE  RunKernel(s, arguments) = [j \in DOMAIN s.outputs |-> KernelFunction(s, arguments)[s.outputs[j]]]
BY DEF RunKernel, KernelFunction, KernelGiven, KernelValues, NodeOf

LEMMA KernelNode ==
  ASSUME NEW plan, Verified(plan), NEW S \in SUBSET Nodes(plan), NEW s, s.kernel = Kernel(plan, S), NEW i \in S
  PROVE  /\ {n.result : n \in s.kernel} = Results(plan, S)
         /\ NodeOf(s, ResultId(plan, i)).kind = Kind(plan, i)
         /\ NodeOf(s, ResultId(plan, i)).inputs = plan.instructions[i].inputs
<1> DEFINE K(j) == [kind |-> Kind(plan, j), inputs |-> plan.instructions[j].inputs, result |-> ResultId(plan, j)]
<1>1. s.kernel = {K(j) : j \in S}
  BY DEF Kernel
<1>2. \A j \in S : K(j).result = ResultId(plan, j) /\ K(j).kind = Kind(plan, j) /\ K(j).inputs = plan.instructions[j].inputs
  OBVIOUS
<1> HIDE DEF K
<1>3. {n.result : n \in s.kernel} = Results(plan, S)
  BY <1>1, <1>2 DEF Results
<1>4. \A j \in S : ResultId(plan, j) = ResultId(plan, i) => j = i
  <2> SUFFICES ASSUME NEW j \in S, ResultId(plan, j) = ResultId(plan, i) PROVE j = i
    OBVIOUS
  <2>1. producer_node(plan, ResultId(plan, j)) = j /\ producer_node(plan, ResultId(plan, i)) = i
    BY Numbers
  <2> QED BY <2>1
<1>5. NodeOf(s, ResultId(plan, i)) = K(i)
  <2>1. K(i) \in s.kernel /\ K(i).result = ResultId(plan, i)
    BY <1>1, <1>2
  <2>2. \A n \in s.kernel : n.result = ResultId(plan, i) => n = K(i)
    BY <1>1, <1>2, <1>4
  <2> QED BY <2>1, <2>2 DEF NodeOf
<1> QED BY <1>2, <1>3, <1>5

MeantBelow(plan, s, g, v) == \A w \in KernelValues(s) : w < v => g[w] = Meaning(plan)[w]

LEMMA KernelValueMeans ==
  ASSUME NEW plan, Verified(plan), NEW a \in Nodes(plan), NEW b \in Nodes(plan), a .. b \subseteq Nodes(plan),
         NEW s, StepFits(plan, a, b, s), NEW g, NEW v \in KernelValues(s), MeantBelow(plan, s, g, v)
  PROVE  /\ v \in ValueIds(plan)
         /\ KernelGiven(s, [i \in DOMAIN s.inputs |-> Meaning(plan)[s.inputs[i]]], g, v) = Meaning(plan)[v]
<1> DEFINE arguments == [i \in DOMAIN s.inputs |-> Meaning(plan)[s.inputs[i]]]
           S == a .. b
<1>1. /\ s.inputs \in Seq(ValueIds(plan)) /\ s.kernel = Kernel(plan, S)
      /\ Used(plan, S) \ Results(plan, S) \subseteq Range(s.inputs)
  BY DEF StepFits, Elements, Range
<1>2. CASE v \in Range(s.inputs)
  <2> DEFINE k == CHOOSE x \in DOMAIN s.inputs : s.inputs[x] = v
  <2>1. k \in DOMAIN s.inputs /\ s.inputs[k] = v
    BY <1>2 DEF Range
  <2> HIDE DEF k
  <2>2. arguments[k] = Meaning(plan)[v] /\ v \in ValueIds(plan)
    BY <1>1, <2>1
  <2> HIDE DEF arguments
  <2>3. KernelGiven(s, arguments, g, v) = arguments[k]
    BY <1>2 DEF KernelGiven, k
  <2> QED BY <2>2, <2>3 DEF arguments
<1>3. CASE v \notin Range(s.inputs)
  <2>1. a \in S \/ S = {}
    BY Numbers
  <2>2. S # {}
    BY <1>1, <1>3 DEF KernelValues, Kernel
  <2>3. {n.result : n \in s.kernel} = Results(plan, S)
    BY <1>1, <2>1, <2>2, KernelNode
  <2>4. PICK i \in S : v = ResultId(plan, i)
    BY <1>3, <2>3 DEF KernelValues, Results
  <2>5. i \in Nodes(plan) /\ v \in ValueIds(plan)
    BY <2>4, Numbers
  <2>6. NodeOf(s, v).kind = plan.instructions[i].kind /\ NodeOf(s, v).inputs = plan.instructions[i].inputs
    <3>1. s.kernel = Kernel(plan, S) /\ S \in SUBSET Nodes(plan) /\ i \in S
      BY <1>1, <2>4
    <3> HIDE DEF S
    <3>2. NodeOf(s, ResultId(plan, i)).kind = Kind(plan, i) /\ NodeOf(s, ResultId(plan, i)).inputs = plan.instructions[i].inputs
      BY <3>1, KernelNode
    <3> QED BY <2>4, <3>2 DEF Kind
  <2>7. \A w \in Operands(plan, i) : g[w] = Meaning(plan)[w]
    <3>1. \A w \in Operands(plan, i) : w < v
      BY <2>4, <2>5, OperandsOf
    <3>2. Operands(plan, i) \subseteq Used(plan, S)
      BY DEF Used
    <3>3. Operands(plan, i) \subseteq KernelValues(s)
      BY <1>1, <2>3, <3>2 DEF KernelValues
    <3> QED BY <3>1, <3>3 DEF MeantBelow
  <2>8. \A k \in DOMAIN NodeOf(s, v).inputs : g[NodeOf(s, v).inputs[k]] = Meaning(plan)[NodeOf(s, v).inputs[k]]
    BY <2>5, <2>6, <2>7, OperandsOf
  <2>9. TermOf(NodeOf(s, v), v, g) = TermOf(plan.instructions[i], v, Meaning(plan))
    <3> DEFINE x == NodeOf(s, v)
    <3>1. x.kind = "alias" => 1 \in DOMAIN x.inputs
      BY <2>5, <2>6, OperandsOf
    <3> HIDE DEF x
    <3> QED BY <2>6, <2>8, <3>1, TermSame DEF x
  <2>10. TermOf(NodeOf(s, v), v, g) = Meaning(plan)[v]
    BY <2>4, <2>5, <2>9, NodeMeaning
  <2> HIDE DEF arguments
  <2>11. KernelGiven(s, arguments, g, v) = Meaning(plan)[v]
    BY <1>3, <2>10 DEF KernelGiven
  <2> QED BY <2>5, <2>11 DEF arguments
<1> QED BY <1>2, <1>3

LEMMA KernelFunctionMeans ==
  ASSUME NEW plan, Verified(plan), NEW a \in Nodes(plan), NEW b \in Nodes(plan), a .. b \subseteq Nodes(plan),
         NEW s, StepFits(plan, a, b, s), NEW v \in KernelValues(s)
  PROVE  KernelFunction(s, [i \in DOMAIN s.inputs |-> Meaning(plan)[s.inputs[i]]])[v] = Meaning(plan)[v]
<1> DEFINE arguments == [i \in DOMAIN s.inputs |-> Meaning(plan)[s.inputs[i]]]
           h == [w \in KernelValues(s) |-> Meaning(plan)[w]]
           g == KernelFunction(s, arguments)
           Good == {n \in Nat : n \in KernelValues(s) => g[n] = Meaning(plan)[n]}
<1>1. \A f, w : w \in KernelValues(s) /\ MeantBelow(plan, s, f, w) =>
        w \in ValueIds(plan) /\ KernelGiven(s, arguments, f, w) = Meaning(plan)[w]
  BY KernelValueMeans
<1> HIDE DEF arguments
<1>2. \A w \in KernelValues(s) : KernelGiven(s, arguments, h, w) = Meaning(plan)[w] /\ w \in Nat
  <2>1. \A w \in KernelValues(s) : MeantBelow(plan, s, h, w)
    BY DEF MeantBelow
  <2> HIDE DEF h
  <2> QED BY <1>1, <2>1, Numbers
<1>3. h = [w \in KernelValues(s) |-> KernelGiven(s, arguments, h, w)]
  BY <1>2
<1> HIDE DEF h
<1>4. g = [w \in KernelValues(s) |-> KernelGiven(s, arguments, g, w)]
  BY <1>3 DEF KernelFunction
<1> HIDE DEF g
<1>5. ASSUME NEW n \in Nat, \A m \in Nat : m < n => m \in Good PROVE n \in Good
  <2>1. SUFFICES ASSUME n \in KernelValues(s) PROVE g[n] = Meaning(plan)[n]
    OBVIOUS
  <2>2. MeantBelow(plan, s, g, n)
    BY <1>2, <1>5 DEF MeantBelow
  <2>3. g[n] = KernelGiven(s, arguments, g, n)
    BY <1>4, <2>1
  <2> QED BY <1>1, <2>1, <2>2, <2>3
<1> HIDE DEF Good
<1>6. v \in Good
  BY <1>2, <1>5, NumberInduction
<1>7. g[v] = Meaning(plan)[v]
  BY <1>6 DEF Good
<1> QED BY <1>7 DEF g, arguments

LEMMA LoweredStepMeans ==
  ASSUME NEW plan, Verified(plan), NEW a \in Nodes(plan), NEW b \in Nodes(plan), a .. b \subseteq Nodes(plan),
         NEW s, StepFits(plan, a, b, s)
  PROVE  /\ s.alias => Meaning(plan)[s.outputs[1]] = Meaning(plan)[s.inputs[1]]
         /\ RunKernel(s, [i \in DOMAIN s.inputs |-> Meaning(plan)[s.inputs[i]]])
              = [j \in DOMAIN s.outputs |-> Meaning(plan)[s.outputs[j]]]
<1>1. ASSUME s.alias PROVE Meaning(plan)[s.outputs[1]] = Meaning(plan)[s.inputs[1]]
  <2>1. Kind(plan, a) = "alias" /\ s.inputs = plan.instructions[a].inputs /\ s.outputs = <<ResultId(plan, a)>>
    BY <1>1 DEF StepFits, OfNode
  <2>2. Meaning(plan)[ResultId(plan, a)] = TermOf(plan.instructions[a], ResultId(plan, a), Meaning(plan))
    BY NodeMeaning
  <2>3. plan.instructions[a].kind = "alias"
    BY <2>1 DEF Kind
  <2>4. Meaning(plan)[ResultId(plan, a)] = Meaning(plan)[plan.instructions[a].inputs[1]]
    BY <2>2, <2>3 DEF TermOf
  <2> QED BY <2>1, <2>4
<1>2. ASSUME NEW j \in DOMAIN s.outputs PROVE s.outputs[j] \in KernelValues(s)
  <2>1. s.kernel = Kernel(plan, a .. b) /\ a .. b \in SUBSET Nodes(plan) /\ s.outputs[j] \in Results(plan, a .. b)
    BY DEF StepFits, Elements
  <2>2. PICK i \in a .. b : s.outputs[j] = ResultId(plan, i)
    BY <2>1 DEF Results
  <2> DEFINE S == a .. b
  <2>3. s.kernel = Kernel(plan, S) /\ S \in SUBSET Nodes(plan) /\ s.outputs[j] \in Results(plan, S) /\ i \in S
    BY <2>1, <2>2
  <2> HIDE DEF S
  <2>4. {n.result : n \in s.kernel} = Results(plan, S)
    BY <2>3, KernelNode
  <2> QED BY <2>3, <2>4 DEF KernelValues
<1> DEFINE arguments == [i \in DOMAIN s.inputs |-> Meaning(plan)[s.inputs[i]]]
<1>3. \A j \in DOMAIN s.outputs : KernelFunction(s, arguments)[s.outputs[j]] = Meaning(plan)[s.outputs[j]]
  BY <1>2, KernelFunctionMeans
<1> HIDE DEF arguments
<1>4. RunKernel(s, arguments) = [j \in DOMAIN s.outputs |-> Meaning(plan)[s.outputs[j]]]
  BY <1>3, RunKernelIs
<1> QED BY <1>1, <1>4 DEF arguments

(* Whatever the plan is, its steps compute what the plan means.            *)
LEMMA LoweredMeaning ==
  ASSUME NEW plan, Verified(plan), \A s, arguments : Compute(s, arguments) = RunKernel(s, arguments)
  PROVE  MeaningKept(Lower(plan))
<1> DEFINE r == Lower(plan)
<1>1. r.steps = LoweredSteps(plan) /\ r.meaning = Meaning(plan) /\ Steps(r) = DOMAIN LoweredSteps(plan)
  BY LowerIs, LoweredParts
<1> HIDE DEF r
<1>2. PICK f, l : Covering(plan, f, l)
  BY PlanCovered DEF Covering
<1>3. ASSUME NEW t \in DOMAIN LoweredSteps(plan)
      PROVE  LET s == LoweredSteps(plan)[t] IN
             /\ s.alias => Meaning(plan)[s.outputs[1]] = Meaning(plan)[s.inputs[1]]
             /\ Compute(s, [i \in DOMAIN s.inputs |-> Meaning(plan)[s.inputs[i]]])
                  = [j \in DOMAIN s.outputs |-> Meaning(plan)[s.outputs[j]]]
  BY <1>2, StepAt, LoweredStepMeans
<1>4. MeaningKept(r)
  BY <1>1, <1>3 DEF MeaningKept
<1> QED BY <1>4 DEF r
----------------------------------------------------------------------------
(* The storage that values share.                                          *)

SharingSteps(steps, v) == {t \in DOMAIN steps : (steps[t].alias \/ steps[t].in_place # 0) /\ steps[t].outputs[1] = v}
RootGiven(steps, g, v) ==
  IF SharingSteps(steps, v) = {} THEN v ELSE g[steps[Min(SharingSteps(steps, v))].inputs[1]]
FirstOperand(plan, i) == plan.instructions[i].inputs[1]
Shared(plan, t) == LoweredSteps(plan)[t].alias \/ LoweredSteps(plan)[t].in_place # 0
RootOf(plan, v) == Root(plan, LoweredSteps(plan))[v]

LEMMA RootIsChosen ==
  ASSUME NEW plan, NEW steps
  PROVE  Root(plan, steps) = CHOOSE g : g = [v \in ValueIds(plan) |-> RootGiven(steps, g, v)]
BY DEF Root, RootGiven, SharingSteps

(* A step that shares storage is that of one node.                         *)
LEMMA SharingStep ==
  ASSUME NEW plan, Verified(plan), NEW f, NEW l, Covering(plan, f, l), NEW t \in DOMAIN LoweredSteps(plan), Shared(plan, t)
  PROVE  /\ f[t] \in Nodes(plan) /\ l[t] = f[t]
         /\ LoweredSteps(plan)[t].inputs[1] = FirstOperand(plan, f[t]) /\ LoweredSteps(plan)[t].outputs = <<ResultId(plan, f[t])>>
         /\ FirstOperand(plan, f[t]) \in Operands(plan, f[t]) /\ FirstOperand(plan, f[t]) \in ValueIds(plan)
         /\ FirstOperand(plan, f[t]) < ResultId(plan, f[t])
         /\ LoweredSteps(plan)[t].alias => Kind(plan, f[t]) = "alias" /\ LoweredSteps(plan)[t].in_place = 0
         /\ LoweredSteps(plan)[t].in_place # 0 => TakesOver(plan, f[t]) /\ LoweredSteps(plan)[t].in_place = 1
<1> DEFINE s == LoweredSteps(plan)[t]
           i == f[t]
<1>1. i \in Nodes(plan) /\ StepFits(plan, i, l[t], s)
  BY StepAt
<1>2. s.alias \/ s.in_place # 0
  BY DEF Shared
<1> HIDE DEF s, i
<1>3. /\ i = l[t] /\ OfNode(plan, i, s)
      /\ s.alias => Kind(plan, i) = "alias" /\ s.in_place = 0
      /\ s.in_place # 0 => TakesOver(plan, i) /\ s.in_place = 1
  BY <1>1, <1>2 DEF StepFits
<1>4. Kind(plan, i) = "alias" \/ Kind(plan, i) = "update"
  BY <1>2, <1>3 DEF TakesOver, UpdatesInPlace
<1>5. 1 \in DOMAIN plan.instructions[i].inputs
  <2>1. plan.instructions[i].inputs \in Seq(Nat)
        /\ (Kind(plan, i) = "alias" => Len(plan.instructions[i].inputs) = 1)
        /\ (Kind(plan, i) = "update" => Len(plan.instructions[i].inputs) = 2)
    BY <1>1, PlanShape
  <2> QED BY <1>4, <2>1
<1>6. FirstOperand(plan, i) \in Operands(plan, i)
  BY <1>1, <1>5, PlanShape DEF FirstOperand
<1>7. FirstOperand(plan, i) \in ValueIds(plan) /\ FirstOperand(plan, i) < ResultId(plan, i)
  BY <1>1, <1>6, Numbers
<1> QED BY <1>1, <1>3, <1>6, <1>7 DEF OfNode, FirstOperand, s, i

LEMMA SharingStepsAre ==
  ASSUME NEW plan, Verified(plan), NEW f, NEW l, Covering(plan, f, l), NEW v
  PROVE  /\ \A t \in SharingSteps(LoweredSteps(plan), v) :
              /\ t \in DOMAIN LoweredSteps(plan) /\ Shared(plan, t) /\ v = ResultId(plan, f[t])
              /\ Min(SharingSteps(LoweredSteps(plan), v)) = t
         /\ \A t \in DOMAIN LoweredSteps(plan) :
              Shared(plan, t) /\ v = ResultId(plan, f[t]) => t \in SharingSteps(LoweredSteps(plan), v)
<1> DEFINE S == SharingSteps(LoweredSteps(plan), v)
<1>1. \A t \in DOMAIN LoweredSteps(plan) : Shared(plan, t) => LoweredSteps(plan)[t].outputs[1] = ResultId(plan, f[t])
  BY SharingStep
<1>2. \A t : t \in S <=> t \in DOMAIN LoweredSteps(plan) /\ Shared(plan, t) /\ v = ResultId(plan, f[t])
  BY <1>1 DEF SharingSteps, Shared
<1> HIDE DEF S
<1>3. ASSUME NEW t \in S PROVE Min(S) = t
  <2>1. \A u \in S : u = t
    <3> SUFFICES ASSUME NEW u \in S, u # t PROVE FALSE
      OBVIOUS
    <3>1. f[t] \in f[t] .. l[t] /\ f[u] \in f[u] .. l[u]
      BY <1>2, StepAt
    <3>2. v \in Results(plan, f[t] .. l[t]) /\ v \in Results(plan, f[u] .. l[u])
      BY <1>2, <3>1 DEF Results
    <3> QED BY <1>2, <3>2, ResultsApart
  <2>2. t \in Nat
    BY <1>2, StepsInOrder
  <2>3. S = {t}
    BY <2>1
  <2>4. S \in SUBSET Nat /\ S # {}
    BY <2>2, <2>3
  <2> QED BY <2>1, <2>4, MinimumIs
<1> QED BY <1>2, <1>3 DEF S

RootUpTo(plan, g, n) ==
  /\ g = [v \in ValueIds(plan) |-> g[v]]
  /\ \A v \in ValueIds(plan) : v <= n => g[v] = RootGiven(LoweredSteps(plan), g, v)

LEMMA RootUpToNext ==
  ASSUME NEW plan, Verified(plan), NEW n \in Nat, NEW g, RootUpTo(plan, g, n)
  PROVE  \E h : RootUpTo(plan, h, n + 1)
<1> DEFINE h == [v \in ValueIds(plan) |-> IF v <= n THEN g[v] ELSE RootGiven(LoweredSteps(plan), g, v)]
<1>1. h = [v \in ValueIds(plan) |-> h[v]] /\ \A v \in ValueIds(plan) : v <= n => h[v] = g[v]
  OBVIOUS
<1>2. \A v \in ValueIds(plan) : h[v] = RootGiven(LoweredSteps(plan), g, v)
  BY DEF RootUpTo
<1> HIDE DEF h
<1>3. PICK f, l : Covering(plan, f, l)
  BY PlanCovered DEF Covering
<1>4. ASSUME NEW v \in ValueIds(plan), v <= n + 1
      PROVE  RootGiven(LoweredSteps(plan), g, v) = RootGiven(LoweredSteps(plan), h, v)
  <2> DEFINE S == SharingSteps(LoweredSteps(plan), v)
  <2>1. CASE S = {}
    BY <2>1 DEF RootGiven
  <2>2. CASE S # {}
    <3>1. PICK t : t \in S
      BY <2>2
    <3>2. t \in DOMAIN LoweredSteps(plan) /\ Shared(plan, t) /\ v = ResultId(plan, f[t]) /\ Min(S) = t
      BY <1>3, <3>1, SharingStepsAre
    <3> DEFINE w == LoweredSteps(plan)[t].inputs[1]
    <3>3. w \in ValueIds(plan) /\ w < v
      BY <1>3, <3>2, SharingStep
    <3>4. w \in Nat /\ v \in Nat
      BY <3>3, Numbers
    <3> HIDE DEF w, S
    <3>5. h[w] = g[w]
      BY <1>1, <1>4, <3>3, <3>4
    <3> QED BY <2>2, <3>2, <3>5 DEF RootGiven, S, w
  <2> QED BY <2>1, <2>2
<1>5. RootUpTo(plan, h, n + 1)
  BY <1>1, <1>2, <1>4 DEF RootUpTo
<1> QED BY <1>5

LEMMA RootIs ==
  ASSUME NEW plan, Verified(plan)
  PROVE  \A v \in ValueIds(plan) : RootOf(plan, v) = RootGiven(LoweredSteps(plan), Root(plan, LoweredSteps(plan)), v)
<1> DEFINE N == plan.params + Size(plan)
           Good == {n \in Nat : \E g : RootUpTo(plan, g, n)}
<1>1. N \in Nat /\ ValueIds(plan) = 1 .. N
  BY PlanShape
<1>2. \E g : RootUpTo(plan, g, 0)
  <2> DEFINE g == [v \in ValueIds(plan) |-> 0]
  <2>1. g = [v \in ValueIds(plan) |-> g[v]]
    OBVIOUS
  <2> HIDE DEF g
  <2>2. \A v \in ValueIds(plan) : ~(v <= 0)
    BY <1>1
  <2>3. RootUpTo(plan, g, 0)
    BY <2>1, <2>2 DEF RootUpTo
  <2> QED BY <2>3
<1>3. ASSUME NEW n \in Nat, \A m \in Nat : m < n => m \in Good PROVE n \in Good
  <2>1. CASE n = 0
    BY <1>2, <2>1
  <2>2. CASE n # 0
    <3>1. n - 1 \in Nat /\ n - 1 < n /\ (n - 1) + 1 = n
      BY <2>2
    <3>2. PICK g : RootUpTo(plan, g, n - 1)
      BY <1>3, <3>1
    <3>3. \E h : RootUpTo(plan, h, (n - 1) + 1)
      BY <3>1, <3>2, RootUpToNext
    <3> QED BY <3>1, <3>3
  <2> QED BY <2>1, <2>2
<1> HIDE DEF Good
<1>4. N \in Good
  BY <1>1, <1>3, NumberInduction
<1>5. PICK g : RootUpTo(plan, g, N)
  BY <1>4 DEF Good
<1>6. \A v \in ValueIds(plan) : v <= N
  BY <1>1
<1> HIDE DEF N
<1>7. g = [v \in ValueIds(plan) |-> RootGiven(LoweredSteps(plan), g, v)]
  BY <1>5, <1>6 DEF RootUpTo
<1> DEFINE M == Root(plan, LoweredSteps(plan))
<1>8. M = [v \in ValueIds(plan) |-> RootGiven(LoweredSteps(plan), M, v)]
  BY <1>7, RootIsChosen
<1> HIDE DEF M
<1>9. \A v \in ValueIds(plan) : M[v] = RootGiven(LoweredSteps(plan), M, v)
  BY <1>8
<1> QED BY <1>9 DEF M, RootOf

(* A value is its own root, or has that of the operand its step shares.     *)
LEMMA RootFacts ==
  ASSUME NEW plan, Verified(plan), NEW f, NEW l, Covering(plan, f, l)
  PROVE  /\ \A v \in ValueIds(plan) :
              RootOf(plan, v) = v \/ \E t \in DOMAIN LoweredSteps(plan) : Shared(plan, t) /\ v = ResultId(plan, f[t])
         /\ \A t \in DOMAIN LoweredSteps(plan) :
              Shared(plan, t) => RootOf(plan, ResultId(plan, f[t])) = RootOf(plan, FirstOperand(plan, f[t]))
         /\ \A v \in Known(plan) : RootOf(plan, v) = v
         /\ \A t \in DOMAIN LoweredSteps(plan) : ~Shared(plan, t) =>
              \A v \in Elements(LoweredSteps(plan)[t].outputs) : RootOf(plan, v) = v
<1> DEFINE S(v) == SharingSteps(LoweredSteps(plan), v)
<1>1. ASSUME NEW v \in ValueIds(plan), S(v) = {} PROVE RootOf(plan, v) = v
  BY <1>1, RootIs DEF RootGiven
<1>2. ASSUME NEW v, NEW t \in S(v) PROVE t \in DOMAIN LoweredSteps(plan) /\ Shared(plan, t) /\ v = ResultId(plan, f[t])
  BY <1>2, SharingStepsAre
<1>3. ASSUME NEW v \in ValueIds(plan)
      PROVE  RootOf(plan, v) = v \/ \E t \in DOMAIN LoweredSteps(plan) : Shared(plan, t) /\ v = ResultId(plan, f[t])
  BY <1>1, <1>2
<1>4. ASSUME NEW t \in DOMAIN LoweredSteps(plan), Shared(plan, t)
      PROVE  RootOf(plan, ResultId(plan, f[t])) = RootOf(plan, FirstOperand(plan, f[t]))
  <2> DEFINE v == ResultId(plan, f[t])
             T == S(v)
  <2>1. t \in T /\ Min(T) = t
    BY <1>4, SharingStepsAre
  <2>2. v \in ValueIds(plan) /\ LoweredSteps(plan)[t].inputs[1] = FirstOperand(plan, f[t])
    BY <1>4, SharingStep, Numbers
  <2>3. RootOf(plan, v) = RootGiven(LoweredSteps(plan), Root(plan, LoweredSteps(plan)), v)
    BY <2>2, RootIs
  <2>4. T = SharingSteps(LoweredSteps(plan), v)
    OBVIOUS
  <2> HIDE DEF T, v
  <2> QED BY <2>1, <2>2, <2>3, <2>4 DEF RootGiven, RootOf, v
<1>5. ASSUME NEW v \in Known(plan) PROVE RootOf(plan, v) = v
  <2>1. S(v) = {}
    <3> SUFFICES ASSUME NEW t \in S(v) PROVE FALSE
      OBVIOUS
    <3>1. t \in DOMAIN LoweredSteps(plan) /\ v = ResultId(plan, f[t])
      BY <1>2
    <3>2. f[t] \in f[t] .. l[t]
      BY <3>1, StepAt
    <3> QED BY <1>5, <3>1, <3>2, StepAt
  <2>2. v \in ValueIds(plan)
    BY <1>5, LoweredInputs
  <2> QED BY <1>1, <2>1, <2>2
<1>6. ASSUME NEW t \in DOMAIN LoweredSteps(plan), ~Shared(plan, t), NEW v \in Elements(LoweredSteps(plan)[t].outputs)
      PROVE  RootOf(plan, v) = v
  <2>1. v \in ValueIds(plan) /\ v \in Results(plan, f[t] .. l[t])
    <3>1. StepFits(plan, f[t], l[t], LoweredSteps(plan)[t])
      BY StepAt
    <3> QED BY <1>6, <3>1 DEF StepFits, Elements
  <2>2. S(v) = {}
    <3> SUFFICES ASSUME NEW u \in S(v) PROVE FALSE
      OBVIOUS
    <3>1. u \in DOMAIN LoweredSteps(plan) /\ v = ResultId(plan, f[u]) /\ u # t
      BY <1>2, <1>6
    <3>2. f[u] \in f[u] .. l[u]
      BY <3>1, StepAt
    <3>3. v \in Results(plan, f[u] .. l[u])
      BY <3>1, <3>2 DEF Results
    <3> QED BY <2>1, <3>1, <3>3, ResultsApart
  <2> QED BY <1>1, <2>1, <2>2
<1> QED BY <1>3, <1>4, <1>5, <1>6

LEMMA LoweredRooted ==
  ASSUME NEW plan, Verified(plan)
  PROVE  Rooted(Lower(plan))
<1> DEFINE r == Lower(plan)
           s == LoweredSteps(plan)
<1>1. PICK f, l : Covering(plan, f, l)
  BY PlanCovered DEF Covering
<1>2. /\ r.steps = s /\ Steps(r) = DOMAIN s /\ Elements(r.inputs) = Known(plan)
      /\ \A v : r.root[v] = RootOf(plan, v)
      /\ \A t : Outputs(r, t) = Elements(s[t].outputs)
  BY LowerIs, LoweredParts, LoweredInputs DEF RootOf
<1> HIDE DEF r, s
<1>3. \A v \in Elements(r.inputs) : r.root[v] = v
  BY <1>1, <1>2, RootFacts
<1>4. ASSUME NEW t \in Steps(r), NEW v \in Outputs(r, t)
      PROVE  r.root[v] = IF r.steps[t].alias THEN r.root[r.steps[t].inputs[1]]
                         ELSE IF r.steps[t].in_place # 0 THEN r.root[InPlaceOperand(r, t)]
                         ELSE v
  <2>1. CASE Shared(plan, t)
    <3>1. s[t].outputs = <<ResultId(plan, f[t])>> /\ s[t].inputs[1] = FirstOperand(plan, f[t]) /\ (s[t].in_place # 0 => s[t].in_place = 1)
      BY <1>1, <1>2, <2>1, SharingStep DEF s
    <3>2. v = ResultId(plan, f[t])
      BY <1>2, <3>1 DEF Elements
    <3>3. r.root[v] = r.root[r.steps[t].inputs[1]]
      BY <1>1, <1>2, <2>1, <3>1, <3>2, RootFacts DEF s
    <3> QED BY <1>2, <2>1, <3>1, <3>3 DEF InPlaceOperand, Shared, s
  <2>2. CASE ~Shared(plan, t)
    <3>1. r.root[v] = v
      BY <1>1, <1>2, <2>2, RootFacts DEF s
    <3> QED BY <1>2, <2>2, <3>1 DEF Shared, s
  <2> QED BY <2>1, <2>2
<1>5. Rooted(r)
  BY <1>3, <1>4 DEF Rooted
<1> QED BY <1>5 DEF r
----------------------------------------------------------------------------
(* Whose storage an update may write.                                       *)

(* Every node that takes its operand over has its step in place.           *)
LEMMA TakingStep ==
  ASSUME NEW plan, Verified(plan), NEW f, NEW l, Covering(plan, f, l), NEW k \in Nodes(plan), TakesOver(plan, k)
  PROVE  \E t \in DOMAIN LoweredSteps(plan) : Shared(plan, t) /\ LoweredSteps(plan)[t].in_place # 0 /\ f[t] = k
<1>1. Kind(plan, k) # "constant"
  BY DEF TakesOver, UpdatesInPlace
<1>2. PICK t \in DOMAIN LoweredSteps(plan) : k \in f[t] .. l[t]
  BY <1>1, StepOfNode
<1>3. StepFits(plan, f[t], l[t], LoweredSteps(plan)[t])
  BY StepAt
<1>4. LoweredSteps(plan)[t].in_place # 0 /\ k = f[t]
  BY <1>2, <1>3 DEF StepFits
<1> QED BY <1>4 DEF Shared

LEMMA TakenOperand ==
  ASSUME NEW plan, Verified(plan), NEW k \in Nodes(plan), TakesOver(plan, k)
  PROVE  /\ FirstOperand(plan, k) \in ValueIds(plan) /\ FirstOperand(plan, k) \in Nat /\ FirstOperand(plan, k) < ResultId(plan, k)
         /\ ResultId(plan, k) \in Nat /\ k \in Nat /\ ResultId(plan, k) = plan.params + k
         /\ SafePlan(plan) => /\ OwnStorage(plan, FirstOperand(plan, k))
                              /\ last_use_node(plan, FirstOperand(plan, k)) = k
                              /\ ~is_output(plan, FirstOperand(plan, k))
<1>1. PICK f, l : Covering(plan, f, l)
  BY PlanCovered DEF Covering
<1>2. PICK t \in DOMAIN LoweredSteps(plan) : Shared(plan, t) /\ f[t] = k
  BY <1>1, TakingStep
<1>3. FirstOperand(plan, k) \in ValueIds(plan) /\ FirstOperand(plan, k) < ResultId(plan, k)
  BY <1>1, <1>2, SharingStep
<1>4. FirstOperand(plan, k) \in Nat /\ ResultId(plan, k) \in ValueIds(plan) /\ k \in Nat /\ ResultId(plan, k) = plan.params + k
  BY <1>3, Numbers
<1>5. ResultId(plan, k) \in Nat
  BY <1>4, Numbers
<1>6. SafePlan(plan) => /\ OwnStorage(plan, FirstOperand(plan, k))
                        /\ last_use_node(plan, FirstOperand(plan, k)) = k
                        /\ ~is_output(plan, FirstOperand(plan, k))
  BY DEF SafePlan, TakesOver, FirstOperand
<1> QED BY <1>3, <1>4, <1>5, <1>6

(* A value that has a root other than itself was computed by a view or by    *)
(* an update in place, and has the root of its operand.                     *)
LEMMA RootBelow ==
  ASSUME NEW plan, Verified(plan), NEW v \in ValueIds(plan)
  PROVE  /\ v \in Nat
         /\ RootOf(plan, v) = v \/
              \E k \in Nodes(plan) :
                /\ v = ResultId(plan, k) /\ RootOf(plan, v) = RootOf(plan, FirstOperand(plan, k))
                /\ FirstOperand(plan, k) \in Operands(plan, k)
                /\ FirstOperand(plan, k) \in ValueIds(plan) /\ FirstOperand(plan, k) \in Nat /\ FirstOperand(plan, k) < v
                /\ k \in Nat /\ k = producer_node(plan, v) /\ producer_node(plan, v) > 0
                /\ Kind(plan, k) = "alias" \/ TakesOver(plan, k)
<1>1. PICK f, l : Covering(plan, f, l)
  BY PlanCovered DEF Covering
<1>2. v \in Nat
  BY Numbers
<1>3. ASSUME RootOf(plan, v) # v
      PROVE  \E k \in Nodes(plan) :
                /\ v = ResultId(plan, k) /\ RootOf(plan, v) = RootOf(plan, FirstOperand(plan, k))
                /\ FirstOperand(plan, k) \in Operands(plan, k)
                /\ FirstOperand(plan, k) \in ValueIds(plan) /\ FirstOperand(plan, k) \in Nat /\ FirstOperand(plan, k) < v
                /\ k \in Nat /\ k = producer_node(plan, v) /\ producer_node(plan, v) > 0
                /\ Kind(plan, k) = "alias" \/ TakesOver(plan, k)
  <2>1. PICK t \in DOMAIN LoweredSteps(plan) : Shared(plan, t) /\ v = ResultId(plan, f[t])
    BY <1>1, <1>3, RootFacts
  <2> DEFINE k == f[t]
  <2>2. /\ k \in Nodes(plan) /\ FirstOperand(plan, k) \in Operands(plan, k)
        /\ FirstOperand(plan, k) \in ValueIds(plan) /\ FirstOperand(plan, k) < v
        /\ Kind(plan, k) = "alias" \/ TakesOver(plan, k)
    BY <1>1, <2>1, SharingStep DEF Shared
  <2>3. RootOf(plan, v) = RootOf(plan, FirstOperand(plan, k)) /\ v = ResultId(plan, k)
    BY <1>1, <2>1, RootFacts
  <2> HIDE DEF k
  <2>4. FirstOperand(plan, k) \in Nat /\ k \in Nat /\ k = producer_node(plan, v) /\ 1 <= k
    BY <2>2, <2>3, Numbers
  <2>5. producer_node(plan, v) > 0
    BY <2>4
  <2> QED BY <2>2, <2>3, <2>4, <2>5
<1> QED BY <1>2, <1>3

LEMMA RootsFall ==
  ASSUME NEW plan, Verified(plan), NEW v \in ValueIds(plan)
  PROVE  RootOf(plan, v) \in ValueIds(plan) /\ RootOf(plan, v) \in Nat /\ RootOf(plan, v) <= v
<1> DEFINE Good == {n \in Nat : n \in ValueIds(plan) => RootOf(plan, n) \in ValueIds(plan) /\ RootOf(plan, n) \in Nat /\ RootOf(plan, n) <= n}
<1>1. ASSUME NEW n \in Nat, \A m \in Nat : m < n => m \in Good PROVE n \in Good
  <2> SUFFICES ASSUME n \in ValueIds(plan) PROVE RootOf(plan, n) \in ValueIds(plan) /\ RootOf(plan, n) \in Nat /\ RootOf(plan, n) <= n
    OBVIOUS
  <2>1. CASE RootOf(plan, n) = n
    BY <2>1
  <2>2. CASE RootOf(plan, n) # n
    <3>1. PICK w \in ValueIds(plan) : w \in Nat /\ w < n /\ RootOf(plan, n) = RootOf(plan, w)
      BY <2>2, RootBelow
    <3>2. w \in Good
      BY <1>1, <3>1
    <3>3. RootOf(plan, w) \in ValueIds(plan) /\ RootOf(plan, w) \in Nat /\ RootOf(plan, w) <= w
      BY <3>1, <3>2
    <3> QED BY <3>1, <3>3
  <2> QED BY <2>1, <2>2
<1> HIDE DEF Good
<1>2. v \in Good
  BY <1>1, NumberInduction, RootBelow
<1> QED BY <1>2 DEF Good

(* The values that have the storage of an operand taken over: the operand,   *)
(* values computed no earlier than by its taker, and operands that were      *)
(* taken over before.                                                      *)
Taken(plan, v, n) == \E j \in Nodes(plan) : TakesOver(plan, j) /\ v = FirstOperand(plan, j) /\ ResultId(plan, j) <= n
Apart(plan, v, i) ==
  RootOf(plan, v) = RootOf(plan, FirstOperand(plan, i)) =>
    v = FirstOperand(plan, i) \/ ResultId(plan, i) <= v \/ Taken(plan, v, FirstOperand(plan, i))

LEMMA StorageChain ==
  ASSUME NEW plan, Verified(plan), SafePlan(plan), NEW v \in ValueIds(plan), NEW i \in Nodes(plan), TakesOver(plan, i)
  PROVE  Apart(plan, v, i)
<1> DEFINE Good == {n \in Nat : \A w \in ValueIds(plan), k \in Nodes(plan) :
                      TakesOver(plan, k) /\ w + FirstOperand(plan, k) = n => Apart(plan, w, k)}
<1>1. ASSUME NEW n \in Nat, \A m \in Nat : m < n => m \in Good PROVE n \in Good
  <2> SUFFICES ASSUME NEW w \in ValueIds(plan), NEW k \in Nodes(plan), TakesOver(plan, k), w + FirstOperand(plan, k) = n,
                      RootOf(plan, w) = RootOf(plan, FirstOperand(plan, k)),
                      w # FirstOperand(plan, k), ~(ResultId(plan, k) <= w)
               PROVE  Taken(plan, w, FirstOperand(plan, k))
    BY DEF Apart
  <2>1. \A x \in ValueIds(plan), j \in Nodes(plan) :
          TakesOver(plan, j) /\ x + FirstOperand(plan, j) \in Nat /\ x + FirstOperand(plan, j) < n => Apart(plan, x, j)
    BY <1>1
  <2> HIDE DEF Good
  <2> DEFINE o == FirstOperand(plan, k)
  <2>2. /\ o \in ValueIds(plan) /\ o \in Nat /\ o < ResultId(plan, k) /\ ResultId(plan, k) \in Nat
        /\ OwnStorage(plan, o) /\ last_use_node(plan, o) = k
    BY TakenOperand
  <2>3. w \in Nat
    BY Numbers
  <2>4. CASE w < o
    <3>1. RootOf(plan, o) # o
      <4>1. RootOf(plan, w) \in Nat /\ RootOf(plan, w) <= w
        BY RootsFall
      <4> QED BY <2>2, <2>3, <2>4, <4>1
    <3>2. PICK p \in Nodes(plan) : /\ o = ResultId(plan, p) /\ RootOf(plan, o) = RootOf(plan, FirstOperand(plan, p))
                                   /\ FirstOperand(plan, p) \in Nat /\ FirstOperand(plan, p) < o
                                   /\ p = producer_node(plan, o) /\ producer_node(plan, o) > 0
                                   /\ Kind(plan, p) = "alias" \/ TakesOver(plan, p)
      BY <2>2, <3>1, RootBelow
    <3>3. TakesOver(plan, p)
      BY <2>2, <3>2 DEF OwnStorage
    <3> DEFINE q == FirstOperand(plan, p)
    <3>4. q \in Nat /\ q < o /\ RootOf(plan, w) = RootOf(plan, q)
      BY <3>2
    <3>5. CASE w = q
      <4>1. ResultId(plan, p) <= o
        BY <2>2, <3>2
      <4> QED BY <3>3, <3>5, <4>1 DEF Taken
    <3>6. CASE w # q
      <4>1. w + q \in Nat /\ w + q < n
        <5> HIDE DEF o, q
        <5> QED BY <2>2, <2>3, <3>4 DEF o
      <4>2. Apart(plan, w, p)
        BY <2>1, <3>3, <4>1
      <4>3. ~(ResultId(plan, p) <= w)
        BY <2>2, <2>3, <2>4, <3>2
      <4>4. Taken(plan, w, q)
        BY <3>4, <3>6, <4>2, <4>3 DEF Apart
      <4>5. PICK j \in Nodes(plan) : TakesOver(plan, j) /\ w = FirstOperand(plan, j) /\ ResultId(plan, j) <= q
        BY <4>4 DEF Taken
      <4>6. ResultId(plan, j) \in Nat
        BY <4>5, TakenOperand
      <4>7. ResultId(plan, j) <= o
        BY <2>2, <3>4, <4>5, <4>6
      <4> QED BY <4>5, <4>7 DEF Taken
    <3> QED BY <3>5, <3>6
  <2>5. CASE o < w
    <3>1. RootOf(plan, w) # w
      <4>1. RootOf(plan, o) \in Nat /\ RootOf(plan, o) <= o
        BY <2>2, RootsFall
      <4> QED BY <2>2, <2>3, <2>5, <4>1
    <3>2. PICK p \in Nodes(plan) : /\ w = ResultId(plan, p) /\ RootOf(plan, w) = RootOf(plan, FirstOperand(plan, p))
                                   /\ FirstOperand(plan, p) \in Operands(plan, p)
                                   /\ FirstOperand(plan, p) \in ValueIds(plan) /\ FirstOperand(plan, p) \in Nat /\ FirstOperand(plan, p) < w
                                   /\ p \in Nat
                                   /\ Kind(plan, p) = "alias" \/ TakesOver(plan, p)
      BY <3>1, RootBelow
    <3> DEFINE x == FirstOperand(plan, p)
    <3>3. x + o \in Nat /\ x + o < n
      <4>1. x \in Nat /\ x < w
        BY <3>2
      <4> HIDE DEF o, x
      <4> QED BY <2>2, <2>3, <4>1 DEF o
    <3>4. Apart(plan, x, k)
      BY <2>1, <3>2, <3>3
    <3>5. RootOf(plan, x) = RootOf(plan, o)
      BY <3>2
    <3>6. x # o
      <4> SUFFICES ASSUME x = o PROVE FALSE
        OBVIOUS
      <4>1. p \in Uses(plan, o)
        BY <3>2 DEF Uses
      <4>2. TakesOver(plan, p)
        BY <2>2, <3>2, <4>1 DEF OwnStorage
      <4>3. last_use_node(plan, o) = p
        BY <4>2, TakenOperand
      <4>4. ResultId(plan, k) = w
        BY <2>2, <3>2, <4>3
      <4> QED BY <2>2, <4>4
    <3>7. ~(ResultId(plan, k) <= x)
      BY <2>2, <2>3, <3>2
    <3>8. PICK j \in Nodes(plan) : TakesOver(plan, j) /\ x = FirstOperand(plan, j) /\ ResultId(plan, j) <= o
      BY <3>4, <3>5, <3>6, <3>7 DEF Apart, Taken
    <3>9. last_use_node(plan, x) = j /\ j \in Nat /\ ResultId(plan, j) = plan.params + j /\ ResultId(plan, j) \in Nat
      BY <3>8, TakenOperand
    <3>10. p <= j
      BY <3>2, <3>9, LastUse
    <3>11. ResultId(plan, p) = plan.params + p /\ plan.params \in Nat
      BY Numbers, PlanShape
    <3>12. w <= ResultId(plan, j)
      <4> DEFINE m == plan.params
      <4>1. w = m + p /\ ResultId(plan, j) = m + j /\ m \in Nat
        BY <3>2, <3>9, <3>11
      <4> HIDE DEF m
      <4> QED BY <3>2, <3>9, <3>10, <4>1
    <3> QED BY <2>2, <2>3, <2>5, <3>8, <3>9, <3>12
  <2> QED BY <2>2, <2>3, <2>4, <2>5
<1> HIDE DEF Good
<1>2. v + FirstOperand(plan, i) \in Nat
  BY TakenOperand, Numbers
<1>3. v + FirstOperand(plan, i) \in Good
  BY <1>1, <1>2, NumberInduction
<1> QED BY <1>3 DEF Good

(* The root of an operand taken over is one too: its chain of updates begins *)
(* where storage was taken over first.                                     *)
LEMMA RootTaken ==
  ASSUME NEW plan, Verified(plan), SafePlan(plan), NEW i \in Nodes(plan), TakesOver(plan, i)
  PROVE  \E j \in Nodes(plan) : TakesOver(plan, j) /\ RootOf(plan, FirstOperand(plan, i)) = FirstOperand(plan, j)
<1> DEFINE Good == {n \in Nat : \A k \in Nodes(plan) : TakesOver(plan, k) /\ FirstOperand(plan, k) = n =>
                      \E j \in Nodes(plan) : TakesOver(plan, j) /\ RootOf(plan, n) = FirstOperand(plan, j)}
<1>1. ASSUME NEW n \in Nat, \A m \in Nat : m < n => m \in Good PROVE n \in Good
  <2> SUFFICES ASSUME NEW k \in Nodes(plan), TakesOver(plan, k), FirstOperand(plan, k) = n
               PROVE  \E j \in Nodes(plan) : TakesOver(plan, j) /\ RootOf(plan, n) = FirstOperand(plan, j)
    OBVIOUS
  <2>1. CASE RootOf(plan, n) = n
    BY <2>1
  <2>2. CASE RootOf(plan, n) # n
    <3>1. n \in ValueIds(plan) /\ OwnStorage(plan, n)
      BY TakenOperand
    <3>2. PICK p \in Nodes(plan) : /\ RootOf(plan, n) = RootOf(plan, FirstOperand(plan, p))
                                   /\ FirstOperand(plan, p) \in Nat /\ FirstOperand(plan, p) < n
                                   /\ p = producer_node(plan, n) /\ producer_node(plan, n) > 0
                                   /\ Kind(plan, p) = "alias" \/ TakesOver(plan, p)
      BY <2>2, <3>1, RootBelow
    <3>3. TakesOver(plan, p)
      BY <3>1, <3>2 DEF OwnStorage
    <3>4. FirstOperand(plan, p) \in Good
      BY <1>1, <3>2
    <3> QED BY <3>2, <3>3, <3>4
  <2> QED BY <2>1, <2>2
<1> HIDE DEF Good
<1>2. FirstOperand(plan, i) \in Nat
  BY TakenOperand
<1>3. FirstOperand(plan, i) \in Good
  BY <1>1, <1>2, NumberInduction
<1> QED BY <1>3 DEF Good

(* An operand that is an argument or a constant is taken over only if it is  *)
(* an argument donated.                                                    *)
LEMMA TakenKnown ==
  ASSUME NEW plan, Verified(plan), NEW k \in Nodes(plan), TakesOver(plan, k), FirstOperand(plan, k) \in Known(plan)
  PROVE  FirstOperand(plan, k) \in 1 .. plan.params /\ \E a \in plan.donations : a.parameter = FirstOperand(plan, k)
<1>1. FirstOperand(plan, k) \notin releaseValuesAfter(plan, {k})
  <2> SUFFICES ASSUME FirstOperand(plan, k) \in releaseValuesAfter(plan, {k}) PROVE FALSE
    OBVIOUS
  <2> DEFINE v == FirstOperand(plan, k)
  <2>1. producer_node(plan, v) > 0 /\ Kind(plan, producer_node(plan, v)) # "constant"
    BY DEF releaseValuesAfter, releasableValue
  <2>2. v \in ValueIds(plan)
    BY TakenOperand
  <2>3. v > plan.params /\ v \in Nat
    BY <2>1, <2>2, Numbers
  <2> HIDE DEF v
  <2>4. v \notin 1 .. plan.params
    BY <2>3, PlanShape
  <2>5. PICK i \in Nodes(plan) : v = ResultId(plan, i) /\ Kind(plan, i) = "constant"
    BY <2>4 DEF Known, ConstantIds, v
  <2> QED BY <2>1, <2>5, Numbers
<1>2. \E a \in plan.donations : a.parameter = FirstOperand(plan, k)
  BY <1>1 DEF TakesOver, UpdatesInPlace, FirstOperand
<1> QED BY <1>2, PlanShape

LEMMA LoweredWritten ==
  ASSUME NEW plan, Verified(plan), NEW f, NEW l, Covering(plan, f, l)
  PROVE  /\ \A t \in Updates(Lower(plan)) :
              /\ t \in DOMAIN LoweredSteps(plan) /\ f[t] \in Nodes(plan) /\ l[t] = f[t] /\ TakesOver(plan, f[t])
              /\ InPlaceOperand(Lower(plan), t) = FirstOperand(plan, f[t])
         /\ WrittenRoots(Lower(plan)) = {RootOf(plan, v) : v \in TakenOver(plan)}
         /\ \A k \in Nodes(plan) : TakesOver(plan, k) => RootOf(plan, FirstOperand(plan, k)) \in WrittenRoots(Lower(plan))
         /\ \A x \in WrittenRoots(Lower(plan)) : \E k \in Nodes(plan) : TakesOver(plan, k) /\ x = RootOf(plan, FirstOperand(plan, k))
<1> DEFINE r == Lower(plan)
           s == LoweredSteps(plan)
<1>1. /\ r.steps = s /\ Steps(r) = DOMAIN s
      /\ \A v : r.root[v] = RootOf(plan, v)
  BY LowerIs, LoweredParts DEF RootOf
<1> HIDE DEF r
<1>2. ASSUME NEW t \in Updates(r)
      PROVE  /\ t \in DOMAIN s /\ f[t] \in Nodes(plan) /\ l[t] = f[t] /\ TakesOver(plan, f[t])
             /\ InPlaceOperand(r, t) = FirstOperand(plan, f[t])
  <2>1. t \in DOMAIN s /\ s[t].in_place # 0 /\ Shared(plan, t)
    BY <1>1 DEF Updates, Shared
  <2>2. /\ f[t] \in Nodes(plan) /\ l[t] = f[t] /\ TakesOver(plan, f[t])
        /\ s[t].inputs[1] = FirstOperand(plan, f[t]) /\ s[t].in_place = 1
    BY <2>1, SharingStep
  <2> QED BY <1>1, <2>1, <2>2 DEF InPlaceOperand
<1>3. ASSUME NEW k \in Nodes(plan), TakesOver(plan, k) PROVE RootOf(plan, FirstOperand(plan, k)) \in WrittenRoots(r)
  <2>1. PICK t \in DOMAIN s : s[t].in_place # 0 /\ f[t] = k
    BY <1>3, TakingStep
  <2>2. t \in Updates(r)
    BY <1>1, <2>1 DEF Updates
  <2>3. RootOf(plan, FirstOperand(plan, k)) = r.root[InPlaceOperand(r, t)]
    BY <1>1, <1>2, <2>1, <2>2
  <2> QED BY <2>2, <2>3 DEF WrittenRoots
<1>4. ASSUME NEW x \in WrittenRoots(r)
      PROVE  \E k \in Nodes(plan) : TakesOver(plan, k) /\ x = RootOf(plan, FirstOperand(plan, k))
  <2>1. PICK t \in Updates(r) : x = r.root[InPlaceOperand(r, t)]
    BY DEF WrittenRoots
  <2> QED BY <1>1, <1>2, <2>1
<1>5. TakenOver(plan) = {FirstOperand(plan, i) : i \in {j \in Nodes(plan) : TakesOver(plan, j)}}
  BY DEF TakenOver, FirstOperand, TakesOver
<1>6. WrittenRoots(r) = {RootOf(plan, v) : v \in TakenOver(plan)}
  BY <1>3, <1>4, <1>5
<1> QED BY <1>2, <1>3, <1>4, <1>6 DEF r

LEMMA LoweredExclusive ==
  ASSUME NEW plan, Verified(plan), SafePlan(plan)
  PROVE  Exclusive(Lower(plan))
<1> DEFINE r == Lower(plan)
           s == LoweredSteps(plan)
           W == WrittenRoots(r)
<1>1. PICK f, l : Covering(plan, f, l)
  BY PlanCovered DEF Covering
<1>2. /\ Steps(r) = DOMAIN s /\ Elements(r.inputs) = Known(plan) /\ Known(plan) \subseteq ValueIds(plan)
      /\ Parameters(r) = 1 .. plan.params
      /\ \A i \in 1 .. plan.params : r.inputs[i] = i
      /\ Elements(r.outputs) = Range(plan.output_ids) /\ Range(plan.output_ids) \subseteq ValueIds(plan)
      /\ r.donated = {a.parameter : a \in plan.donations}
      /\ \A v : r.root[v] = RootOf(plan, v)
      /\ \A t : /\ Defined(r, t) = Known(plan) \cup UNION {Elements(s[u].outputs) : u \in {x \in DOMAIN s : x < t}}
                /\ Needed(r, t) = Range(plan.output_ids) \cup UNION {Elements(s[u].inputs) : u \in {x \in DOMAIN s : x >= t}}
  <2>1. /\ Steps(r) = DOMAIN s
        /\ Elements(r.outputs) = Range(plan.output_ids) /\ Range(plan.output_ids) \subseteq ValueIds(plan)
        /\ \A t : /\ Defined(r, t) = Known(plan) \cup UNION {Elements(s[u].outputs) : u \in {x \in DOMAIN s : x < t}}
                  /\ Needed(r, t) = Range(plan.output_ids) \cup UNION {Elements(s[u].inputs) : u \in {x \in DOMAIN s : x >= t}}
    BY LoweredParts
  <2>2. /\ Elements(r.inputs) = Known(plan) /\ Known(plan) \subseteq ValueIds(plan)
        /\ Parameters(r) = 1 .. plan.params /\ \A i \in 1 .. plan.params : r.inputs[i] = i
    BY LoweredInputs
  <2>3. r.donated = {a.parameter : a \in plan.donations} /\ \A v : r.root[v] = RootOf(plan, v)
    BY LowerIs DEF RootOf
  <2> QED BY <2>1, <2>2, <2>3
<1>3. /\ \A t \in Updates(r) :
           /\ t \in DOMAIN s /\ f[t] \in Nodes(plan) /\ l[t] = f[t] /\ TakesOver(plan, f[t])
           /\ InPlaceOperand(r, t) = FirstOperand(plan, f[t])
      /\ W = {RootOf(plan, v) : v \in TakenOver(plan)}
      /\ \A k \in Nodes(plan) : TakesOver(plan, k) => RootOf(plan, FirstOperand(plan, k)) \in W
      /\ \A x \in W : \E k \in Nodes(plan) : TakesOver(plan, k) /\ x = RootOf(plan, FirstOperand(plan, k))
  BY <1>1, LoweredWritten
<1> HIDE DEF r, s, W
<1>4. ASSUME NEW t \in Updates(r), NEW v \in Defined(r, t) \cap Needed(r, t + 1), r.root[v] = r.root[InPlaceOperand(r, t)]
      PROVE  FALSE
  <2> DEFINE i == f[t]
             o == FirstOperand(plan, i)
  <2>1. /\ t \in DOMAIN s /\ i \in Nodes(plan) /\ l[t] = i /\ TakesOver(plan, i) /\ InPlaceOperand(r, t) = o
    BY <1>3
  <2>2. /\ o \in ValueIds(plan) /\ o \in Nat /\ o < ResultId(plan, i) /\ ResultId(plan, i) \in Nat /\ i \in Nat
        /\ last_use_node(plan, o) = i /\ ~is_output(plan, o)
    BY <2>1, TakenOperand
  <2>3. RootOf(plan, v) = RootOf(plan, o)
    BY <1>2, <1>4, <2>1
  <2> HIDE DEF i
  <2>4. v \in ValueIds(plan) /\ v \in Nat /\ v < ResultId(plan, i)
    <3>1. CASE v \in Known(plan)
      <4>1. RootOf(plan, v) = v /\ v \in ValueIds(plan)
        BY <1>1, <1>2, <3>1, RootFacts
      <4>2. v <= o
        BY <2>2, <2>3, <4>1, RootsFall
      <4>3. v \in Nat
        BY <4>1, Numbers
      <4> HIDE DEF o
      <4> QED BY <2>2, <4>1, <4>2, <4>3
    <3>2. CASE v \notin Known(plan)
      <4>1. PICK u \in DOMAIN s : u < t /\ v \in Elements(s[u].outputs)
        BY <1>2, <3>2
      <4>2. StepFits(plan, f[u], l[u], s[u])
        BY <1>1, <4>1, StepAt DEF s
      <4>3. v \in Results(plan, f[u] .. l[u])
        BY <4>1, <4>2 DEF StepFits
      <4>4. PICK k \in f[u] .. l[u] : v = ResultId(plan, k)
        BY <4>3 DEF Results
      <4>5. i \in f[t] .. l[t]
        BY <2>1, <2>2 DEF i
      <4>6. k < i
        BY <1>1, <2>1, <4>1, <4>4, <4>5, StepsInOrder DEF s
      <4>7. k \in Nodes(plan)
        BY <1>1, <4>1, <4>4, StepAt DEF s
      <4>8. v \in ValueIds(plan) /\ k \in Nat /\ ResultId(plan, k) = plan.params + k /\ ResultId(plan, i) = plan.params + i /\ plan.params \in Nat
        BY <2>1, <4>4, <4>7, Numbers, PlanShape
      <4>9. v < ResultId(plan, i)
        <5> DEFINE m == plan.params
        <5>1. v = m + k /\ ResultId(plan, i) = m + i /\ m \in Nat
          BY <4>4, <4>8
        <5> HIDE DEF m
        <5> QED BY <2>2, <4>6, <4>8, <5>1
      <4> QED BY <4>8, <4>9, Numbers
    <3> QED BY <3>1, <3>2
  <2>5. v = o \/ \E j \in Nodes(plan) : TakesOver(plan, j) /\ v = FirstOperand(plan, j) /\ ResultId(plan, j) <= o
    <3>1. Apart(plan, v, i)
      BY <2>1, <2>4, StorageChain
    <3>2. ~(ResultId(plan, i) <= v)
      BY <2>2, <2>4
    <3> QED BY <2>3, <3>1, <3>2 DEF Apart, Taken
  <2>6. ~is_output(plan, v) /\ last_use_node(plan, v) \in Nat /\ last_use_node(plan, v) <= i
    <3>1. CASE v = o
      BY <2>2, <3>1
    <3>2. CASE v # o
      <4>1. PICK j \in Nodes(plan) : TakesOver(plan, j) /\ v = FirstOperand(plan, j) /\ ResultId(plan, j) <= o
        BY <2>5, <3>2
      <4>2. last_use_node(plan, v) = j /\ ~is_output(plan, v) /\ j \in Nat /\ ResultId(plan, j) = plan.params + j /\ ResultId(plan, j) \in Nat
        BY <4>1, TakenOperand
      <4>3. ResultId(plan, i) = plan.params + i /\ plan.params \in Nat
        BY <2>1, Numbers, PlanShape
      <4>4. j <= i
        <5> DEFINE m == plan.params
        <5>1. ResultId(plan, j) = m + j /\ ResultId(plan, i) = m + i /\ m \in Nat
          BY <4>2, <4>3
        <5>2. ResultId(plan, j) <= o
          BY <4>1
        <5> HIDE DEF m, o
        <5> QED BY <2>2, <4>2, <5>1, <5>2
      <4> QED BY <4>2, <4>4
    <3> QED BY <3>1, <3>2
  <2>7. v \notin Range(plan.output_ids)
    BY <2>6 DEF is_output
  <2>8. PICK u \in DOMAIN s : u >= t + 1 /\ v \in Elements(s[u].inputs)
    BY <1>2, <1>4, <2>7
  <2>9. PICK k \in f[u] .. l[u] : k \in Nodes(plan) /\ k <= last_use_node(plan, v)
    BY <1>1, <2>8, ReadIsUsed DEF s
  <2>10. t \in Nat /\ u \in Nat
    BY <1>1, <2>1, <2>8, StepsInOrder DEF s
  <2>11. t < u
    BY <2>8, <2>10
  <2>12. i \in f[t] .. l[t]
    BY <2>1, <2>2 DEF i
  <2>13. i < k
    BY <1>1, <2>1, <2>8, <2>9, <2>11, <2>12, StepsInOrder DEF s
  <2>14. k \in Nat
    BY <2>9, Numbers
  <2> QED BY <2>2, <2>6, <2>9, <2>13, <2>14
<1>5. ASSUME NEW x \in W \cap Known(plan) PROVE x \in 1 .. plan.params /\ x \in r.donated
  <2>1. PICK i \in Nodes(plan) : TakesOver(plan, i) /\ x = RootOf(plan, FirstOperand(plan, i))
    BY <1>3
  <2>2. PICK j \in Nodes(plan) : TakesOver(plan, j) /\ x = FirstOperand(plan, j)
    BY <2>1, RootTaken
  <2>3. x \in 1 .. plan.params /\ \E a \in plan.donations : a.parameter = x
    BY <1>5, <2>2, TakenKnown
  <2> QED BY <1>2, <2>3
<1>6. W \cap Elements(r.inputs) \subseteq {r.inputs[i] : i \in r.donated}
  BY <1>2, <1>5
<1>7. ASSUME W \cap Elements(r.inputs) # {}, NEW v \in Elements(r.outputs), r.root[v] \in Parameters(r)
      PROVE  r.root[v] \in W
  <2>1. W \cap (1 .. plan.params) # {}
    BY <1>2, <1>5, <1>7
  <2>2. W \cap (1 .. plan.params) # {} =>
          \A w \in Range(plan.output_ids) : RootOf(plan, w) > plan.params \/ RootOf(plan, w) \in W
    BY <1>3 DEF SafePlan, RootOf
  <2>3. RootOf(plan, v) > plan.params \/ RootOf(plan, v) \in W
    BY <1>2, <1>7, <2>1, <2>2
  <2>4. RootOf(plan, v) \in 1 .. plan.params /\ plan.params \in Nat
    BY <1>2, <1>7, PlanShape
  <2>5. ~(RootOf(plan, v) > plan.params)
    BY <2>4
  <2> QED BY <1>2, <2>3, <2>5
<1>8. Exclusive(r)
  BY <1>4, <1>6, <1>7 DEF Exclusive, W
<1> QED BY <1>8 DEF r
----------------------------------------------------------------------------
(* The planner's programs.                                                 *)

LEMMA LoweredWellFormed ==
  ASSUME NEW plan, Verified(plan), \A s, arguments : Compute(s, arguments) = RunKernel(s, arguments)
  PROVE  /\ Lower(plan).safe => WellFormed(Lower(plan))
         /\ Lower(plan).compact => Timely(Lower(plan))
<1>1. (Lower(plan).safe => SafePlan(plan)) /\ (Lower(plan).compact => NoDeadCode(plan))
  BY LowerIs
<1>2. SafePlan(plan) => WellFormed(Lower(plan))
  BY LoweredAccepted, LoweredScheduled, LoweredMeaning, LoweredRooted, LoweredExclusive DEF WellFormed
<1> QED BY <1>1, <1>2, LoweredTimely

(* The requests that claim to be right are lowered from plans, by programs   *)
(* whose kernels compute their nodes.                                       *)
Planned ==
  /\ \A r \in Requests : r.safe \/ r.compact => \E plan : Verified(plan) /\ r = Lower(plan)
  /\ \A s, arguments : Compute(s, arguments) = RunKernel(s, arguments)

(* For every plan the importer lets through, with any number of instructions, *)
(* the lowering makes a well-formed program, if the plan is a safe one, and   *)
(* one that misses no release, if it has no dead code.                      *)
THEOREM PlannerIsRight ==
  ASSUME Planned
  PROVE  Spec => []LoweringWellFormed
<1>1. ASSUME NEW r \in Requests PROVE (r.safe => WellFormed(r)) /\ (r.compact => Timely(r))
  <2>1. CASE r.safe \/ r.compact
    <3>1. PICK plan : Verified(plan) /\ r = Lower(plan)
      BY <2>1 DEF Planned
    <3> QED BY <3>1, LoweredWellFormed DEF Planned
  <2>2. CASE ~(r.safe \/ r.compact)
    BY <2>2
  <2> QED BY <2>1, <2>2
<1>2. Inv => LoweringWellFormed
  BY <1>1 DEF Inv, TypeInv, LoweringWellFormed
<1> QED BY <1>2, Invariance, PTL

(* So nothing dead keeps memory in a program of the planner's.             *)
THEOREM PlannedReleasesAreTimely ==
  ASSUME Planned
  PROVE  Spec => []DeadValuesReleased
BY PlannerIsRight, DeadValuesAreReleased, PTL

(* And a safe plan is executed as it means: what the host was given is the    *)
(* meaning of the plan's outputs, and no argument that was not donated has    *)
(* changed, after any executions, failed ones too.                          *)
THEOREM PlannedExecutionIsRight ==
  ASSUME Planned
  PROVE  Spec => [](program.safe =>
                      /\ \A h \in held : h.storage # None /\ heap[h.storage] = h.data
                      /\ \A s \in DOMAIN HostArrays \ donated : heap[s] = HostArrays[s].data)
<1>1. LoweringWellFormed /\ OutputsCorrect /\ ArgumentsIntact =>
        (program.safe =>
           /\ \A h \in held : h.storage # None /\ heap[h.storage] = h.data
           /\ \A s \in DOMAIN HostArrays \ donated : heap[s] = HostArrays[s].data)
  BY DEF LoweringWellFormed, OutputsCorrect, ArgumentsIntact
<1> QED BY <1>1, PlannerIsRight, OutputsStayCorrect, ArgumentsStayIntact, PTL
=============================================================================
