------------------------------- MODULE MlxArrays -------------------------------
(***************************************************************************)
(* The arrays of the MLX library and the primitives that                    *)
(* src/backend/mlx_metal/api.cc calls on them.  The library is not in the   *)
(* repository: each primitive is what its use there relies on.              *)
(*                                                                         *)
(* An array is its shape, the type of its elements, the element at every    *)
(* index, a tuple of one number per axis, and its strides.  Axes and        *)
(* indices count from 0, as in the code.                                    *)
(*                                                                         *)
(* The strides of an array that has been computed say where in memory the   *)
(* elements are: those of a transposed or a cut array are not row-major.    *)
(* An array not computed yet, as the primitives return it, has row-major    *)
(* strides whatever it will be.                                            *)
(***************************************************************************)
EXTENDS Integers, Sequences, FiniteSets, FiniteSetsExt, SequencesExt, Functions

Garbage == -9999    \* what is read out of bounds
Lowest == -1000     \* minus infinity

At(s, axis) == s[axis + 1]
Axes(s) == 0 .. Len(s) - 1
(* The sequence of length n whose member for an axis is F(axis).            *)
PerAxis(n, F(_)) == [k \in 1 .. n |-> F(k - 1)]
Positions(s, axis) == {a \in Axes(s) : At(s, a) = axis}

Size(shape) == FoldLeft(LAMBDA a, b : a * b, 1, shape)
Index(shape) ==
  {ix \in [1 .. Len(shape) -> 0 .. Max({0} \cup ToSet(shape))] : \A k \in DOMAIN shape : ix[k] < shape[k]}

(* Row-major order.                                                        *)
Strides(shape) == [k \in 1 .. Len(shape) |-> Size(SubSeq(shape, k + 1, Len(shape)))]
Array(shape, dtype, F(_)) ==
  [shape |-> shape, dtype |-> dtype, strides |-> Strides(shape), at |-> [ix \in Index(shape) |-> F(ix)]]
Read(a, ix) == IF ix \in DOMAIN a.at THEN a.at[ix] ELSE Garbage
Offset(ix, strides) == FoldLeft(LAMBDA a, b : a + b, 0, [k \in DOMAIN ix |-> ix[k] * strides[k]])
Nth(shape, n) == [k \in DOMAIN shape |-> (n \div Strides(shape)[k]) % shape[k]]

Dropped(s, axes) == LET kept == SetToSortSeq(Axes(s) \ axes, <) IN [k \in DOMAIN kept |-> At(s, kept[k])]
Picked(s, axes) == [k \in DOMAIN axes |-> At(s, axes[k])]
With(s, axis, x) == [s EXCEPT ![axis + 1] = x]
Plus(s, t) == [k \in DOMAIN s |-> s[k] + t[k]]
----------------------------------------------------------------------------
reshape(a, shape) == Array(shape, a.dtype, LAMBDA ix : a.at[Nth(a.shape, Offset(ix, Strides(shape)))])

transpose(a, axes) ==
  Array(Picked(a.shape, axes), a.dtype, LAMBDA ix : a.at[PerAxis(Len(axes), LAMBDA x : At(ix, CHOOSE k \in Axes(axes) : At(axes, k) = x))])

(* The axes are aligned at the last; one of size 1 is repeated.             *)
Broadcasts(from, to) ==
  /\ Len(from) <= Len(to)
  /\ \A k \in DOMAIN from : from[k] \in {1, to[k + Len(to) - Len(from)]}
broadcast_to(a, shape) ==
  Array(shape, a.dtype, LAMBDA ix : a.at[[k \in DOMAIN a.shape |->
          IF a.shape[k] = 1 THEN 0 ELSE ix[k + Len(shape) - Len(a.shape)]]])

astype(a, dtype, Convert(_)) == Array(a.shape, dtype, LAMBDA ix : Convert(a.at[ix]))
arange(n, dtype) == Array(<<n>>, dtype, LAMBDA ix : ix[1])
full(shape, v) == Array(shape, v.dtype, LAMBDA ix : v.at[<<>>])
squeeze(a, axes) ==
  Array(Dropped(a.shape, axes), a.dtype, LAMBDA ix :
    a.at[PerAxis(Len(a.shape), LAMBDA x : IF x \in axes THEN 0 ELSE At(ix, Cardinality({y \in Axes(a.shape) \ axes : y < x})))])

(* A negative stop counts from the end of the axis, and a stop past the end *)
(* is the end.                                                             *)
Bounded(stop, dim) == IF stop < 0 THEN Max({stop + dim, -1}) ELSE Min({stop, dim})
Count(start, stop, stride) ==
  IF stride > 0 THEN Max({0, (stop - start + stride - 1) \div stride}) ELSE Max({0, (start - stop - stride - 1) \div (-stride)})
SliceShape(shape, start, stop, strides) ==
  [k \in DOMAIN shape |-> Count(start[k], Bounded(stop[k], shape[k]), strides[k])]
slice(a, start, stop, strides) ==
  Array(SliceShape(a.shape, start, stop, strides), a.dtype, LAMBDA ix : Read(a, [k \in DOMAIN ix |-> start[k] + ix[k] * strides[k]]))
slice_update(a, update, start, strides) ==
  Array(a.shape, a.dtype, LAMBDA ix :
    LET from == {u \in DOMAIN update.at : [k \in DOMAIN u |-> start[k] + u[k] * strides[k]] = ix}
    IN IF from = {} THEN a.at[ix] ELSE update.at[CHOOSE u \in from : TRUE])

pad(a, low, high, v) ==
  Array([k \in DOMAIN a.shape |-> low[k] + a.shape[k] + high[k]], a.dtype, LAMBDA ix :
    LET from == [k \in DOMAIN ix |-> ix[k] - low[k]] IN IF from \in DOMAIN a.at THEN a.at[from] ELSE v)
concatenate(a, b, axis) ==
  Array(With(a.shape, axis, At(a.shape, axis) + At(b.shape, axis)), a.dtype, LAMBDA ix :
    IF At(ix, axis) < At(a.shape, axis) THEN a.at[ix] ELSE b.at[With(ix, axis, At(ix, axis) - At(a.shape, axis))])

Sum(f) == FoldFunction(LAMBDA x, y : x + y, 0, f)
(* Elements of 8 bits wrap around.                                         *)
Stored(dtype, x) == IF dtype = "U8" THEN x % 256 ELSE x
map1(a, dtype, F(_)) == Array(a.shape, dtype, LAMBDA ix : F(a.at[ix]))
map2(a, b, dtype, F(_, _)) ==
  LET shape == IF Len(a.shape) >= Len(b.shape) THEN a.shape ELSE b.shape
  IN Array(shape, dtype, LAMBDA ix : F(broadcast_to(a, shape).at[ix], broadcast_to(b, shape).at[ix]))
Arith(a, b, F(_, _)) == map2(a, b, a.dtype, LAMBDA x, y : Stored(a.dtype, F(x, y)))
add(a, b) == Arith(a, b, LAMBDA x, y : x + y)
subtract(a, b) == Arith(a, b, LAMBDA x, y : x - y)
multiply(a, b) == Arith(a, b, LAMBDA x, y : x * y)
maximum(a, b) == Arith(a, b, LAMBDA x, y : IF x > y THEN x ELSE y)
minimum(a, b) == Arith(a, b, LAMBDA x, y : IF x < y THEN x ELSE y)
floor_divide(a, b) == Arith(a, b, LAMBDA x, y : x \div y)
(* Integers are divided as floating-point numbers (here exactly).           *)
divide(a, b) == map2(a, b, IF a.dtype \in {"F16", "BF16"} THEN a.dtype ELSE "F32", LAMBDA x, y : x \div y)
(* The remainder has the sign of the divisor (here positive).               *)
remainder(a, b) == Arith(a, b, LAMBDA x, y : x % y)
Bits(x, y, F(_, _)) == Sum([k \in 0 .. 7 |-> 2^k * F((x \div 2^k) % 2, (y \div 2^k) % 2)])
bitwise_and(a, b) == Arith(a, b, LAMBDA x, y : Bits(x, y, LAMBDA p, q : p * q))
bitwise_or(a, b) == Arith(a, b, LAMBDA x, y : Bits(x, y, LAMBDA p, q : IF p + q > 0 THEN 1 ELSE 0))
bitwise_xor(a, b) == Arith(a, b, LAMBDA x, y : Bits(x, y, LAMBDA p, q : (p + q) % 2))
Test(a, b, F(_, _)) == map2(a, b, "PRED", LAMBDA x, y : IF F(x, y) THEN 1 ELSE 0)
logical_and(a, b) == Test(a, b, LAMBDA x, y : x = 1 /\ y = 1)
logical_or(a, b) == Test(a, b, LAMBDA x, y : x = 1 \/ y = 1)
equal(a, b) == Test(a, b, LAMBDA x, y : x = y)
not_equal(a, b) == Test(a, b, LAMBDA x, y : x # y)
greater(a, b) == Test(a, b, LAMBDA x, y : x > y)
greater_equal(a, b) == Test(a, b, LAMBDA x, y : x >= y)
less(a, b) == Test(a, b, LAMBDA x, y : x < y)
less_equal(a, b) == Test(a, b, LAMBDA x, y : x <= y)
negative(a) == map1(a, a.dtype, LAMBDA x : Stored(a.dtype, -x))
abs(a) == map1(a, a.dtype, LAMBDA x : IF x < 0 THEN -x ELSE x)
sign(a) == map1(a, a.dtype, LAMBDA x : IF x > 0 THEN 1 ELSE IF x < 0 THEN -1 ELSE 0)
where(p, a, b) == Array(a.shape, a.dtype, LAMBDA ix : IF p.at[ix] = 1 THEN a.at[ix] ELSE b.at[ix])

(* An axis may be counted from the end.  It throws on one that the array    *)
(* does not have, and on one given twice.                                  *)
FromStart(axes, rank) == [k \in DOMAIN axes |-> IF axes[k] < 0 THEN axes[k] + rank ELSE axes[k]]
Reducible(shape, axes) ==
  LET given == FromStart(axes, Len(shape)) IN IsInjective(given) /\ ToSet(given) \subseteq Axes(shape)
(* Element ix of the reduction is F of the elements over the reduced axes,  *)
(* given as a function of their indices.                                   *)
reduce(a, axes, dtype, F(_)) ==
  Array(Dropped(a.shape, axes), dtype, LAMBDA ix : F([x \in {y \in DOMAIN a.at : Dropped(y, axes) = ix} |-> a.at[x]]))
sum(a, axes) == reduce(a, axes, a.dtype, Sum)
max(a, axes) == reduce(a, axes, a.dtype, LAMBDA f : Max(Range(f)))
min(a, axes) == reduce(a, axes, a.dtype, LAMBDA f : Min(Range(f)))
all(a, axes) == reduce(a, axes, "PRED", LAMBDA f : Min(Range(f)))
any(a, axes) == reduce(a, axes, "PRED", LAMBDA f : Max(Range(f)))

(* The array is put in row-major order first, whatever its own strides.     *)
as_strided(a, shape, strides) ==
  Array(shape, a.dtype, LAMBDA ix :
    IF Offset(ix, strides) < Size(a.shape) THEN a.at[Nth(a.shape, Offset(ix, strides))] ELSE Garbage)

(* Index arrays give the start of the slice on the axes they are for.       *)
Slot(axes, indices, ix, rank) ==
  PerAxis(rank, LAMBDA x : IF Positions(axes, x) = {} THEN 0 ELSE At(indices, CHOOSE k \in Positions(axes, x) : TRUE).at[ix])
gather(a, indices, axes, slice_sizes) ==
  LET n == Len(indices[1].shape)
  IN Array(indices[1].shape \o slice_sizes, a.dtype, LAMBDA ix :
       Read(a, Plus(Slot(axes, indices, SubSeq(ix, 1, n), Len(a.shape)), SubSeq(ix, n + 1, Len(ix)))))

(* Updates are applied in row-major order; one out of bounds is lost.       *)
scatter(a, indices, updates, axes, accumulate) ==
  LET n == Len(indices[1].shape)
      Target(u) == Plus(Slot(axes, indices, SubSeq(u, 1, n), Len(a.shape)), SubSeq(u, n + 1, Len(u)))
      Hits(ix) == {k \in 0 .. Size(updates.shape) - 1 : Target(Nth(updates.shape, k)) = ix}
      Value(k) == updates.at[Nth(updates.shape, k)]
  IN Array(a.shape, a.dtype, LAMBDA ix :
       IF accumulate THEN a.at[ix] + Sum([k \in Hits(ix) |-> Value(k)])
       ELSE IF Hits(ix) = {} THEN a.at[ix] ELSE Value(Max(Hits(ix))))

(* Along one axis, with indices of the operand's rank.                      *)
scatter_along_axis(a, indices, updates, axis, accumulate) ==
  LET Hits(ix) == {jx \in DOMAIN indices.at : With(jx, axis, indices.at[jx]) = ix}
      Value(jx) == broadcast_to(updates, indices.shape).at[jx]
  IN Array(a.shape, a.dtype, LAMBDA ix :
       IF accumulate THEN a.at[ix] + Sum([jx \in Hits(ix) |-> Value(jx)])
       ELSE IF Hits(ix) = {} THEN a.at[ix] ELSE Value(CHOOSE jx \in Hits(ix) : TRUE))

take_along_axis(a, indices, axis) ==
  Array(indices.shape, a.dtype, LAMBDA ix : Read(a, With(ix, axis, indices.at[ix])))

(* A stable order of the elements along an axis.                           *)
argsort(a, axis) ==
  Array(a.shape, "U32", LAMBDA ix :
    LET V(n) == a.at[With(ix, axis, n)]
        Before(n) == {m \in 0 .. At(a.shape, axis) - 1 : V(m) < V(n) \/ (V(m) = V(n) /\ m < n)}
    IN CHOOSE n \in 0 .. At(a.shape, axis) - 1 : Cardinality(Before(n)) = At(ix, axis))
sort(a, axis) == take_along_axis(a, argsort(a, axis), axis)

(* The last axis of a with the last but one of b, which is repeated for the *)
(* leading axes of a that it does not have.                                *)
matmul(a, b) ==
  LET r == Len(a.shape)
      k == a.shape[r]
      lead(ix) == SubSeq(ix, r - Len(b.shape) + 1, r - 2)
  IN Array(SubSeq(a.shape, 1, r - 1) \o <<b.shape[Len(b.shape)]>>, a.dtype, LAMBDA ix :
       Sum([n \in 0 .. k - 1 |-> a.at[With(ix, r - 1, n)] * b.at[lead(ix) \o <<n, ix[r]>>]]))
(* It throws unless the two axes have one size.                            *)
Contracts(a, b, axis_a, axis_b) == At(a.shape, axis_a) = At(b.shape, axis_b)
tensordot(a, b, axis_a, axis_b) ==
  LET n == Len(a.shape) - 1
      Insert(ix, axis, x) == SubSeq(ix, 1, axis) \o <<x>> \o SubSeq(ix, axis + 1, Len(ix))
  IN Array(Dropped(a.shape, {axis_a}) \o Dropped(b.shape, {axis_b}), a.dtype, LAMBDA ix :
       Sum([k \in 0 .. At(a.shape, axis_a) - 1 |->
              a.at[Insert(SubSeq(ix, 1, n), axis_a, k)] * b.at[Insert(SubSeq(ix, n + 1, Len(ix)), axis_b, k)]]))

(* Arrays are [batch, heads, positions, features]; a head of a and v serves  *)
(* a group of heads of q.  The weight of a key, which may be any function   *)
(* of the scores of the keys allowed, is its score.                        *)
Grouped(q, k) == q % k = 0
scaled_dot_product_attention(q, a, v, mask) ==
  LET per_group == q.shape[2] \div a.shape[2]
      n == q.shape[4]
      Key(ix, s) == <<ix[1], ix[2] \div per_group, s>>
      Score(ix, s) == Sum([d \in 0 .. n - 1 |-> q.at[SubSeq(ix, 1, 3) \o <<d>>] * a.at[Append(Key(ix, s), d)]])
  IN Array(q.shape, q.dtype, LAMBDA ix :
       Sum([s \in {t \in 0 .. a.shape[3] - 1 : mask.at[<<0, 0, ix[3], t>>] = 1} |-> Score(ix, s) * v.at[Append(Key(ix, s), ix[4])]]))

(* Arrays are [batch, spatial axes .., features].  It throws unless the     *)
(* groups share the channels out (shapes as [batch, features, ..]).         *)
Convolves(l, r, groups) == r[2] * groups = l[2] /\ r[1] % groups = 0
conv_general(a, w, c) ==
  LET s == Len(a.shape) - 2
      per_group == w.shape[s + 2]
      out_per_group == w.shape[1] \div c.groups
      span(k) == (w.shape[k + 1] - 1) * c.kernel_dilation[k] + 1
      padded(k) == c.low[k] + (a.shape[k + 1] - 1) * c.input_dilation[k] + 1 + c.high[k]
      spatial == [k \in 1 .. s |-> (padded(k) - span(k)) \div c.stride[k] + 1]
      Tap(o, t, k) == o[k + 1] * c.stride[k] + (IF c.flip THEN w.shape[k + 1] - 1 - t[k] ELSE t[k]) * c.kernel_dilation[k] - c.low[k]
      Value(o, t, f) ==
        LET at == [k \in 1 .. s |-> Tap(o, t, k)]
        IN IF \A k \in 1 .. s : at[k] % c.input_dilation[k] = 0 /\ at[k] \div c.input_dilation[k] \in 0 .. a.shape[k + 1] - 1
             THEN a.at[<<o[1]>> \o [k \in 1 .. s |-> at[k] \div c.input_dilation[k]] \o <<(o[s + 2] \div out_per_group) * per_group + f>>]
             ELSE 0
  IN Array(<<a.shape[1]>> \o spatial \o <<w.shape[1]>>, a.dtype, LAMBDA o :
       Sum([tf \in Index(SubSeq(w.shape, 2, s + 1)) \X (0 .. per_group - 1) |->
              Value(o, tf[1], tf[2]) * w.at[<<o[s + 2]>> \o tf[1] \o <<tf[2]>>]]))
=============================================================================
