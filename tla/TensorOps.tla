------------------------------- MODULE TensorOps -------------------------------
(***************************************************************************)
(* The tensor operations of the MLX bridge (src/backend/mlx_metal/api.cc):  *)
(* what each accepts and which MLX primitives it composes, compared with    *)
(* the meaning of the operation in a program (StableHLO).                   *)
(*                                                                         *)
(* A buffer is [array, byte_size, dtype, dims, device]: the array of MLX    *)
(* and what the bridge records of it.  An operation returns a sequence of   *)
(* buffers, empty where the code returns a null pointer; what MLX throws on *)
(* is a conjunct of the guard, for every throw becomes a null pointer.      *)
(*                                                                         *)
(* Calls gives, for each operation, the calls that are tried.               *)
(***************************************************************************)
EXTENDS StableHLO, MetalKernels
CONSTANT Calls(_)
VARIABLES call,     \* the operation called, its operands and attributes
          result    \* the buffers it returned
vars == <<call, result>>
----------------------------------------------------------------------------
(* Types, sizes and shapes.                                                *)

Floats == {"F32", "F16", "BF16"}
Summable == Floats \cup {"S8", "S32", "U8", "U16", "U32", "U64"}

dtype_size(dtype) ==
  CASE dtype \in {"PRED", "U8", "S8"} -> 1
    [] dtype \in {"U16", "F16", "BF16"} -> 2
    [] dtype \in {"S32", "U32", "F32"} -> 4
    [] dtype \in {"U64", "C64"} -> 8
    [] OTHER -> 0
mlx_dtype_from_code(dtype) == IF dtype_size(dtype) = 0 \/ dtype = "PRED" THEN "none" ELSE dtype
byte_size_for_shape(dtype, dims) == IF \E k \in DOMAIN dims : dims[k] < 0 THEN 0 ELSE dtype_size(dtype) * Size(dims)

permutation_is_valid(axes, rank) == Len(axes) = rank /\ ToSet(axes) = 0 .. rank - 1
broadcast_dimensions_are_valid(axes, dims, out) ==
  /\ Len(axes) = Len(dims) /\ IsInjective(axes) /\ ToSet(axes) \subseteq Axes(out)
  /\ \A k \in DOMAIN axes : dims[k] \in {1, At(out, axes[k])}
slice_is_valid(start, stop, strides, dims, out) ==
  /\ Len(start) = Len(dims) /\ Len(stop) = Len(dims) /\ Len(strides) = Len(dims) /\ Len(out) = Len(dims)
  /\ \A k \in DOMAIN dims :
       /\ 0 <= start[k] /\ start[k] <= stop[k] /\ stop[k] <= dims[k] /\ strides[k] > 0
       /\ out[k] = (stop[k] - start[k] + strides[k] - 1) \div strides[k]
dynamic_slice_of_any_size(sizes, dims, out) == Len(sizes) = Len(dims) /\ out = sizes
dynamic_slice_is_valid(sizes, dims, out) ==
  Len(sizes) = Len(dims) /\ out = sizes /\ \A k \in DOMAIN dims : sizes[k] \in 0 .. dims[k]
concatenate_is_valid(lhs, rhs, axis, out) ==
  /\ Len(rhs) = Len(lhs) /\ axis \in Axes(lhs)
  /\ With(rhs, axis, 0) = With(lhs, axis, 0) /\ out = With(lhs, axis, At(lhs, axis) + At(rhs, axis))
permuted_dims(dims, axes) == Picked(dims, axes)
expanded_broadcast_dims(dims, axes, rank) ==
  PerAxis(rank, LAMBDA x : IF x \in ToSet(axes) THEN dims[CHOOSE k \in DOMAIN axes : axes[k] = x] ELSE 1)
----------------------------------------------------------------------------
(* What the operations share.                                              *)

Arg(c, k) == c.args[k]
Usable(c) == \A k \in DOMAIN c.args : c.args[k].byte_size # 0 /\ c.args[k].device = c.args[1].device
OneType(c) == \A k \in DOMAIN c.args : c.args[k].dtype = c.args[1].dtype
Returned(valid, array, dtype, dims, device) ==
  IF valid /\ byte_size_for_shape(dtype, dims) # 0
    THEN <<[array |-> array, byte_size |-> byte_size_for_shape(dtype, dims), dtype |-> dtype, dims |-> dims, device |-> device]>>
    ELSE <<>>
(* A result of the type and the device of the first operand.               *)
Like(c, valid, array) == Returned(Usable(c) /\ valid, array, Arg(c, 1).dtype, c.out, Arg(c, 1).device)
Start(c, from) == [k \in 1 .. Len(c.args) - from + 1 |-> Scalar(c, from + k - 1)]
make_start_array(c, from) ==
  /\ Arg(c, 1).dims # <<>> /\ Len(c.args) - from + 1 = Len(Arg(c, 1).dims)
  /\ \A k \in from .. Len(c.args) : Arg(c, k).dims = <<>>
Ones(n) == [k \in 1 .. n |-> 1]
Zeros(n) == [k \in 1 .. n |-> 0]
----------------------------------------------------------------------------
(* Making, reshaping and cutting.                                          *)

buffer_iota(c) ==
  LET n == At(c.out, c.axis)
      line == reshape(arange(n, c.dtype), With(Ones(Len(c.out)), c.axis, n))
  IN Returned(c.axis \in Axes(c.out) /\ mlx_dtype_from_code(c.dtype) # "none", broadcast_to(line, c.out), c.dtype, c.out, c.device)

buffer_astype(c) ==
  LET Convert(x) == IF c.dtype = "PRED" THEN (IF x = 0 THEN 0 ELSE 1) ELSE Stored(c.dtype, x)
  IN Returned(Usable(c), astype(Operand(c, 1), c.dtype, Convert), c.dtype, Arg(c, 1).dims, Arg(c, 1).device)

buffer_reshape(c) ==
  Like(c, byte_size_for_shape(Arg(c, 1).dtype, c.out) = Arg(c, 1).byte_size, reshape(Operand(c, 1), c.out))

buffer_transpose(c) ==
  LET s == Arg(c, 1)
  IN Returned(permutation_is_valid(c.axes, Len(s.dims)), transpose(s.array, c.axes), s.dtype, permuted_dims(s.dims, c.axes), s.device)

buffer_broadcast_in_dim(c) ==
  LET s == Arg(c, 1)
  IN Like(c, broadcast_dimensions_are_valid(c.axes, s.dims, c.out),
          broadcast_to(reshape(s.array, expanded_broadcast_dims(s.dims, c.axes, Len(c.out))), c.out))

buffer_slice(c) ==
  Like(c, slice_is_valid(c.start, c.stop, c.strides, Arg(c, 1).dims, c.out), slice(Operand(c, 1), c.start, c.stop, c.strides))

buffer_dynamic_slice(c) ==
  Like(c, dynamic_slice_is_valid(c.sizes, Arg(c, 1).dims, c.out) /\ make_start_array(c, 2),
       slice(Operand(c, 1), Start(c, 2), Plus(Start(c, 2), c.sizes), Ones(Len(c.sizes))))

buffer_dynamic_update_slice(c) ==
  LET s == Arg(c, 1)  update == Arg(c, 2)
      fits == /\ s.dtype = update.dtype /\ Len(update.dims) = Len(s.dims) /\ c.out = s.dims
              /\ \A k \in DOMAIN s.dims : update.dims[k] \in 0 .. s.dims[k]
  IN Like(c, fits /\ make_start_array(c, 3), slice_update(s.array, update.array, Start(c, 3), Ones(Len(s.dims))))

buffer_pad(c) ==
  LET s == Arg(c, 1)  value == Arg(c, 2)
      Interior(k) == IF s.dims[k] > 0 THEN (s.dims[k] - 1) * c.interior[k] ELSE 0
      valid == /\ s.dtype = value.dtype /\ value.dims = <<>> /\ Len(c.out) = Len(s.dims)
               /\ \A k \in DOMAIN s.dims : c.low[k] >= 0 /\ c.high[k] >= 0 /\ c.interior[k] >= 0
               /\ c.out = [k \in DOMAIN s.dims |-> s.dims[k] + c.low[k] + c.high[k] + Interior(k)]
      strides == [k \in DOMAIN s.dims |-> c.interior[k] + 1]
  IN Like(c, valid, IF \E k \in DOMAIN s.dims : c.interior[k] # 0
                      THEN slice_update(full(c.out, value.array), s.array, c.low, strides)
                      ELSE pad(s.array, c.low, c.high, value.array.at[<<>>]))

(* A reversed axis is read from its end down to before its first element:   *)
(* -dim - 1 is what the library turns into -1.                             *)
ReverseStopAtZero(dim) == -dim
ReverseStop(dim) == -dim - 1
buffer_reverse(c) ==
  LET s == Arg(c, 1)
      Pick(reversed, kept) == PerAxis(Len(s.dims), LAMBDA x : IF x \in ToSet(c.axes) THEN reversed[x + 1] ELSE kept[x + 1])
      last == [k \in DOMAIN s.dims |-> s.dims[k] - 1]
      stop == [k \in DOMAIN s.dims |-> ReverseStop(s.dims[k])]
  IN Like(c, c.out = s.dims /\ ToSet(c.axes) \subseteq Axes(s.dims),
          slice(s.array, Pick(last, Zeros(Len(last))), Pick(stop, s.dims), Pick([k \in DOMAIN last |-> -1], Ones(Len(last)))))

buffer_concatenate(c) ==
  Like(c, OneType(c) /\ concatenate_is_valid(Arg(c, 1).dims, Arg(c, 2).dims, c.axis, c.out),
       concatenate(Operand(c, 1), Operand(c, 2), c.axis))
----------------------------------------------------------------------------
(* Elements.                                                               *)

(* Only U8 divides as integers.                                            *)
mlx_binary_array(lhs, rhs, op, dtype) ==
  CASE op = "add" -> add(lhs, rhs)
    [] op = "subtract" -> subtract(lhs, rhs)
    [] op = "multiply" -> multiply(lhs, rhs)
    [] op = "divide" -> IF dtype = "U8" THEN floor_divide(lhs, rhs) ELSE divide(lhs, rhs)
    [] op = "maximum" -> maximum(lhs, rhs)
    [] op = "minimum" -> minimum(lhs, rhs)
    [] op = "remainder" -> remainder(lhs, rhs)
    [] op = "and" -> IF dtype = "PRED" THEN logical_and(lhs, rhs) ELSE bitwise_and(lhs, rhs)
    [] op = "or" -> IF dtype = "PRED" THEN logical_or(lhs, rhs) ELSE bitwise_or(lhs, rhs)
    [] op = "xor" -> bitwise_xor(lhs, rhs)

Broadcastable(c) == \A k \in DOMAIN c.args : Broadcasts(c.args[k].dims, c.out)
buffer_binary_out(c) ==
  Like(c, OneType(c) /\ Broadcastable(c),
       mlx_binary_array(broadcast_to(Operand(c, 1), c.out), broadcast_to(Operand(c, 2), c.out), c.kind, Arg(c, 1).dtype))

mlx_compare_array(lhs, rhs, direction) ==
  CASE direction = "EQ" -> equal(lhs, rhs)
    [] direction = "NE" -> not_equal(lhs, rhs)
    [] direction = "GE" -> greater_equal(lhs, rhs)
    [] direction = "GT" -> greater(lhs, rhs)
    [] direction = "LE" -> less_equal(lhs, rhs)
    [] direction = "LT" -> less(lhs, rhs)
buffer_compare(c) ==
  Returned(Usable(c) /\ OneType(c) /\ Broadcastable(c),
           mlx_compare_array(broadcast_to(Operand(c, 1), c.out), broadcast_to(Operand(c, 2), c.out), c.direction),
           "PRED", c.out, Arg(c, 1).device)

buffer_select(c) ==
  LET on_true == Arg(c, 2)
      valid == /\ Arg(c, 1).dtype = "PRED" /\ on_true.dtype = Arg(c, 3).dtype
               /\ \A k \in 1 .. 3 : Arg(c, k).dims = c.out
  IN Returned(Usable(c) /\ valid, where(Operand(c, 1), on_true.array, Operand(c, 3)), on_true.dtype, c.out, on_true.device)

buffer_clamp(c) ==
  Like(c, OneType(c) /\ c.out = Arg(c, 2).dims /\ Arg(c, 1).dims \in {<<>>, c.out} /\ Arg(c, 3).dims \in {<<>>, c.out},
       minimum(maximum(Operand(c, 2), Operand(c, 1)), Operand(c, 3)))

(* The other functions of one element are floating-point functions of MLX.  *)
mlx_unary_array(a, op) ==
  CASE op = "negate" -> negative(a)
    [] op = "abs" -> abs(a)
    [] op = "sign" -> sign(a)
    [] op = "popcnt" -> map1(a, a.dtype, LAMBDA x : popcnt(a.dtype, x))
    [] op = "clz" -> map1(a, a.dtype, LAMBDA x : count_leading_zeros(a.dtype, x))
buffer_unary(c) ==
  Returned(Usable(c), mlx_unary_array(Operand(c, 1), c.kind), Arg(c, 1).dtype, Arg(c, 1).dims, Arg(c, 1).device)

buffer_while_f32_compare_add(c) ==
  LET valid == /\ Arg(c, 1).dtype \in {"F32", "BF16"} /\ OneType(c) /\ c.direction \in {"LT", "LE", "GT", "GE"}
               /\ c.update \in {"add", "subtract"} /\ c.out = Arg(c, 1).dims
               /\ \A k \in {2, 3} : Arg(c, k).dims \in {<<>>, c.out}
      Each(k, ix) == Operand(c, k).at[IF Arg(c, k).dims = <<>> THEN <<>> ELSE ix]
  IN Like(c, valid, Array(c.out, Arg(c, 1).dtype, LAMBDA ix :
       while_compare_add(c.direction, c.update, c.max_iterations, Operand(c, 1).at[ix], Each(2, ix), Each(3, ix))))

custom_call_binary_add_f32(c) ==
  Like(c, Arg(c, 1).dtype = "F32" /\ OneType(c) /\ Arg(c, 1).dims = Arg(c, 2).dims /\ c.out = Arg(c, 1).dims,
       add(Operand(c, 1), Operand(c, 2)))
----------------------------------------------------------------------------
(* Ordering.                                                               *)

buffer_sort(c) ==
  Like(c, c.out = Arg(c, 1).dims /\ c.axis \in Axes(c.out), sort(Operand(c, 1), c.axis))
buffer_argsort(c) ==
  LET Same(x) == x
  IN Returned(Usable(c) /\ c.out = Arg(c, 1).dims /\ c.axis \in Axes(c.out),
              astype(argsort(Operand(c, 1), c.axis), c.dtype, Same), c.dtype, c.out, Arg(c, 1).device)
buffer_take_along_axis(c) ==
  Like(c, c.out = Arg(c, 1).dims /\ c.out = Arg(c, 2).dims /\ c.axis \in Axes(c.out),
       take_along_axis(Operand(c, 1), Operand(c, 2), c.axis))
----------------------------------------------------------------------------
(* Gather and scatter.                                                     *)

Unique(axes, dims) == IsInjective(axes) /\ ToSet(axes) \subseteq Axes(dims)
gather_index_vector_is_explicit(dims, n, index_vector_dim) ==
  index_vector_dim \in Axes(dims) /\ At(dims, index_vector_dim) = n
scatter_index_vector_is_explicit(dims, n, index_vector_dim) ==
  index_vector_dim \in Axes(dims) /\ At(dims, index_vector_dim) = n
(* Batching axes of the operand and of the indices have the same size.      *)
BatchingIsValid(c, dims, indices) ==
  /\ Len(c.batch) = Len(c.ibatch) /\ Unique(c.map \o c.batch, dims)
  /\ \A k \in DOMAIN c.batch :
       c.ibatch[k] \in Axes(indices) \ {c.ivd} /\ At(dims, c.batch[k]) = At(indices, c.ibatch[k])
gather_index_prefix_dims(dims, explicit, index_vector_dim) == IF explicit THEN Dropped(dims, {index_vector_dim}) ELSE dims

gather_metadata_is_valid(c, dims, indices) ==
  LET explicit == gather_index_vector_is_explicit(indices, Len(c.map), c.ivd)
      gone == ToSet(c.collapsed \o c.batch)
      prefix == gather_index_prefix_dims(indices, explicit, c.ivd)
      slices == Dropped(c.sizes, gone)
      before(x, offset) == Cardinality({y \in 0 .. x - 1 : (y \in ToSet(c.offset)) = offset})
  IN /\ c.map # <<>> /\ Len(c.sizes) = Len(dims) /\ (Len(c.map) > 1 => explicit)
     /\ BatchingIsValid(c, dims, indices) /\ Unique(c.collapsed \o c.batch, dims)
     /\ \A x \in gone : At(c.sizes, x) = 1
     /\ \A k \in DOMAIN dims : c.sizes[k] \in 0 .. dims[k]
     /\ Len(c.offset) = Len(slices) /\ Unique(c.offset, c.out) /\ Len(c.out) = Len(prefix) + Len(slices)
     /\ \A x \in Axes(c.out) :
          At(c.out, x) = IF x \in ToSet(c.offset) THEN At(slices, before(x, TRUE)) ELSE At(prefix, before(x, FALSE))

(* The position of each element along a batching axis.  An explicit index   *)
(* vector before that axis is not in the prefix.                           *)
PrefixAxisUnshifted(axis, explicit, index_vector_dim) == axis - (IF explicit /\ axis # index_vector_dim THEN 1 ELSE 0)
PrefixAxis(axis, explicit, index_vector_dim) == axis - (IF explicit /\ axis > index_vector_dim THEN 1 ELSE 0)
gather_batch_index_array(dims, prefix, axis, explicit, index_vector_dim, dtype) ==
  LET x == PrefixAxis(axis, explicit, index_vector_dim)
  IN broadcast_to(reshape(arange(At(dims, axis), dtype), With(Ones(Len(prefix)), x, At(prefix, x))), prefix)

IndexArrays(c, explicit, prefix) ==
  LET indices == Arg(c, 2)
      Part(k) == squeeze(slice(indices.array, With(Zeros(Len(indices.dims)), c.ivd, k - 1),
                               With(indices.dims, c.ivd, k), Ones(Len(indices.dims))), {c.ivd})
      starts == IF Len(c.map) = 1 THEN <<IF explicit THEN reshape(indices.array, prefix) ELSE indices.array>>
                ELSE [k \in DOMAIN c.map |-> Part(k)]
  IN starts \o [k \in DOMAIN c.batch |->
       gather_batch_index_array(indices.dims, prefix, c.ibatch[k], explicit, c.ivd, indices.dtype)]

buffer_gather(c) ==
  LET dims == Arg(c, 1).dims  indices == Arg(c, 2).dims
      explicit == gather_index_vector_is_explicit(indices, Len(c.map), c.ivd)
      prefix == gather_index_prefix_dims(indices, explicit, c.ivd)
      n == Len(prefix)
      slices == gather(Operand(c, 1), IndexArrays(c, explicit, prefix), c.map \o c.batch, c.sizes)
      kept == squeeze(slices, {n + x : x \in ToSet(c.collapsed \o c.batch)})
      offset == ToSet(c.offset)
      axes == PerAxis(Len(c.out), LAMBDA x :
                IF x \in offset THEN n + Cardinality({y \in offset : y < x}) ELSE Cardinality((0 .. x - 1) \ offset))
  IN Like(c,
          gather_metadata_is_valid(c, dims, indices) /\ (c.batch # <<>> => mlx_dtype_from_code(Arg(c, 2).dtype) # "none"),
          transpose(kept, axes))

(* The window axes of the updates are taken for axes of the operand.        *)
scatter_metadata_is_valid(c, dims, indices, updates) ==
  LET explicit == scatter_index_vector_is_explicit(indices, Len(c.map), c.ivd)
      prefix == gather_index_prefix_dims(indices, explicit, c.ivd)
  IN /\ dims # <<>> /\ c.out = dims /\ c.map # <<>> /\ (Len(c.map) > 1 => explicit)
     /\ Len(c.inserted) + Len(c.window) + Len(c.batch) = Len(dims)
     /\ BatchingIsValid(c, dims, indices) /\ Unique(c.inserted \o c.window, dims)
     /\ ToSet(c.batch) \cap ToSet(c.inserted \o c.window) = {}
     /\ Len(updates) = Len(prefix) + Len(c.window) /\ SubSeq(updates, 1, Len(prefix)) = prefix
     /\ \A k \in DOMAIN c.window : updates[Len(prefix) + k] <= At(dims, c.window[k])

UpdateDims(c, dims, updates, n) ==
  SubSeq(updates, 1, n) \o
    PerAxis(Len(dims), LAMBDA x : IF x \in ToSet(c.window) THEN updates[n + CHOOSE k \in DOMAIN c.window : c.window[k] = x] ELSE 1)
scatterable(c) == Usable(c) /\ Arg(c, 1).dtype = Arg(c, 3).dtype
buffer_scatter(c) ==
  LET dims == Arg(c, 1).dims  indices == Arg(c, 2).dims  updates == Arg(c, 3).dims
      explicit == scatter_index_vector_is_explicit(indices, Len(c.map), c.ivd)
      prefix == gather_index_prefix_dims(indices, explicit, c.ivd)
      valid == /\ scatterable(c) /\ scatter_metadata_is_valid(c, dims, indices, updates)
               /\ c.batch # <<>> => mlx_dtype_from_code(Arg(c, 2).dtype) # "none"
  IN Like(c, valid, scatter(Operand(c, 1), IndexArrays(c, explicit, prefix),
                            reshape(Operand(c, 3), UpdateDims(c, dims, updates, Len(prefix))), c.map \o c.batch, c.add))

(* A scatter along one axis has a call of its own, with the indices and the *)
(* updates as they are: the primitive wants both of the operand's rank.     *)
supportedScatterAxis(c) == Len(c.map) = 1 /\ c.inserted = c.map /\ c.batch = <<>>
buffer_scatter_axis(c) ==
  LET dims == Arg(c, 1).dims  indices == Arg(c, 2).dims  axis == c.map[1]
      given == IF c.ivd \in Axes(indices) /\ At(indices, c.ivd) = 1 THEN Dropped(indices, {c.ivd}) ELSE indices
  IN Like(c, /\ scatterable(c) /\ c.out = dims /\ axis \in Axes(dims)
             /\ Len(given) = Len(dims) /\ Broadcasts(Arg(c, 3).dims, given)
             /\ With(given, axis, 0) = With(dims, axis, 0),
          scatter_along_axis(Operand(c, 1), reshape(Operand(c, 2), given), Operand(c, 3), axis, c.add))
----------------------------------------------------------------------------
(* Contractions.                                                           *)

(* One contracting axis and batching axes of equal sizes; the result has    *)
(* the batching axes, then the others of the left, then of the right.       *)
dot_general_is_matmul_like(c, l, r) ==
  /\ Len(c.lc) = 1 /\ Len(c.rc) = 1 /\ Len(c.lb) = Len(c.rb) /\ l # <<>> /\ Len(r) >= 2
  /\ Unique(c.lb \o c.lc, l) /\ Unique(c.rb \o c.rc, r)
  /\ Picked(l, c.lb \o c.lc) = Picked(r, c.rb \o c.rc)
  /\ c.out # <<>> /\ c.out = Picked(l, c.lb) \o Dropped(l, ToSet(c.lb \o c.lc)) \o Dropped(r, ToSet(c.rb \o c.rc))
dot_general_is_canonical_matmul(c, l, r) ==
  LET n == Len(c.lb)
  IN /\ Len(l) >= n + 2 /\ Len(r) = n + 2 /\ Len(c.out) = Len(l) /\ (n # 0 => Len(l) = n + 2)
     /\ \A k \in 1 .. n : c.lb[k] = k - 1 /\ c.rb[k] = k - 1
     /\ c.lc[1] = Len(l) - 1 /\ c.rc[1] = n
dot_general_is_rhs_transposed_matmul(c, l, r) ==
  /\ c.lb = <<>> /\ Len(l) >= 2 /\ Len(r) = 2 /\ Len(c.out) = Len(l)
  /\ c.lc[1] = Len(l) - 1 /\ c.rc[1] = 1

(* Any other: the axes are put in the order of a product of matrices.       *)
LhsOrder(c, free) == c.lb \o free \o c.lc
RhsOrder(c, free) == c.rb \o c.rc \o free
normalized(c, l, r) ==
  LET lfree == SetToSortSeq(Axes(l.dims) \ ToSet(c.lb \o c.lc), <)
      rfree == SetToSortSeq(Axes(r.dims) \ ToSet(c.rb \o c.rc), <)
      batch == Picked(l.dims, c.lb)
      k == At(l.dims, c.lc[1])
      lhs == reshape(transpose(l.array, LhsOrder(c, lfree)), batch \o <<Size(Picked(l.dims, lfree)), k>>)
      rhs == reshape(transpose(r.array, RhsOrder(c, rfree)), batch \o <<k, Size(Picked(r.dims, rfree))>>)
  IN reshape(matmul(lhs, rhs), c.out)

(* c.tensordot is the flag of the environment, on unless it is turned off.  *)
buffer_dot_general(c) ==
  LET l == Arg(c, 1)  r == Arg(c, 2)
      valid == OneType(c) /\ l.dtype \in Floats /\ dot_general_is_matmul_like(c, l.dims, r.dims)
  IN IF ~valid THEN <<>>
     ELSE IF dot_general_is_canonical_matmul(c, l.dims, r.dims) THEN Like(c, TRUE, matmul(l.array, r.array))
     ELSE IF dot_general_is_rhs_transposed_matmul(c, l.dims, r.dims)
       THEN IF ~c.tensordot THEN Like(c, TRUE, matmul(l.array, transpose(r.array, <<1, 0>>)))
            ELSE LET product == tensordot(l.array, r.array, 1, 1)
                 IN Like(c, Contracts(l.array, r.array, 1, 1) /\ product.shape = c.out, product)
     ELSE Like(c, TRUE, normalized(c, l, r))

(* The axes are moved from [batch, features, spatial..] to the library's    *)
(* [batch, spatial.., features] and back; one spatial axis gets a second.   *)
Moved(rank) == <<0>> \o [k \in 1 .. rank |-> k + 1] \o <<1>>
MovedBack(rank) == <<0, rank + 1>> \o [k \in 1 .. rank |-> k]
Inserted(shape) == SubSeq(shape, 1, 2) \o <<1>> \o SubSeq(shape, 3, Len(shape))
buffer_convolution(c) ==
  LET l == Arg(c, 1)  r == Arg(c, 2)  s == Len(c.strides)
      valid == /\ s \in 1 .. 3 /\ Len(c.out) = s + 2 /\ Len(l.dims) = s + 2 /\ Len(r.dims) = s + 2
               /\ c.groups > 0 /\ OneType(c) /\ l.dtype \in Floats
               /\ \A k \in 1 .. s : c.strides[k] > 0 /\ c.ldil[k] > 0 /\ c.rdil[k] > 0
               /\ Convolves(l.dims, r.dims, c.groups)
      lhs == transpose(l.array, Moved(s))
      rhs == transpose(r.array, Moved(s))
      Extended(t, x) == IF s = 1 THEN Append(t, x) ELSE t
      Wide(a) == IF s = 1 THEN reshape(a, Inserted(a.shape)) ELSE a
      conv == conv_general(Wide(lhs), Wide(rhs),
                [stride |-> Extended(c.strides, 1), low |-> Extended(c.low, 0), high |-> Extended(c.high, 0),
                 kernel_dilation |-> Extended(c.rdil, 1), input_dilation |-> Extended(c.ldil, 1),
                 groups |-> c.groups, flip |-> FALSE])
      out == IF s = 1 THEN reshape(conv, <<c.out[1], c.out[3], c.out[2]>>) ELSE conv
  IN IF ~valid THEN <<>> ELSE Like(c, Size(conv.shape) = Size(c.out), reshape(transpose(out, MovedBack(s)), c.out))
----------------------------------------------------------------------------
(* Reductions.                                                             *)

(* The lowering compares the axes with the result, before a program runs.   *)
(* The bridge takes the shape of the result as it is given.                 *)
validReduceShape(dims, axes, out) == Unique(axes, dims) /\ out = Dropped(dims, ToSet(axes))
validateReduce(c) == validReduceShape(Arg(c, 1).dims, c.axes, c.out)

buffer_reduce(c) ==
  LET s == Arg(c, 1)
      valid == IF c.kind \in {"and", "or"} THEN s.dtype = "PRED" ELSE s.dtype \in Summable
      axes == ToSet(FromStart(c.axes, Len(s.dims)))
      array == CASE c.kind = "sum" -> sum(s.array, axes)
                 [] c.kind = "max" -> max(s.array, axes)
                 [] c.kind = "min" -> min(s.array, axes)
                 [] c.kind = "and" -> all(s.array, axes)
                 [] c.kind = "or" -> any(s.array, axes)
  IN Returned(valid /\ Reducible(s.dims, c.axes), array, s.dtype, c.out, s.device)

Pair(valid, values, indices, c) ==
  LET pair == Returned(valid, values, Arg(c, 1).dtype, c.out, Arg(c, 1).device)
              \o Returned(valid, indices, Arg(c, 2).dtype, c.out, Arg(c, 2).device)
  IN IF Len(pair) = 2 THEN pair ELSE <<>>
PairOfTypes(c) ==
  /\ Arg(c, 1).dims = Arg(c, 2).dims /\ Arg(c, 1).device = Arg(c, 2).device
  /\ Arg(c, 1).dtype \in Floats /\ Arg(c, 2).dtype \in {"S32", "U32"}

(* The least index among those of the largest values.                      *)
Sentinel == 9999
buffer_reduce_max_with_indices(c) ==
  LET values == Operand(c, 1)  indices == Operand(c, 2)  axes == ToSet(c.axes)
      reduced == max(values, axes)
      keep == [k \in DOMAIN values.shape |-> IF k - 1 \in axes THEN 1 ELSE values.shape[k]]
      match == equal(values, broadcast_to(reshape(reduced, keep), values.shape))
      candidate == where(match, indices, Array(values.shape, indices.dtype, LAMBDA ix : Sentinel))
      Shaped(a) == IF a.shape = c.out THEN a ELSE reshape(a, c.out)
  IN IF c.axes = <<>> THEN Pair(PairOfTypes(c) /\ c.out = values.shape, values, indices, c)
     ELSE Pair(PairOfTypes(c) /\ Unique(c.axes, values.shape) /\ Size(c.out) = Size(reduced.shape),
               Shaped(reduced), Shaped(min(candidate, axes)), c)

(* The output has a place for every window that fits in the padded input.   *)
WindowRoom(c, k) == c.low[k] + Arg(c, 1).dims[k] + c.high[k] - ((c.window[k] - 1) * c.dilations[k] + 1)
validReduceWindowShape(c) ==
  LET n == Len(Arg(c, 1).dims)
  IN /\ n # 0 /\ Len(c.out) = n /\ Len(c.window) = n
     /\ \A k \in 1 .. n :
          /\ c.window[k] > 0 /\ c.strides[k] > 0 /\ c.base[k] = 1 /\ c.dilations[k] > 0 /\ c.low[k] >= 0 /\ c.high[k] >= 0
          /\ c.out[k] = IF WindowRoom(c, k) < 0 THEN 0 ELSE WindowRoom(c, k) \div c.strides[k] + 1
(* A view of the padded array with the axes of the result and the window,   *)
(* laid out by the strides the array has when the view is made.             *)
HasPadding(c) == \E k \in DOMAIN c.low : c.low[k] # 0 \/ c.high[k] # 0
Windows(c, a, value) ==
  LET working == IF HasPadding(c) THEN pad(a, c.low, c.high, value) ELSE a
      strides == working.strides
  IN as_strided(working, c.out \o c.window,
                [k \in DOMAIN strides |-> strides[k] * c.strides[k]] \o [k \in DOMAIN strides |-> strides[k] * c.dilations[k]])
WindowAxes(c) == {Len(c.out) + x : x \in Axes(c.window)}
WindowPadding(kind) == IF kind = "sum" THEN 0 ELSE Lowest
buffer_reduce_window(c) ==
  LET windows == Windows(c, Operand(c, 1), WindowPadding(c.kind))
      valid == Arg(c, 1).dtype \in Floats /\ c.kind \in {"sum", "max"} /\ validReduceWindowShape(c)
  IN Like(c, valid, IF c.kind = "sum" THEN sum(windows, WindowAxes(c)) ELSE max(windows, WindowAxes(c)))

(* The last of each window when sorted by value.                           *)
buffer_reduce_window_max_with_indices(c) ==
  LET volume == Size(c.window)  n == Len(c.out)
      flat == c.out \o <<volume>>
      values == reshape(Windows(c, Operand(c, 1), Lowest), flat)
      indices == reshape(Windows(c, Operand(c, 2), 0), flat)
      order == argsort(values, n)
      Final(a) == reshape(slice(take_along_axis(a, order, n), With(Zeros(n + 1), n, volume - 1), flat, Ones(n + 1)), c.out)
  IN Pair(PairOfTypes(c) /\ validReduceWindowShape(c), Final(values), Final(indices), c)
----------------------------------------------------------------------------
(* Linear algebra, attention and random bits.                              *)

Square(dims) == Len(dims) >= 2 /\ dims[Len(dims)] = dims[Len(dims) - 1]
(* The entry of a matrix of a batch.                                       *)
Entry(a, lead, i, j) == a.at[lead \o <<i, j>>]
Matrices(dims, F(_)) ==
  LET r == Len(dims)  batch == [lead \in Index(SubSeq(dims, 1, r - 2)) |-> F(lead)]
  IN Array(dims, "F32", LAMBDA ix : batch[SubSeq(ix, 1, r - 2)][ix[r - 1], ix[r]])

buffer_cholesky(c) ==
  LET dims == Arg(c, 1).dims
  IN IF ~(c.out = dims /\ Arg(c, 1).dtype = "F32" /\ Square(dims)) THEN <<>>
     ELSE Like(c, TRUE, Matrices(dims, LAMBDA lead :
            cholesky(dims[Len(dims)], LAMBDA i, j : Entry(Operand(c, 1), lead, i, j), c.lower)))

buffer_triangular_solve(c) ==
  LET a == Arg(c, 1).dims  b == Arg(c, 2).dims  r == Len(b)
      valid == /\ c.out = b /\ Len(a) = r /\ Arg(c, 1).dtype = "F32" /\ OneType(c) /\ Square(a)
               /\ b[IF c.left THEN r - 1 ELSE r] = a[r] /\ SubSeq(a, 1, r - 2) = SubSeq(b, 1, r - 2)
  IN IF ~valid THEN <<>>
     ELSE Like(c, TRUE, Matrices(b, LAMBDA lead :
            triangular_solve(a[r], b[IF c.left THEN r ELSE r - 1],
                             LAMBDA i, j : Entry(Operand(c, 1), lead, i, j), LAMBDA i, j : Entry(Operand(c, 2), lead, i, j),
                             c.left, c.lower, c.unit, c.trans)))

(* [positions, heads, features], with a batch axis before it or not.        *)
HeadsFirst(a) ==
  IF Len(a.shape) = 4 THEN transpose(a, <<0, 2, 1, 3>>) ELSE reshape(transpose(a, <<1, 0, 2>>), <<1>> \o Picked(a.shape, <<1, 0, 2>>))
PositionsFirst(a, batched) ==
  IF batched THEN transpose(a, <<0, 2, 1, 3>>) ELSE transpose(reshape(a, SubSeq(a.shape, 2, 4)), <<1, 0, 2>>)
custom_call_scaled_dot_product_attention(c) ==
  LET q == Arg(c, 1)  k == Arg(c, 2)  v == Arg(c, 3)  token == Arg(c, 4)
      r == Len(q.dims)
      valid == /\ q.dtype \in Floats /\ k.dtype = q.dtype /\ v.dtype = q.dtype
               /\ r \in {3, 4} /\ Len(k.dims) = r /\ v.dims = k.dims
               /\ k.dims[r] = q.dims[r] /\ Grouped(q.dims[r - 1], k.dims[r - 1])
               /\ r = 4 => k.dims[1] = q.dims[1]
      mask == attention_allowed_mask(reshape(token.array, <<1, 1, 1, 1>>).at[<<0, 0, 0, 0>>], q.dims[r - 2], k.dims[r - 2])
  IN IF ~(valid /\ Size(token.dims) = 1) THEN <<>>
     ELSE Returned(Usable(c), PositionsFirst(scaled_dot_product_attention(HeadsFirst(q.array), HeadsFirst(k.array), HeadsFirst(v.array), mask), r = 4),
                   q.dtype, q.dims, q.device)

(* The key and the counter of a state, and a new state as the kernel writes *)
(* it: four words of 32 bits (each a word of the model here).               *)
Word == 1000
StateWords(a) == IF a.dtype = "U64" THEN <<a.at[<<0>>], a.at[<<1>>]>> ELSE <<a.at[<<0>>] + Word * a.at[<<1>>], a.at[<<2>>] + Word * a.at[<<3>>]>>
WrittenState(key, counter) ==
  LET words == <<key % Word, key \div Word, counter % Word, counter \div Word>>
  IN Array(<<4>>, "U32", LAMBDA ix : words[ix[1] + 1])
(* A block of random bits is known by its counter and its lane.             *)
xla_threefry_rng_bit_generator(c) ==
  LET state == Arg(c, 1)
      wide == c.dtype = "U64"
      split == xla_threefry_split_dim(c.out)
      words == StateWords(state.array)
      Position(ix) == threefry_position(c.out, split, Offset(ix, Strides(c.out)))
      bits == Array(c.out, c.dtype, LAMBDA ix :
                IF wide THEN 2 * (words[2] + Offset(ix, Strides(c.out))) ELSE 2 * (words[2] + Position(ix).linear) + Position(ix).lane)
      next == words[2] + (IF wide THEN Size(c.out) ELSE xla_threefry_half_count(c.out, split))
  IN Returned(TRUE, WrittenState(words[1], next), state.dtype, state.dims, state.device)
     \o Returned(TRUE, bits, c.dtype, c.out, state.device)
(* States of 32 bits go to a generator of MLX, which is not modelled.       *)
buffer_rng_bit_generator(c) ==
  IF /\ Arg(c, 1).dims = <<2>> /\ Arg(c, 1).dtype = "U64" /\ c.dtype \in {"U8", "U16", "U32", "U64"}
     /\ byte_size_for_shape(c.dtype, c.out) # 0
    THEN xla_threefry_rng_bit_generator(c) ELSE <<>>
----------------------------------------------------------------------------
(* Each call is made once, with nothing before it.                          *)

Init == call = [op |-> "none"] /\ result = <<>>
Issue(op, F(_)) ==
  /\ call.op = "none"
  /\ \E c \in Calls(op) : call' = c /\ result' = F(c)

Iota == Issue("iota", buffer_iota)
Convert == Issue("convert", buffer_astype)
Reshape == Issue("reshape", buffer_reshape)
Transpose == Issue("transpose", buffer_transpose)
BroadcastInDim == Issue("broadcast_in_dim", buffer_broadcast_in_dim)
Slice == Issue("slice", buffer_slice)
DynamicSlice == Issue("dynamic_slice", buffer_dynamic_slice)
DynamicUpdateSlice == Issue("dynamic_update_slice", buffer_dynamic_update_slice)
Padding == Issue("pad", buffer_pad)
ReverseAxes == Issue("reverse", buffer_reverse)
Concatenate == Issue("concatenate", buffer_concatenate)
Binary == Issue("binary", buffer_binary_out)
Compare == Issue("compare", buffer_compare)
SelectElements == Issue("select", buffer_select)
Clamp == Issue("clamp", buffer_clamp)
While == Issue("while", buffer_while_f32_compare_add)
CustomAdd == Issue("custom_add", custom_call_binary_add_f32)
SortAxis == Issue("sort", buffer_sort)
ArgSort == Issue("argsort", buffer_argsort)
TakeAlongAxis == Issue("take_along_axis", buffer_take_along_axis)
Gather == Issue("gather", buffer_gather)
Scatter == Issue("scatter", LAMBDA c : IF supportedScatterAxis(c) THEN buffer_scatter_axis(c) ELSE buffer_scatter(c))
DotGeneral == Issue("dot_general", buffer_dot_general)
Convolution == Issue("convolution", buffer_convolution)
Reduce == Issue("reduce", LAMBDA c : IF validateReduce(c) THEN buffer_reduce(c) ELSE <<>>)
ReduceWindow == Issue("reduce_window", buffer_reduce_window)
ArgMax == Issue("argmax", LAMBDA c : IF validateReduce(c) THEN buffer_reduce_max_with_indices(c) ELSE <<>>)
ArgMaxWindow == Issue("argmax_window", buffer_reduce_window_max_with_indices)
Unary == Issue("unary", buffer_unary)
Cholesky == Issue("cholesky", buffer_cholesky)
TriangularSolve == Issue("triangular_solve", buffer_triangular_solve)
Attention == Issue("attention", custom_call_scaled_dot_product_attention)
RandomBits == Issue("random_bits", buffer_rng_bit_generator)

Next ==
  \/ Iota \/ Convert \/ Reshape \/ Transpose \/ BroadcastInDim \/ Slice \/ DynamicSlice \/ DynamicUpdateSlice
  \/ Padding \/ ReverseAxes \/ Concatenate \/ Binary \/ Compare \/ SelectElements \/ Clamp \/ While \/ CustomAdd
  \/ SortAxis \/ ArgSort \/ TakeAlongAxis \/ Gather \/ Scatter \/ DotGeneral \/ Convolution
  \/ Reduce \/ ReduceWindow \/ ArgMax \/ ArgMaxWindow
  \/ Unary \/ Cholesky \/ TriangularSolve \/ Attention \/ RandomBits
Spec == Init /\ [][Next]_vars
----------------------------------------------------------------------------
(* Where the code is known to differ from the operation: see the README.    *)

StartsOutside(c, from, sizes) ==
  \E k \in DOMAIN sizes : Start(c, from)[k] \notin 0 .. Operand(c, 1).shape[k] - sizes[k]
(* A computed operand whose elements are not in row-major order.            *)
Scrambled(c) == ~HasPadding(c) /\ \E k \in DOMAIN c.args : Operand(c, k).strides # Strides(Operand(c, k).shape)
Deviates(c) ==
  CASE c.op = "dot_general" ->
         c.tensordot /\ Len(Arg(c, 1).dims) > 2 /\ dot_general_is_rhs_transposed_matmul(c, Arg(c, 1).dims, Arg(c, 2).dims)
    [] c.op = "binary" ->
         \/ c.kind = "divide" /\ Arg(c, 1).dtype \notin Floats \cup {"U8"}
         \/ c.kind = "remainder" /\ \E x \in Range(Operand(c, 1).at) : x < 0
    [] c.op = "unary" -> c.kind = "clz" /\ Arg(c, 1).dtype \in {"U16", "U64"}
    [] c.op = "dynamic_slice" -> StartsOutside(c, 2, c.sizes)
    [] c.op = "dynamic_update_slice" -> StartsOutside(c, 3, Arg(c, 2).dims)
    [] c.op = "gather" -> GatherOutside(c)
    [] c.op = "while" -> \E ix \in DOMAIN Operand(c, 1).at : CutShort(c, ix)
    [] c.op = "reduce_window" -> Scrambled(c)
    [] c.op = "argmax_window" -> TiedWindow(c) \/ Scrambled(c)
    [] c.op = "scatter" -> supportedScatterAxis(c) /\ c.window # <<>>
    [] OTHER -> FALSE
MisplacedWindow(c) == c.op = "scatter" /\ \E k \in DOMAIN c.window : ~WindowIsItsAxis(c, k)
KnownDeviation(c) == MisplacedWindow(c) \/ (Legal(c) /\ Deviates(c))
(* The state of the generator is kept as words of half the type's width.    *)
KeptAsHalves(c, k) == c.op = "random_bits" /\ k = 1

Matches(c, buffers) ==
  LET expected == Meaning(c)
  IN /\ Len(buffers) = Len(expected)
     /\ \A k \in DOMAIN buffers : buffers[k].array.shape = expected[k].shape /\ buffers[k].array.at = expected[k].at
(* No two elements get the same random bits, and the next state is past     *)
(* every counter used.                                                     *)
DrawsFresh(c, state, bits) ==
  LET from == StateWords(Operand(c, 1))  to == StateWords(state.array)
  IN /\ IsInjective(bits.array.at) /\ to[1] = from[1]
     /\ \A ix \in DOMAIN bits.array.at : bits.array.at[ix] \in 2 * from[2] .. 2 * to[2] - 1

(* An operation the bridge accepts gives what it means.  Each goes through  *)
(* several steps of the library - transposes, reshapes, index arrays,       *)
(* views - whose axes all have to agree (api.cc).                          *)
ResultsMatchStableHLO ==
  (result # <<>> /\ Legal(call) /\ ~KnownDeviation(call)) =>
    IF call.op = "random_bits" THEN DrawsFresh(call, result[1], result[2]) ELSE Matches(call, result)

(* What the bridge records of a buffer - dimensions, type, bytes - is what   *)
(* the array it holds has: the next operation, the memory accounting and    *)
(* the copy to the host trust the record, never the array (api.cc).         *)
MetadataMatchesArrays ==
  \A k \in DOMAIN result : KnownDeviation(call) \/ KeptAsHalves(call, k) \/
    LET b == result[k]
    IN /\ b.dims = b.array.shape /\ b.dtype = b.array.dtype
       /\ b.byte_size = dtype_size(b.array.dtype) * Cardinality(DOMAIN b.array.at)

(* The bridge accepts a call exactly when the program may make it: a legal   *)
(* operation that is refused fails a call of a compiled program, and an     *)
(* illegal one that is accepted reads the wrong elements (api.cc).          *)
AcceptsWhatIsWellTyped ==
  call.op # "none" => (KnownDeviation(call) \/ ((result # <<>>) <=> Legal(call)))

(* src/README.md: sums and maxima over windows run on the device, whatever   *)
(* operation the operand comes from and whether it has been computed yet.   *)
WindowsReduce ==
  call.op = "reduce_window" /\ Legal(call) => result # <<>> /\ Matches(call, result)
=============================================================================
