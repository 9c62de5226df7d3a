------------------------------ MODULE MetalKernels ------------------------------
(***************************************************************************)
(* The Metal kernels that src/backend/mlx_metal/api.cc writes out itself,   *)
(* for operations that MLX does not have: bit counts, loops, triangular     *)
(* systems, Cholesky factors, attention masks, and the counters of the      *)
(* random-bit generator.  Each is the element (or the matrix of a batch)    *)
(* that one thread writes, as a function of what it reads.                  *)
(***************************************************************************)
EXTENDS MlxArrays

(* Registers have 32 bits; a negative number is its complement.             *)
BitLength(x) == IF x = 0 THEN 0 ELSE 1 + Max({n \in 0 .. 30 : x \div 2^n > 0})
clz32(x) == IF x < 0 THEN 0 ELSE 32 - BitLength(x)
Ones32(x) == Cardinality({n \in 0 .. 30 : (x \div 2^n) % 2 = 1})
popcount32(x) == IF x < 0 THEN 32 - Ones32(-x - 1) ELSE Ones32(x)
(* Types of 8 bits are told apart, all others count as 32 bits.             *)
kernel_bits(dtype) == IF dtype \in {"U8", "S8"} THEN 8 ELSE 32
popcnt(dtype, x) == IF kernel_bits(dtype) = 8 THEN popcount32(x % 256) ELSE popcount32(x)
count_leading_zeros(dtype, x) == IF kernel_bits(dtype) = 8 THEN clz32(x % 256) - 24 ELSE clz32(x)
----------------------------------------------------------------------------
(* While: the state of one element.                                        *)

Kept(direction, value, limit) ==
  CASE direction = "GE" -> value >= limit [] direction = "GT" -> value > limit
    [] direction = "LE" -> value <= limit [] direction = "LT" -> value < limit
while_compare_add(direction, update, max_iterations, state, limit, step) ==
  FoldLeft(LAMBDA value, iter : IF ~Kept(direction, value, limit) THEN value
                                ELSE IF update = "subtract" THEN value - step ELSE value + step,
           state, [iter \in 1 .. max_iterations |-> iter])
----------------------------------------------------------------------------
(* Matrices n x n, addressed by row and column; the numbers of the calls    *)
(* tried divide exactly.                                                   *)

Quotient(x, y) == IF y = 0 THEN Garbage ELSE x \div y
Root(x) == IF \E r \in 0 .. 10 : r * r = x THEN CHOOSE r \in 0 .. 10 : r * r = x ELSE Garbage

(* The unknowns of a system, first to last or last to first, each from      *)
(* those before it.                                                        *)
Substituted(n, ascending, Rhs(_), Coeff(_, _), Diagonal(_)) ==
  LET I(p) == IF ascending THEN p ELSE n - 1 - p
      x[p \in 0 .. n - 1] ==
        Quotient(Rhs(I(p)) - Sum([q \in 0 .. p - 1 |-> Coeff(I(p), I(q)) * x[q]]), Diagonal(I(p)))
  IN [i \in 0 .. n - 1 |-> x[I(i)]]

(* Row by row on the left, where a transposed lower matrix is an upper one; *)
(* column by column on the right, in the other direction.                   *)
SubstitutesForward(left, eff_lower) == IF left THEN eff_lower ELSE ~eff_lower
triangular_solve(n, m, A(_, _), B(_, _), left, lower, unit, trans) ==
  LET eff_lower == IF trans THEN ~lower ELSE lower
      Coeff(i, k) == IF left = trans THEN A(k, i) ELSE A(i, k)
      Line(j) == Substituted(n, SubstitutesForward(left, eff_lower),
                             LAMBDA i : IF left THEN B(i, j) ELSE B(j, i),
                             Coeff, LAMBDA i : IF unit THEN 1 ELSE A(i, i))
      solved == [j \in 0 .. m - 1 |-> Line(j)]
  IN IF left THEN [i \in 0 .. n - 1, j \in 0 .. m - 1 |-> solved[j][i]] ELSE [i \in 0 .. m - 1, j \in 0 .. n - 1 |-> solved[i][j]]

cholesky(n, A(_, _), lower) ==
  LET l[p \in 0 .. n * n - 1] ==
        LET i == p \div n  j == p % n
            rest == A(i, j) - Sum([k \in 0 .. j - 1 |-> l[i * n + k] * l[j * n + k]])
        IN IF j > i THEN 0 ELSE IF i = j THEN Root(rest) ELSE Quotient(rest, l[j * n + j])
  IN [i \in 0 .. n - 1, j \in 0 .. n - 1 |-> IF lower THEN l[i * n + j] ELSE l[j * n + i]]
----------------------------------------------------------------------------
(* Queries after the token see the keys up to their own position.           *)
attention_allowed_mask(token, queries, kv_len) ==
  Array(<<1, 1, queries, kv_len>>, "PRED", LAMBDA ix : IF ix[4] <= token + ix[3] THEN 1 ELSE 0)
----------------------------------------------------------------------------
(* The random bits of an element are a block of the hash of a counter: the  *)
(* first half of it or the second (lane).  Neighbours along one axis share  *)
(* a counter; 64-bit elements have one each.                                *)

xla_threefry_split_dim(dims) ==
  LET even == {x \in Axes(dims) : At(dims, x) % 2 = 0}
      largest == {x \in Axes(dims) : \A y \in Axes(dims) : At(dims, y) <= At(dims, x)}
  IN IF dims = <<>> THEN 0 ELSE IF even # {} THEN Min(even) ELSE Min(largest)
HalfOf(n) == (n + 1) \div 2
half_dims(dims, split) == [k \in DOMAIN dims |-> IF k - 1 = split THEN HalfOf(dims[k]) ELSE dims[k]]
xla_threefry_half_count(dims, split) == Size(half_dims(dims, split))

(* The kernel takes an element's number apart from the last axis to the     *)
(* first, and puts the number of its half together on the way.              *)
Digit(s, dim, half, splits) ==
  LET idx == s.tmp % dim
  IN [tmp |-> s.tmp \div dim, lane |-> IF splits THEN idx % 2 ELSE s.lane,
      linear |-> s.linear + (IF splits THEN idx \div 2 ELSE idx) * s.stride, stride |-> s.stride * half]
threefry_position(dims, split, elem) ==
  FoldLeft(LAMBDA s, x : Digit(s, At(dims, x), At(half_dims(dims, split), x), x = split),
           [tmp |-> elem, lane |-> 0, linear |-> 0, stride |-> 1],
           [k \in 1 .. Len(dims) |-> Len(dims) - k])
=============================================================================
