------------------------------- MODULE StableHLO -------------------------------
(***************************************************************************)
(* What the operations of a program mean, element by element, written       *)
(* without regard to how src/backend/mlx_metal/api.cc computes them: the    *)
(* specification TensorOps is compared with.                                *)
(*                                                                         *)
(* A call is a record: the operation, the operands (buffers), its           *)
(* attributes and the shape of its result.  Legal says which calls a        *)
(* program can hold, Meaning what their results are.                        *)
(***************************************************************************)
EXTENDS MlxArrays

Clamped(x, high) == Max({0, Min({x, high})})
Operand(c, k) == c.args[k].array
Scalar(c, k) == Operand(c, k).at[<<>>]
(* The starts given by the operands from k on, one per axis.               *)
Starts(c, k, sizes) ==
  [a \in DOMAIN sizes |-> Clamped(Scalar(c, k + a - 1), Operand(c, 1).shape[a] - sizes[a])]
Result(shape, F(_)) == <<Array(shape, "any", F)>>
----------------------------------------------------------------------------
(* Elements.                                                               *)

Wrapped(dtype, x) == IF dtype = "U8" THEN x % 256 ELSE x
Truncated(x, y) == LET q == (IF x < 0 THEN -x ELSE x) \div y IN IF x < 0 THEN -q ELSE q
Element(op, dtype, x, y) ==
  CASE op = "add" -> Wrapped(dtype, x + y)
    [] op = "subtract" -> Wrapped(dtype, x - y)
    [] op = "multiply" -> Wrapped(dtype, x * y)
    [] op = "divide" -> Truncated(x, y)
    [] op = "remainder" -> x - y * Truncated(x, y)
    [] op = "maximum" -> Max({x, y})
    [] op = "minimum" -> Min({x, y})
    [] op = "and" -> IF x = 1 /\ y = 1 THEN 1 ELSE 0
    [] op = "or" -> IF x = 1 \/ y = 1 THEN 1 ELSE 0
    [] op = "xor" -> IF x # y THEN 1 ELSE 0
Holds(direction, x, y) ==
  CASE direction = "EQ" -> x = y [] direction = "NE" -> x # y [] direction = "GE" -> x >= y
    [] direction = "GT" -> x > y [] direction = "LE" -> x <= y [] direction = "LT" -> x < y
Broadcast(a, shape, ix) ==
  a.at[[k \in DOMAIN a.shape |-> IF a.shape[k] = 1 THEN 0 ELSE ix[k + Len(shape) - Len(a.shape)]]]

(* The n-th binary digit; a negative number has infinitely many.            *)
Bit(x, n) == IF n > 30 THEN (IF x < 0 THEN 1 ELSE 0) ELSE (x \div 2^n) % 2
Width(dtype) == CASE dtype \in {"U8", "S8"} -> 8 [] dtype = "U16" -> 16 [] dtype \in {"S32", "U32"} -> 32 [] dtype = "U64" -> 64
SetBits(dtype, x) == {n \in 0 .. Width(dtype) - 1 : Bit(x, n) = 1}
Function1(op, dtype, x) ==
  CASE op = "negate" -> Wrapped(dtype, -x)
    [] op = "abs" -> Max({x, -x})
    [] op = "sign" -> CHOOSE s \in {-1, 0, 1} : s * Max({x, -x}) = x /\ (x = 0 => s = 0)
    [] op = "popcnt" -> Cardinality(SetBits(dtype, x))
    [] op = "clz" -> Width(dtype) - 1 - Max({-1} \cup SetBits(dtype, x))

(* The state of a loop when its condition first fails.                     *)
LoopStates(c, x, limit, by) ==
  {x + (IF c.update = "add" THEN n ELSE -n) * by : n \in {m \in 0 .. 20 :
     \A k \in 0 .. m - 1 : Holds(c.direction, x + (IF c.update = "add" THEN k ELSE -k) * by, limit)}}
LoopEnds(c, x, limit, by) == {y \in LoopStates(c, x, limit, by) : ~Holds(c.direction, y, limit)}
(* The loop has not ended after the iterations it is given.                 *)
CutShort(c, ix) ==
  LET shape == Operand(c, 1).shape
  IN Cardinality(LoopStates(c, Operand(c, 1).at[ix], Broadcast(Operand(c, 2), shape, ix), Broadcast(Operand(c, 3), shape, ix)))
       > c.max_iterations + 1

(* The n-th smallest element of a line of an array.                        *)
Line(a, ix, axis) == [n \in 0 .. At(a.shape, axis) - 1 |-> a.at[With(ix, axis, n)]]
Ranked(line, n) == CHOOSE v \in Range(line) :
  /\ Cardinality({m \in DOMAIN line : line[m] < v}) <= n
  /\ Cardinality({m \in DOMAIN line : line[m] <= v}) > n

Folded(kind, f) ==
  CASE kind = "sum" -> Sum(f)
    [] kind \in {"max", "or"} -> Max({Lowest} \cup Range(f))
    [] kind \in {"min", "and"} -> Min(Range(f))
----------------------------------------------------------------------------
(* Indexing.  c.map gives the operand axes the components of an index are   *)
(* for, c.batch and c.ibatch the axes that run together.                    *)

Explicit(c) == c.ivd < Len(Operand(c, 2).shape)
IndexAt(c, bx, k) ==
  LET i == Operand(c, 2)
  IN i.at[IF Explicit(c) THEN SubSeq(bx, 1, c.ivd) \o <<k>> \o SubSeq(bx, c.ivd + 1, Len(bx)) ELSE bx]
IndicesShape(c) == Dropped(Operand(c, 2).shape, {c.ivd})
(* The start, on each axis of the operand, of the slice of batch index bx.  *)
StartIndex(c, bx) ==
  PerAxis(Len(Operand(c, 1).shape), LAMBDA x :
    IF x \in ToSet(c.map) THEN IndexAt(c, bx, (CHOOSE k \in DOMAIN c.map : c.map[k] = x) - 1)
    ELSE IF x \in ToSet(c.batch)
      THEN LET i == c.ibatch[CHOOSE k \in DOMAIN c.batch : c.batch[k] = x] IN At(bx, IF i > c.ivd THEN i - 1 ELSE i)
      ELSE 0)
(* An index of the operand from one that lacks the axes S.                  *)
Filled(c, wx, S) ==
  PerAxis(Len(Operand(c, 1).shape), LAMBDA x :
    IF x \in S THEN 0 ELSE At(wx, Cardinality({y \in Axes(Operand(c, 1).shape) \ S : y < x})))
WithinAxes(c, ix) == ix \in DOMAIN Operand(c, 1).at

GatherShape(c) ==
  LET offsets == ToSet(c.offset)
      sizes == Dropped(c.sizes, ToSet(c.collapsed) \cup ToSet(c.batch))
      rank == Len(IndicesShape(c)) + Len(c.offset)
  IN PerAxis(rank, LAMBDA x :
       IF x \in offsets THEN At(sizes, Cardinality({y \in offsets : y < x}))
       ELSE At(IndicesShape(c), Cardinality({y \in 0 .. x - 1 : y \notin offsets})))
GatherElement(c, ix) ==
  LET start == StartIndex(c, Dropped(ix, ToSet(c.offset)))
      shape == Operand(c, 1).shape
  IN Operand(c, 1).at[Plus([k \in DOMAIN shape |-> Clamped(start[k], shape[k] - c.sizes[k])],
                           Filled(c, Picked(ix, SetToSortSeq(ToSet(c.offset), <)), ToSet(c.collapsed) \cup ToSet(c.batch)))]

(* The update at ux goes to an element of the operand.                      *)
ScatterTarget(c, ux) ==
  Plus(StartIndex(c, Dropped(ux, ToSet(c.window))),
       Filled(c, Picked(ux, c.window), ToSet(c.inserted) \cup ToSet(c.batch)))
ScatterElement(c, ix) ==
  LET u == Operand(c, 3)
      hits == {ux \in DOMAIN u.at : ScatterTarget(c, ux) = ix}
      a == Operand(c, 1).at[ix]
  IN IF c.add THEN a + Sum([ux \in hits |-> u.at[ux]])
     ELSE IF hits = {} THEN a ELSE u.at[CHOOSE ux \in hits : TRUE]
(* Some slice reaches outside the operand.                                  *)
GatherOutside(c) ==
  \E bx \in Index(IndicesShape(c)) : \E k \in DOMAIN c.sizes :
    StartIndex(c, bx)[k] \notin 0 .. Operand(c, 1).shape[k] - c.sizes[k]
(* The k-th window axis of the updates has the number of the axis of the    *)
(* operand it is for.                                                      *)
WindowIsItsAxis(c, k) ==
  LET kept == SetToSortSeq(Axes(Operand(c, 1).shape) \ ToSet(c.inserted \o c.batch), <)
  IN k \in DOMAIN kept /\ c.window[k] = kept[k] /\ c.window[k] = Len(IndicesShape(c)) + k - 1
----------------------------------------------------------------------------
(* Contractions and windows.                                               *)

Free(shape, used) == Axes(shape) \ used
DotShape(c) ==
  LET l == Operand(c, 1).shape  r == Operand(c, 2).shape
  IN Picked(l, c.lb) \o Dropped(l, ToSet(c.lb \o c.lc)) \o Dropped(r, ToSet(c.rb \o c.rc))
DotElement(c, ix) ==
  LET l == Operand(c, 1)  r == Operand(c, 2)  nb == Len(c.lb)
      lfree == SetToSortSeq(Free(l.shape, ToSet(c.lb \o c.lc)), <)
      rfree == SetToSortSeq(Free(r.shape, ToSet(c.rb \o c.rc)), <)
      Ix(a, batch, contract, free, from, k) == PerAxis(Len(a.shape), LAMBDA x :
        IF x = contract[1] THEN k
        ELSE IF x \in ToSet(batch) THEN ix[CHOOSE p \in DOMAIN batch : batch[p] = x]
        ELSE ix[from + CHOOSE p \in DOMAIN free : free[p] = x])
  IN Sum([k \in 0 .. At(l.shape, c.lc[1]) - 1 |->
            l.at[Ix(l, c.lb, c.lc, lfree, nb, k)] * r.at[Ix(r, c.rb, c.rc, rfree, nb + Len(lfree), k)]])

(* The elements of a window of an array, missing where it is padded.        *)
Window(a, c, ix) ==
  LET Place(wx) == [k \in DOMAIN ix |-> ix[k] * c.strides[k] + wx[k] * c.dilations[k] - c.low[k]]
  IN {wx \in Index(c.window) : Place(wx) \in DOMAIN a.at}
WindowPlace(c, ix, wx) == [k \in DOMAIN ix |-> ix[k] * c.strides[k] + wx[k] * c.dilations[k] - c.low[k]]
WindowShape(c) ==
  [k \in DOMAIN c.window |->
     LET room == c.low[k] + Operand(c, 1).shape[k] + c.high[k] - ((c.window[k] - 1) * c.dilations[k] + 1)
     IN IF room < 0 THEN 0 ELSE room \div c.strides[k] + 1]

(* More than one element of a window is the largest.                        *)
Largest(c, ix) == Max({Lowest} \cup {Operand(c, 1).at[WindowPlace(c, ix, wx)] : wx \in Window(Operand(c, 1), c, ix)})
Holders(c, ix) == {wx \in Window(Operand(c, 1), c, ix) : Operand(c, 1).at[WindowPlace(c, ix, wx)] = Largest(c, ix)}
TiedWindow(c) == \E ix \in Index(c.out) : Cardinality(Holders(c, ix)) > 1

(* [batch, features, spatial axes ..] with [out, in, spatial axes ..].      *)
ConvShape(c) ==
  LET l == Operand(c, 1).shape  w == Operand(c, 2).shape
      Dilated(n, d) == (n - 1) * d + 1
  IN <<l[1], w[1]>> \o [k \in 1 .. Len(l) - 2 |->
       (c.low[k] + Dilated(l[k + 2], c.ldil[k]) + c.high[k] - Dilated(w[k + 2], c.rdil[k])) \div c.strides[k] + 1]
ConvElement(c, ix) ==
  LET l == Operand(c, 1)  w == Operand(c, 2)  n == w.shape[2]
      group == ix[2] \div (w.shape[1] \div c.groups)
      taps == {wx \in DOMAIN w.at : wx[1] = ix[2]}
      From(wx, k) == ix[k + 2] * c.strides[k] + wx[k + 2] * c.rdil[k] - c.low[k]
      Source(wx) == {lx \in DOMAIN l.at :
        /\ lx[1] = ix[1] /\ lx[2] = group * n + wx[2]
        /\ \A k \in 1 .. Len(ix) - 2 : lx[k + 2] * c.ldil[k] = From(wx, k)}
  IN Sum([p \in {q \in taps \X DOMAIN l.at : q[2] \in Source(q[1])} |-> w.at[p[1]] * l.at[p[2]]])
(* Matrices of a batch.  The solution of a system, given with the call, is   *)
(* what multiplies to its right-hand side: the matrix is triangular, so it  *)
(* is the only one.                                                        *)
Entry2(a, lead, i, j) == a.at[lead \o <<i, j>>]
Triangle(c, lead, i, j) ==
  IF i = j /\ c.unit THEN 1
  ELSE IF i = j \/ (j < i) = c.lower THEN Entry2(Operand(c, 1), lead, i, j) ELSE 0
OfSystem(c, lead, i, j) == IF c.trans THEN Triangle(c, lead, j, i) ELSE Triangle(c, lead, i, j)
Solves(c) ==
  LET b == Operand(c, 2)  r == Len(b.shape)  n == Operand(c, 1).shape[r]
      X(lead, i, j) == Entry2(c.solution, lead, i, j)
  IN \A ix \in DOMAIN b.at :
       LET lead == SubSeq(ix, 1, r - 2)  i == ix[r - 1]  j == ix[r]
       IN b.at[ix] = Sum([k \in 0 .. n - 1 |->
            IF c.left THEN OfSystem(c, lead, i, k) * X(lead, k, j) ELSE X(lead, i, k) * OfSystem(c, lead, k, j)])
(* The factor has a positive diagonal, and zeros on one side of it.         *)
Factors(c) ==
  LET a == Operand(c, 1)  r == Len(a.shape)  n == a.shape[r]
      L(lead, i, j) == IF c.lower THEN Entry2(c.solution, lead, i, j) ELSE Entry2(c.solution, lead, j, i)
  IN \A ix \in DOMAIN a.at :
       LET lead == SubSeq(ix, 1, r - 2)  i == ix[r - 1]  j == ix[r]
       IN /\ a.at[ix] = Sum([k \in 0 .. n - 1 |-> L(lead, i, k) * L(lead, j, k)])
          /\ (i = j => L(lead, i, j) > 0) /\ (i < j => L(lead, i, j) = 0)

(* Attention over the keys up to the position of the query, which is the    *)
(* token plus its place among the queries; a key's weight is its score.     *)
AttentionElement(c, ix) ==
  LET q == Operand(c, 1)  k == Operand(c, 2)  v == Operand(c, 3)  r == Len(q.shape)
      head == ix[r - 1] \div (q.shape[r - 1] \div k.shape[r - 1])
      KeyAt(s, d) == SubSeq(ix, 1, r - 3) \o <<s, head, d>>
      Score(s) == Sum([d \in 0 .. q.shape[r] - 1 |-> q.at[With(ix, r - 1, d)] * k.at[KeyAt(s, d)]])
      token == CHOOSE t \in Range(Operand(c, 4).at) : TRUE
  IN Sum([s \in {t \in 0 .. k.shape[r - 2] - 1 : t <= token + ix[r - 2]} |-> Score(s) * v.at[KeyAt(s, ix[r])]])
----------------------------------------------------------------------------
Meaning(c) ==
  LET a == Operand(c, 1)  b == Operand(c, 2) IN
  CASE c.op = "iota" -> Result(c.out, LAMBDA ix : At(ix, c.axis))
    [] c.op = "reshape" -> Result(c.out, LAMBDA ix :
         a.at[CHOOSE jx \in DOMAIN a.at : Offset(jx, Strides(a.shape)) = Offset(ix, Strides(c.out))])
    [] c.op = "transpose" -> Result([k \in DOMAIN c.axes |-> At(a.shape, c.axes[k])], LAMBDA ix :
         a.at[CHOOSE jx \in DOMAIN a.at : \A k \in DOMAIN c.axes : At(jx, c.axes[k]) = ix[k]])
    [] c.op = "broadcast_in_dim" -> Result(c.out, LAMBDA ix :
         a.at[[k \in DOMAIN a.shape |-> IF a.shape[k] = 1 THEN 0 ELSE At(ix, c.axes[k])]])
    [] c.op = "slice" -> Result([k \in DOMAIN c.start |-> (c.stop[k] - c.start[k] + c.strides[k] - 1) \div c.strides[k]],
         LAMBDA ix : a.at[[k \in DOMAIN ix |-> c.start[k] + ix[k] * c.strides[k]]])
    [] c.op = "dynamic_slice" -> Result(c.sizes, LAMBDA ix : a.at[Plus(Starts(c, 2, c.sizes), ix)])
    [] c.op = "dynamic_update_slice" -> Result(a.shape, LAMBDA ix :
         LET from == [k \in DOMAIN ix |-> ix[k] - Starts(c, 3, b.shape)[k]]
         IN IF from \in DOMAIN b.at THEN b.at[from] ELSE a.at[ix])
    [] c.op = "pad" -> Result([k \in DOMAIN a.shape |-> c.low[k] + a.shape[k] + (a.shape[k] - 1) * c.interior[k] + c.high[k]],
         LAMBDA ix : LET from == {jx \in DOMAIN a.at : \A k \in DOMAIN ix : ix[k] = c.low[k] + jx[k] * (c.interior[k] + 1)}
                     IN IF from = {} THEN Scalar(c, 2) ELSE a.at[CHOOSE jx \in from : TRUE])
    [] c.op = "reverse" -> Result(a.shape, LAMBDA ix :
         a.at[PerAxis(Len(ix), LAMBDA x : IF x \in ToSet(c.axes) THEN At(a.shape, x) - 1 - At(ix, x) ELSE At(ix, x))])
    [] c.op = "concatenate" -> Result(With(a.shape, c.axis, At(a.shape, c.axis) + At(b.shape, c.axis)), LAMBDA ix :
         LET over == At(ix, c.axis) - At(a.shape, c.axis) IN IF over < 0 THEN a.at[ix] ELSE b.at[With(ix, c.axis, over)])
    [] c.op = "binary" -> Result(c.out, LAMBDA ix :
         Element(c.kind, c.args[1].dtype, Broadcast(a, c.out, ix), Broadcast(b, c.out, ix)))
    [] c.op = "custom_add" -> Result(c.out, LAMBDA ix : a.at[ix] + b.at[ix])
    [] c.op = "compare" -> Result(c.out, LAMBDA ix :
         IF Holds(c.direction, Broadcast(a, c.out, ix), Broadcast(b, c.out, ix)) THEN 1 ELSE 0)
    [] c.op = "select" -> Result(a.shape, LAMBDA ix : IF a.at[ix] = 1 THEN b.at[ix] ELSE Operand(c, 3).at[ix])
    [] c.op = "clamp" -> Result(b.shape, LAMBDA ix :
         Min({Max({b.at[ix], Broadcast(a, b.shape, ix)}), Broadcast(Operand(c, 3), b.shape, ix)}))
    [] c.op = "convert" -> Result(a.shape, LAMBDA ix :
         IF c.dtype = "PRED" THEN (IF a.at[ix] = 0 THEN 0 ELSE 1) ELSE Wrapped(c.dtype, a.at[ix]))
    [] c.op = "while" -> Result(a.shape, LAMBDA ix :
         CHOOSE y \in LoopEnds(c, a.at[ix], Broadcast(b, a.shape, ix), Broadcast(Operand(c, 3), a.shape, ix)) : TRUE)
    [] c.op = "sort" -> Result(a.shape, LAMBDA ix : Ranked(Line(a, ix, c.axis), At(ix, c.axis)))
    [] c.op = "argsort" -> Result(a.shape, LAMBDA ix : LET line == Line(a, ix, c.axis) IN
         CHOOSE n \in DOMAIN line :
           Cardinality({m \in DOMAIN line : line[m] < line[n] \/ (line[m] = line[n] /\ m < n)}) = At(ix, c.axis))
    [] c.op = "take_along_axis" -> Result(a.shape, LAMBDA ix : a.at[With(ix, c.axis, b.at[ix])])
    [] c.op = "gather" -> Result(GatherShape(c), LAMBDA ix : GatherElement(c, ix))
    [] c.op = "scatter" -> Result(a.shape, LAMBDA ix : ScatterElement(c, ix))
    [] c.op = "dot_general" -> Result(DotShape(c), LAMBDA ix : DotElement(c, ix))
    [] c.op = "convolution" -> Result(ConvShape(c), LAMBDA ix : ConvElement(c, ix))
    [] c.op = "reduce" -> Result(Dropped(a.shape, ToSet(c.axes)), LAMBDA ix :
         Folded(c.kind, [jx \in {x \in DOMAIN a.at : Dropped(x, ToSet(c.axes)) = ix} |-> a.at[jx]]))
    [] c.op = "reduce_window" -> Result(WindowShape(c), LAMBDA ix :
         Folded(c.kind, [wx \in Window(a, c, ix) |-> a.at[WindowPlace(c, ix, wx)]]))
    [] c.op = "argmax" ->
         LET Over(ix) == {x \in DOMAIN a.at : Dropped(x, ToSet(c.axes)) = ix}
             Best(ix) == Max({a.at[x] : x \in Over(ix)})
         IN Result(Dropped(a.shape, ToSet(c.axes)), LAMBDA ix : Best(ix))
            \o Result(Dropped(a.shape, ToSet(c.axes)), LAMBDA ix : Min({b.at[x] : x \in {y \in Over(ix) : a.at[y] = Best(ix)}}))
    [] c.op = "unary" -> Result(a.shape, LAMBDA ix : Function1(c.kind, c.args[1].dtype, a.at[ix]))
    [] c.op = "cholesky" -> Result(a.shape, LAMBDA ix : c.solution.at[ix])
    [] c.op = "triangular_solve" -> Result(b.shape, LAMBDA ix : c.solution.at[ix])
    [] c.op = "attention" -> Result(a.shape, LAMBDA ix : AttentionElement(c, ix))
    [] c.op = "random_bits" -> Result(c.out, LAMBDA ix : 0)    \* whatever has not been drawn
    [] c.op = "argmax_window" ->
         Result(WindowShape(c), LAMBDA ix : Largest(c, ix))
         \o Result(WindowShape(c), LAMBDA ix :
              IF Holders(c, ix) = {} THEN 0 ELSE b.at[WindowPlace(c, ix, CHOOSE wx \in Holders(c, ix) : TRUE)])
----------------------------------------------------------------------------
(* Which calls a program may make, of those the backend says it runs: one   *)
(* device, no empty tensors, no negative padding, contractions and windows  *)
(* of floating-point numbers only.                                         *)

Float == {"F32", "F16", "BF16"}
SameType(c, K) == \A j, k \in K : c.args[j].dtype = c.args[k].dtype
Distinct(axes, shape) == Cardinality(ToSet(axes)) = Len(axes) /\ ToSet(axes) \subseteq Axes(shape)
Scalars(c, from) == \A k \in from .. Len(c.args) : Operand(c, k).shape = <<>>
Positive(s) == \A k \in DOMAIN s : s[k] > 0
Extends(from, to) ==
  Len(from) <= Len(to) /\ \A k \in DOMAIN from : from[k] \in {1, to[k + Len(to) - Len(from)]}

(* The index vectors have a component for each axis of c.map.               *)
WellIndexed(c) ==
  LET shape == Operand(c, 1).shape  indices == Operand(c, 2).shape
  IN /\ IF Explicit(c) THEN At(indices, c.ivd) = Len(c.map) ELSE c.ivd = Len(indices) /\ Len(c.map) = 1
     /\ Distinct(c.map \o c.batch, shape) /\ Len(c.batch) = Len(c.ibatch)
     /\ \A k \in DOMAIN c.batch :
          c.ibatch[k] \in Axes(indices) \ {c.ivd} /\ At(shape, c.batch[k]) = At(indices, c.ibatch[k])
WellGathered(c) ==
  LET shape == Operand(c, 1).shape  gone == c.collapsed \o c.batch
  IN /\ WellIndexed(c) /\ Distinct(gone, shape) /\ Len(c.sizes) = Len(shape)
     /\ \A k \in DOMAIN shape : c.sizes[k] \in 1 .. shape[k] /\ (k - 1 \in ToSet(gone) => c.sizes[k] = 1)
     /\ Len(c.offset) = Len(shape) - Len(gone)
     /\ Distinct(c.offset, [k \in 1 .. Len(c.offset) + Len(IndicesShape(c)) |-> 0])
WellScattered(c) ==
  LET shape == Operand(c, 1).shape  updates == Operand(c, 3).shape  gone == c.inserted \o c.batch
      kept == Dropped(shape, ToSet(gone))
  IN /\ WellIndexed(c) /\ Distinct(gone, shape) /\ Distinct(c.window, updates) /\ Len(c.window) = Len(kept)
     /\ Dropped(updates, ToSet(c.window)) = IndicesShape(c)
     /\ \A k \in DOMAIN kept : At(updates, c.window[k]) <= kept[k]
     /\ SameType(c, {1, 3})

PairWellTyped(c) == c.args[1].dtype \in Float /\ c.args[2].dtype \in {"S32", "U32"}
WellWindowed(c) ==
  LET n == Len(Operand(c, 1).shape)
  IN /\ n > 0 /\ Len(c.window) = n /\ Positive(c.window) /\ Positive(c.strides) /\ Positive(c.dilations)
     /\ \A k \in 1 .. n : c.base[k] = 1 /\ c.low[k] >= 0 /\ c.high[k] >= 0

WellTyped(c) ==
  LET a == Operand(c, 1).shape  b == Operand(c, 2).shape IN
  CASE c.op = "iota" -> c.axis \in Axes(c.out) /\ c.dtype \in Float \cup {"S32", "U32", "U8"}
    [] c.op = "convert" -> c.dtype \in Float \cup {"PRED", "S32", "U32", "U8"}
    [] c.op = "reshape" -> Size(a) = Size(c.out)
    [] c.op = "transpose" -> Distinct(c.axes, a) /\ Len(c.axes) = Len(a)
    [] c.op = "broadcast_in_dim" ->
         /\ Len(c.axes) = Len(a) /\ Distinct(c.axes, c.out)
         /\ \A k \in DOMAIN c.axes : a[k] \in {1, At(c.out, c.axes[k])}
    [] c.op = "slice" ->
         /\ Len(c.start) = Len(a) /\ Len(c.stop) = Len(a) /\ Len(c.strides) = Len(a) /\ Positive(c.strides)
         /\ \A k \in DOMAIN a : 0 <= c.start[k] /\ c.start[k] <= c.stop[k] /\ c.stop[k] <= a[k]
    [] c.op = "dynamic_slice" ->
         /\ Scalars(c, 2) /\ Len(c.args) = Len(a) + 1 /\ Len(c.sizes) = Len(a)
         /\ \A k \in DOMAIN a : c.sizes[k] \in 1 .. a[k]
    [] c.op = "dynamic_update_slice" ->
         /\ SameType(c, {1, 2}) /\ Scalars(c, 3) /\ Len(c.args) = Len(a) + 2 /\ Len(b) = Len(a)
         /\ \A k \in DOMAIN a : b[k] \in 1 .. a[k]
    [] c.op = "pad" ->
         /\ SameType(c, {1, 2}) /\ b = <<>>
         /\ \A k \in DOMAIN a : c.low[k] >= 0 /\ c.high[k] >= 0 /\ c.interior[k] >= 0
    [] c.op = "reverse" -> Distinct(c.axes, a)
    [] c.op = "concatenate" ->
         /\ SameType(c, {1, 2}) /\ Len(a) = Len(b) /\ c.axis \in Axes(a)
         /\ \A k \in DOMAIN a : k - 1 # c.axis => a[k] = b[k]
    [] c.op \in {"binary", "compare"} -> SameType(c, {1, 2}) /\ Extends(a, c.out) /\ Extends(b, c.out)
    [] c.op = "custom_add" -> SameType(c, {1, 2}) /\ c.args[1].dtype = "F32" /\ a = b /\ a = c.out
    [] c.op = "select" -> c.args[1].dtype = "PRED" /\ SameType(c, {2, 3}) /\ a = b /\ b = Operand(c, 3).shape
    [] c.op = "clamp" -> SameType(c, 1 .. 3) /\ a \in {<<>>, b} /\ Operand(c, 3).shape \in {<<>>, b}
    [] c.op = "while" ->
         /\ SameType(c, 1 .. 3) /\ c.args[1].dtype \in {"F32", "BF16"} /\ c.direction \in {"LT", "LE", "GT", "GE"}
         /\ b \in {<<>>, a} /\ Operand(c, 3).shape \in {<<>>, a}
    [] c.op \in {"sort", "argsort"} -> c.axis \in Axes(a)
    [] c.op = "take_along_axis" -> c.axis \in Axes(a) /\ a = b
    [] c.op = "gather" -> WellGathered(c)
    [] c.op = "scatter" -> WellScattered(c)
    [] c.op = "dot_general" ->
         /\ SameType(c, {1, 2}) /\ c.args[1].dtype \in Float /\ Len(b) >= 2 /\ c.out # <<>>
         /\ Len(c.lc) = 1 /\ Len(c.rc) = 1 /\ Len(c.lb) = Len(c.rb)
         /\ Distinct(c.lb \o c.lc, a) /\ Distinct(c.rb \o c.rc, b)
         /\ \A k \in DOMAIN c.lb : At(a, c.lb[k]) = At(b, c.rb[k])
         /\ At(a, c.lc[1]) = At(b, c.rc[1])
    [] c.op = "convolution" ->
         /\ SameType(c, {1, 2}) /\ c.args[1].dtype \in Float /\ Len(a) = Len(b) /\ Len(a) = Len(c.strides) + 2
         /\ Positive(c.strides) /\ Positive(c.ldil) /\ Positive(c.rdil)
         /\ c.groups > 0 /\ b[2] * c.groups = a[2] /\ b[1] % c.groups = 0
    [] c.op = "reduce" ->
         /\ Distinct(c.axes, a)
         /\ IF c.kind \in {"and", "or"} THEN c.args[1].dtype = "PRED" ELSE c.args[1].dtype # "PRED"
    [] c.op = "reduce_window" -> c.args[1].dtype \in Float /\ WellWindowed(c)
    [] c.op = "argmax" -> PairWellTyped(c) /\ a = b /\ Distinct(c.axes, a)
    [] c.op = "argmax_window" -> PairWellTyped(c) /\ a = b /\ WellWindowed(c)
    [] c.op = "unary" -> c.args[1].dtype \in {"S8", "S32", "U8", "U16", "U32", "U64"}
    [] c.op = "cholesky" -> c.args[1].dtype = "F32" /\ Len(a) >= 2 /\ a[Len(a)] = a[Len(a) - 1] /\ Factors(c)
    [] c.op = "triangular_solve" ->
         /\ SameType(c, {1, 2}) /\ c.args[1].dtype = "F32" /\ Len(a) >= 2 /\ Len(a) = Len(b) /\ a[Len(a)] = a[Len(a) - 1]
         /\ b[IF c.left THEN Len(b) - 1 ELSE Len(b)] = a[Len(a)]
         /\ \A k \in 1 .. Len(a) - 2 : a[k] = b[k]
         /\ Solves(c)
    [] c.op = "attention" ->
         /\ SameType(c, 1 .. 3) /\ c.args[1].dtype \in Float /\ Len(a) \in {3, 4} /\ Len(b) = Len(a)
         /\ b = Operand(c, 3).shape /\ Size(Operand(c, 4).shape) = 1
         /\ b[Len(a)] = a[Len(a)] /\ a[Len(a) - 1] % b[Len(a) - 1] = 0 /\ (Len(a) = 4 => a[1] = b[1])
    [] c.op = "random_bits" -> c.args[1].dims = <<2>> /\ c.args[1].dtype = "U64" /\ c.dtype \in {"U8", "U16", "U32", "U64"}

Legal(c) ==
  /\ \A j, k \in DOMAIN c.args : c.args[j].device = c.args[k].device
  /\ WellTyped(c)
  /\ Size(c.out) > 0 /\ \A k \in DOMAIN Meaning(c) : Meaning(c)[k].shape = c.out
=============================================================================
