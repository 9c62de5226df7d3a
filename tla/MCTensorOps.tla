------------------------------ MODULE MCTensorOps ------------------------------
(***************************************************************************)
(* The calls tried: a few legal ones of every operation, over tensors of    *)
(* rank 0 to 4 with axes of size 1 to 4, and variants of each that a        *)
(* program may not make.                                                    *)
(***************************************************************************)
EXTENDS TensorOps

Buffer(array, device) ==
  [array |-> array, byte_size |-> byte_size_for_shape(array.dtype, array.shape), dtype |-> array.dtype,
   dims |-> array.shape, device |-> device]
(* Distinct elements, not in order.                                        *)
Mixed(shape, dtype) ==
  Buffer(Array(shape, dtype, LAMBDA ix : (Offset(ix, Strides(shape)) * 7 + 3) % 29), 0)
(* Elements that repeat.                                                   *)
Few(shape, dtype) == Buffer(Array(shape, dtype, LAMBDA ix : (Offset(ix, Strides(shape)) * 2) % 3), 0)
Bools(shape) == Buffer(Array(shape, "PRED", LAMBDA ix : (Offset(ix, Strides(shape)) \div 2) % 2), 0)
Line1(values, dtype) == Buffer(Array(<<Len(values)>>, dtype, LAMBDA ix : values[ix[1] + 1]), 0)
Table(shape, values, dtype) == Buffer(Array(shape, dtype, LAMBDA ix : values[Offset(ix, Strides(shape)) + 1]), 0)
Number(x, dtype) == Table(<<>>, <<x>>, dtype)
F(shape) == Mixed(shape, "F32")

(* The shape of the result a program would give it.                        *)
Shaped(c) == [c EXCEPT !.out = Meaning(c)[1].shape]
Base(op, args) == [op |-> op, args |-> args, out |-> <<>>]
With1(c, r) == Shaped(r @@ c)

Permutations3 == {p \in [1 .. 3 -> 0 .. 2] : IsInjective(p)}
Gathers == {
  \* rows of a table, then columns, with the index vector explicit and not
  [map |-> <<0>>, batch |-> <<>>, ibatch |-> <<>>, collapsed |-> <<0>>, offset |-> <<1>>, sizes |-> <<1, 3>>, ivd |-> 1,
   args |-> <<F(<<4, 3>>), Table(<<2, 1>>, <<3, 1>>, "S32")>>],
  [map |-> <<0>>, batch |-> <<>>, ibatch |-> <<>>, collapsed |-> <<0>>, offset |-> <<2>>, sizes |-> <<1, 3>>, ivd |-> 2,
   args |-> <<F(<<4, 3>>), Table(<<2, 2>>, <<3, 1, 0, 2>>, "S32")>>],
  [map |-> <<1>>, batch |-> <<>>, ibatch |-> <<>>, collapsed |-> <<1>>, offset |-> <<0>>, sizes |-> <<4, 1>>, ivd |-> 1,
   args |-> <<F(<<4, 3>>), Table(<<2>>, <<2, 0>>, "S32")>>],
  \* points and windows, with the components of the index swapped
  [map |-> <<1, 0>>, batch |-> <<>>, ibatch |-> <<>>, collapsed |-> <<0, 1>>, offset |-> <<>>, sizes |-> <<1, 1>>, ivd |-> 0,
   args |-> <<F(<<4, 3>>), Table(<<2, 3>>, <<2, 0, 1, 3, 1, 0>>, "S32")>>],
  [map |-> <<0, 1>>, batch |-> <<>>, ibatch |-> <<>>, collapsed |-> <<0>>, offset |-> <<0>>, sizes |-> <<1, 2>>, ivd |-> 1,
   args |-> <<F(<<4, 3>>), Table(<<2, 2>>, <<3, 1, 0, 0>>, "S32")>>],
  [map |-> <<0>>, batch |-> <<>>, ibatch |-> <<>>, collapsed |-> <<>>, offset |-> <<0, 2>>, sizes |-> <<2, 2>>, ivd |-> 1,
   args |-> <<F(<<4, 2>>), Table(<<2>>, <<2, 0>>, "S32")>>],
  \* batches, with the index vector after and before the batch axis
  [map |-> <<1>>, batch |-> <<0>>, ibatch |-> <<0>>, collapsed |-> <<1>>, offset |-> <<>>, sizes |-> <<1, 1>>, ivd |-> 2,
   args |-> <<F(<<2, 3>>), Table(<<2, 2>>, <<2, 0, 1, 1>>, "S32")>>],
  [map |-> <<1>>, batch |-> <<0>>, ibatch |-> <<1>>, collapsed |-> <<1>>, offset |-> <<>>, sizes |-> <<1, 1>>, ivd |-> 0,
   args |-> <<F(<<2, 3>>), Table(<<1, 2, 3>>, <<2, 0, 1, 1, 0, 2>>, "S32")>>],
  [map |-> <<2>>, batch |-> <<0>>, ibatch |-> <<0>>, collapsed |-> <<2>>, offset |-> <<1>>, sizes |-> <<1, 2, 1>>, ivd |-> 2,
   args |-> <<F(<<2, 2, 3>>), Table(<<2, 2, 1>>, <<2, 0, 1, 1>>, "S32")>>],
  \* past the end of the operand
  [map |-> <<0>>, batch |-> <<>>, ibatch |-> <<>>, collapsed |-> <<0>>, offset |-> <<1>>, sizes |-> <<1, 3>>, ivd |-> 1,
   args |-> <<F(<<4, 3>>), Table(<<2, 1>>, <<4, 1>>, "S32")>>]}
Scatters == {
  [map |-> <<0>>, batch |-> <<>>, ibatch |-> <<>>, inserted |-> <<0>>, window |-> <<>>, ivd |-> 1,
   args |-> <<F(<<4>>), Line1(<<3, 1>>, "S32"), F(<<2>>)>>],
  [map |-> <<0>>, batch |-> <<>>, ibatch |-> <<>>, inserted |-> <<0>>, window |-> <<>>, ivd |-> 1,
   args |-> <<F(<<4>>), Table(<<2, 1>>, <<3, 1>>, "S32"), F(<<2>>)>>],
  [map |-> <<1, 0>>, batch |-> <<>>, ibatch |-> <<>>, inserted |-> <<0, 1>>, window |-> <<>>, ivd |-> 0,
   args |-> <<F(<<4, 3>>), Table(<<2, 3>>, <<2, 0, 1, 3, 1, 0>>, "S32"), F(<<3>>)>>],
  [map |-> <<0, 1>>, batch |-> <<>>, ibatch |-> <<>>, inserted |-> <<0>>, window |-> <<1>>, ivd |-> 1,
   args |-> <<F(<<4, 3>>), Table(<<2, 2>>, <<3, 1, 0, 0>>, "S32"), F(<<2, 2>>)>>],
  [map |-> <<1>>, batch |-> <<0>>, ibatch |-> <<0>>, inserted |-> <<1>>, window |-> <<>>, ivd |-> 2,
   args |-> <<F(<<2, 3>>), Table(<<2, 2, 1>>, <<2, 0, 1, 0>>, "S32"), F(<<2, 2>>)>>],
  \* a row at a time, and windows the code reads as other axes
  [map |-> <<0>>, batch |-> <<>>, ibatch |-> <<>>, inserted |-> <<0>>, window |-> <<1>>, ivd |-> 1,
   args |-> <<F(<<4, 3>>), Line1(<<3, 1>>, "S32"), F(<<2, 3>>)>>],
  [map |-> <<0, 1>>, batch |-> <<>>, ibatch |-> <<>>, inserted |-> <<1>>, window |-> <<1>>, ivd |-> 1,
   args |-> <<F(<<4, 3>>), Table(<<2, 2>>, <<2, 1, 0, 0>>, "S32"), F(<<2, 2>>)>>]}
(* Operands and contracting axes, for zero and one batching axis.          *)
Dots == {
  <<<<3>>, <<3, 2>>, <<>>, <<>>, <<0>>, <<0>>>>,
  <<<<2, 3>>, <<3, 2>>, <<>>, <<>>, <<1>>, <<0>>>>,
  <<<<2, 3>>, <<4, 3>>, <<>>, <<>>, <<1>>, <<1>>>>,
  <<<<3, 2>>, <<3, 4>>, <<>>, <<>>, <<0>>, <<0>>>>,
  <<<<3, 2>>, <<4, 3>>, <<>>, <<>>, <<0>>, <<1>>>>,
  <<<<2, 2, 3>>, <<3, 2>>, <<>>, <<>>, <<2>>, <<0>>>>,
  <<<<2, 2, 3>>, <<2, 3, 2>>, <<0>>, <<0>>, <<2>>, <<1>>>>,
  <<<<2, 2, 3>>, <<2, 4, 3>>, <<0>>, <<0>>, <<2>>, <<2>>>>,
  <<<<3, 2, 2>>, <<2, 4, 3>>, <<2>>, <<0>>, <<0>>, <<2>>>>,
  <<<<2, 3, 2>>, <<3, 2, 2>>, <<2>>, <<2>>, <<1>>, <<0>>>>,
  <<<<2, 3, 3>>, <<2, 3>>, <<>>, <<>>, <<2>>, <<1>>>>,
  <<<<2, 2, 3>>, <<2, 3>>, <<>>, <<>>, <<2>>, <<1>>>>,
  <<<<1, 3, 2, 3>>, <<2, 3>>, <<>>, <<>>, <<3>>, <<1>>>>}
Convolutions == {
  [args |-> <<F(<<1, 1, 4>>), F(<<2, 1, 2>>)>>, strides |-> <<1>>, low |-> <<1>>, high |-> <<0>>, ldil |-> <<1>>, rdil |-> <<2>>, groups |-> 1],
  [args |-> <<F(<<1, 4, 3>>), F(<<2, 2, 2>>)>>, strides |-> <<2>>, low |-> <<1>>, high |-> <<1>>, ldil |-> <<2>>, rdil |-> <<1>>, groups |-> 2],
  [args |-> <<F(<<1, 2, 3, 3>>), F(<<1, 2, 2, 1>>)>>, strides |-> <<1, 2>>, low |-> <<0, 0>>, high |-> <<0, 1>>, ldil |-> <<1, 1>>,
   rdil |-> <<1, 1>>, groups |-> 1]}
Window1(shape, window, strides, dilations, low, high) ==
  [args |-> <<F(shape)>>, window |-> window, strides |-> strides, dilations |-> dilations, base |-> [k \in DOMAIN shape |-> 1],
   low |-> low, high |-> high]
WindowCases == {
  Window1(<<4>>, <<2>>, <<1>>, <<1>>, <<0>>, <<0>>), Window1(<<5>>, <<2>>, <<2>>, <<2>>, <<1>>, <<1>>),
  Window1(<<3, 4>>, <<2, 2>>, <<1, 2>>, <<1, 1>>, <<1, 0>>, <<0, 0>>),
  Window1(<<3, 4>>, <<2, 2>>, <<1, 1>>, <<1, 2>>, <<0, 0>>, <<0, 0>>), Window1(<<2, 3>>, <<1, 3>>, <<1, 1>>, <<1, 1>>, <<0, 1>>, <<0, 1>>)}
(* The same elements computed as a transposed array (the first axis is the  *)
(* fastest), and as every second element of an array twice as long.         *)
Transposed(b) == [b EXCEPT !.array.strides = [k \in DOMAIN b.dims |-> Size(SubSeq(b.dims, 1, k - 1))]]
Skipping(b) == [b EXCEPT !.array.strides = [k \in DOMAIN b.dims |-> 2 * @[k]]]
Layouts(b) == {b, Transposed(b), Skipping(b)}
Loop(x, limit, step, direction, update) ==
  [args |-> <<x, limit, step>>, direction |-> direction, update |-> update, max_iterations |-> 6]
Numbered(x) == Number(x, "F32")

(* A system from its solution, with something else on the other side of the *)
(* diagonal, and on it when it counts as one.                              *)
Cell(i, j) == IF i = j THEN 2 ELSE ((3 * i + 2 * j) % 5) - 2
System(batched, left, lower, unit, trans) ==
  LET lead == IF batched THEN <<2>> ELSE <<>>
      a == Buffer(Array(lead \o <<3, 3>>, "F32", LAMBDA ix : LET r == Len(ix) IN Cell(ix[r - 1], ix[r])), 0)
      x == Few(lead \o (IF left THEN <<3, 2>> ELSE <<2, 3>>), "F32").array
      c == [op |-> "triangular_solve", args |-> <<a, a>>, out |-> x.shape, left |-> left, lower |-> lower, unit |-> unit,
            trans |-> trans, solution |-> x]
      Product(ix) == LET r == Len(ix)  l == SubSeq(ix, 1, r - 2)
                     IN Sum([k \in 0 .. 2 |-> IF left THEN OfSystem(c, l, ix[r - 1], k) * Entry2(x, l, k, ix[r])
                                              ELSE Entry2(x, l, ix[r - 1], k) * OfSystem(c, l, k, ix[r])])
  IN [c EXCEPT !.args[2] = Buffer(Array(x.shape, "F32", Product), 0)]
Definite(n, batch, lower) ==
  LET shape == batch \o <<n, n>>
      L(lead, i, j) == IF i = j THEN 2 + Size(Append(lead, 1)) ELSE IF j < i THEN ((2 * i + j) % 3) - 1 ELSE 0
      l == Array(shape, "F32", LAMBDA ix : LET r == Len(ix)  lead == SubSeq(ix, 1, r - 2)
                                           IN IF lower THEN L(lead, ix[r - 1], ix[r]) ELSE L(lead, ix[r], ix[r - 1]))
      a == Array(shape, "F32", LAMBDA ix : LET r == Len(ix)  lead == SubSeq(ix, 1, r - 2)
                                           IN Sum([k \in 0 .. n - 1 |-> L(lead, ix[r - 1], k) * L(lead, ix[r], k)]))
  IN [op |-> "cholesky", args |-> <<Buffer(a, 0)>>, out |-> shape, lower |-> lower, solution |-> l]
Attentions == {<<<<2, 4, 2>>, <<3, 2, 2>>>>, <<<<2, 2, 2, 3>>, <<2, 3, 1, 3>>>>, <<<<3, 1, 2>>, <<2, 1, 2>>>>}
BitShapes == {<<>>, <<1>>, <<3>>, <<4>>, <<3, 5>>, <<3, 4>>, <<2, 3>>, <<1, 3, 3>>, <<3, 2, 2>>}
Seed == Line1(<<17, 5>>, "U64")
SeedKeptAsHalves == [array |-> Array(<<4>>, "U32", LAMBDA ix : <<17, 0, 5, 1>>[ix[1] + 1]), byte_size |-> 16, dtype |-> "U64",
                     dims |-> <<2>>, device |-> 0]

Legals(op) ==
  CASE op = "iota" -> {With1(Base(op, <<>>), [out |-> s, axis |-> x, dtype |-> d, device |-> 0]) :
         s \in {<<2, 3, 2>>}, x \in 0 .. 2, d \in {"F32", "U8"}}
    [] op = "convert" -> {Shaped([dtype |-> d] @@ Base(op, <<b>>)) : d \in {"PRED", "U8", "F32"}, b \in {Few(<<2, 3>>, "S32"), F(<<3>>)}}
    [] op = "reshape" -> {[out |-> s] @@ Base(op, <<F(<<2, 3, 2>>)>>) : s \in {<<12>>, <<3, 4>>, <<2, 2, 3>>}}
    [] op = "transpose" -> {With1(Base(op, <<F(<<2, 3, 4>>)>>), [axes |-> p]) : p \in Permutations3}
    [] op = "broadcast_in_dim" -> {
         [out |-> <<2, 3, 2>>, axes |-> p] @@ Base(op, <<F(<<2, 1>>)>>) : p \in {<<0, 1>>, <<0, 2>>, <<2, 1>>, <<2, 0>>}}
    [] op = "slice" -> {With1(Base(op, <<F(<<4, 3>>)>>), [start |-> p, stop |-> q, strides |-> r]) :
         p \in {<<0, 0>>, <<1, 1>>}, q \in {<<4, 3>>, <<3, 2>>}, r \in {<<1, 1>>, <<2, 1>>, <<3, 2>>}}
    [] op = "dynamic_slice" -> {With1(Base(op, <<F(<<4, 3>>), Number(i, "S32"), Number(j, "S32")>>), [sizes |-> <<2, 2>>]) :
         i \in {0, 2, 3}, j \in {-1, 0, 1}}
    [] op = "dynamic_update_slice" -> {
         Shaped(Base(op, <<F(<<4, 3>>), Few(<<2, 2>>, "F32"), Number(i, "S32"), Number(j, "S32")>>)) : i \in {0, 2, 3}, j \in {-1, 0, 1}}
    [] op = "pad" -> {With1(Base(op, <<F(<<2, 3>>), Numbered(99)>>), [low |-> l, high |-> h, interior |-> i]) :
         l \in {<<0, 0>>, <<1, 2>>}, h \in {<<0, 0>>, <<2, 1>>}, i \in {<<0, 0>>, <<1, 0>>, <<2, 1>>}}
    [] op = "reverse" -> {With1(Base(op, <<F(<<2, 3>>)>>), [axes |-> x]) : x \in {<<0>>, <<1>>, <<1, 0>>}}
    [] op = "concatenate" -> {With1(Base(op, <<F(<<2, 3>>), Few(s, "F32")>>), [axis |-> x]) : s \in {<<2, 3>>}, x \in {0, 1}}
         \cup {With1(Base(op, <<F(<<2, 3>>), Few(<<2, 1>>, "F32")>>), [axis |-> 1])}
    [] op = "binary" ->
         {[out |-> <<2, 3>>, kind |-> k] @@ Base(op, <<Mixed(<<2, 3>>, d), b>>) : k \in {"add", "subtract", "multiply", "maximum", "minimum"},
            d \in {"U8"}, b \in {Few(<<2, 3>>, "U8"), Few(<<3>>, "U8"), Few(<<2, 1>>, "U8")}}
         \cup {[out |-> <<3>>, kind |-> "divide"] @@ Base(op, <<Line1(<<4, 9, 7>>, "U8"), Line1(<<2, 3, 2>>, "U8")>>),
               [out |-> <<2>>, kind |-> "divide"] @@ Base(op, <<Line1(<<4, 9>>, "F32"), Line1(<<2, 3>>, "F32")>>),
               [out |-> <<2>>, kind |-> "divide"] @@ Base(op, <<Line1(<<4, 9>>, "S32"), Line1(<<2, 3>>, "S32")>>),
               [out |-> <<2>>, kind |-> "remainder"] @@ Base(op, <<Line1(<<5, 9>>, "S32"), Line1(<<2, 3>>, "S32")>>),
               [out |-> <<2>>, kind |-> "remainder"] @@ Base(op, <<Line1(<<-5, 9>>, "S32"), Line1(<<2, 3>>, "S32")>>)}
         \cup {[out |-> <<4>>, kind |-> k] @@ Base(op, <<Bools(<<4>>), Table(<<4>>, <<0, 1, 0, 1>>, "PRED")>>) : k \in {"and", "or", "xor"}}
    [] op = "compare" -> {[out |-> <<2, 3>>, direction |-> d] @@ Base(op, <<Few(<<2, 3>>, "S32"), Few(<<3>>, "S32")>>) :
         d \in {"EQ", "NE", "GE", "GT", "LE", "LT"}}
    [] op = "select" -> {Shaped(Base(op, <<Bools(<<2, 3>>), F(<<2, 3>>), Few(<<2, 3>>, "F32")>>))}
    [] op = "clamp" -> {Shaped(Base(op, <<l, F(<<2, 3>>), h>>)) : l \in {Numbered(5), Few(<<2, 3>>, "F32")}, h \in {Numbered(9)}}
    [] op = "while" -> {With1(Base(op, l.args), l) : l \in {
         Loop(Numbered(0), Numbered(5), Numbered(2), "LT", "add"), Loop(Numbered(0), Numbered(4), Numbered(2), "LE", "add"),
         Loop(Numbered(5), Numbered(0), Numbered(1), "GT", "subtract"), Loop(Numbered(4), Numbered(0), Numbered(2), "GE", "subtract"),
         Loop(Numbered(7), Numbered(5), Numbered(2), "LT", "add"), Loop(Numbered(0), Numbered(9), Numbered(1), "LT", "add")}}
    [] op = "custom_add" -> {[out |-> <<2, 3>>] @@ Base(op, <<F(<<2, 3>>), Few(<<2, 3>>, "F32")>>)}
    [] op = "sort" -> {With1(Base(op, <<b>>), [axis |-> x]) : b \in {F(<<2, 3>>), Few(<<3, 2>>, "S32")}, x \in {0, 1}}
    [] op = "argsort" -> {With1(Base(op, <<b>>), [axis |-> x, dtype |-> "S32"]) : b \in {F(<<2, 3>>), Few(<<3, 2>>, "S32")}, x \in {0, 1}}
    [] op = "take_along_axis" -> {With1(Base(op, <<F(<<2, 2>>), Table(<<2, 2>>, <<1, 0, 0, 0>>, "S32")>>), [axis |-> x]) : x \in {0, 1}}
    [] op = "gather" -> {With1(Base(op, g.args), g) : g \in Gathers}
    [] op = "scatter" -> {With1(Base(op, s.args), [add |-> x] @@ s) : s \in Scatters, x \in BOOLEAN}
    [] op = "dot_general" -> {With1(Base(op, <<F(d[1]), F(d[2])>>), [lb |-> d[3], rb |-> d[4], lc |-> d[5], rc |-> d[6], tensordot |-> t]) :
         d \in Dots, t \in BOOLEAN}
    [] op = "convolution" -> {With1(Base(op, v.args), v) : v \in Convolutions}
    [] op = "reduce" -> {With1(Base(op, <<F(<<2, 3, 2>>)>>), [axes |-> x, kind |-> k]) : x \in {<<>>, <<1>>, <<0, 2>>}, k \in {"sum", "max", "min"}}
         \cup {With1(Base(op, <<Bools(<<2, 3>>)>>), [axes |-> <<1>>, kind |-> k]) : k \in {"and", "or"}}
    [] op = "reduce_window" -> UNION {{With1(Base(op, <<b>>), [kind |-> k, args |-> <<b>>] @@ w) : b \in Layouts(w.args[1]), k \in {"sum", "max"}} : w \in WindowCases}
    [] op = "argmax" -> {With1(Base(op, <<b, Mixed(<<2, 3>>, "S32")>>), [axes |-> x]) : b \in {F(<<2, 3>>), Few(<<2, 3>>, "F32")}, x \in {<<0>>, <<1>>, <<0, 1>>, <<>>}}
    [] op = "argmax_window" ->
         UNION {{With1(Base(op, <<b, i>>), [args |-> <<b, i>>] @@ w) :
                   b \in Layouts(w.args[1]), i \in {Mixed(w.args[1].dims, "S32"), Transposed(Mixed(w.args[1].dims, "S32"))}} : w \in WindowCases}
         \cup {With1(Base(op, w.args), [args |-> <<Few(<<n>>, "F32"), Mixed(<<n>>, "S32")>>] @@ w) :
                 n \in {4, 5}, w \in {Window1(<<4>>, <<4>>, <<1>>, <<1>>, <<0>>, <<0>>)}}
    [] op = "unary" ->
         {Shaped([kind |-> k] @@ Base(op, <<Line1(x, d)>>)) : k \in {"negate", "abs", "sign", "popcnt", "clz"},
            x \in {<<-128, -1, 0>>, <<-7, 64, 127>>}, d \in {"S8", "S32"}}
         \cup {Shaped([kind |-> k] @@ Base(op, <<Line1(<<0, 1, 37, 255>>, d)>>)) : k \in {"popcnt", "clz"}, d \in {"U8", "U16", "U32", "U64"}}
    [] op = "cholesky" -> {Definite(n, b, l) : n \in 1 .. 3, b \in {<<>>, <<2>>}, l \in BOOLEAN}
    [] op = "triangular_solve" ->
         {System(b, x, l, u, t) : b \in BOOLEAN, x \in BOOLEAN, l \in BOOLEAN, u \in BOOLEAN, t \in BOOLEAN}
    [] op = "attention" ->
         {Shaped(Base(op, <<Few(s[1], "F32"), Few(s[2], "F32"), F(s[2]), t>>)) : s \in Attentions,
            t \in {Number(0, "S32"), Line1(<<1>>, "U32")}}
    [] op = "random_bits" -> {[dtype |-> d, out |-> s] @@ Base(op, <<b>>) : d \in {"U16", "U32", "U64"}, s \in BitShapes,
         b \in {Seed, SeedKeptAsHalves}}

(* The same on another device, with another type, and with another shape    *)
(* where the call gives one.                                               *)
Unshaped == {"convert", "transpose", "custom_add", "unary", "attention", "random_bits"}
Recast(b, dtype) == Buffer([b.array EXCEPT !.dtype = dtype], b.device)
Other(dtype) == IF dtype = "U8" THEN "F32" ELSE "U8"
Variants(c) ==
  LET n == Len(c.args)
  IN {c}
     \cup (IF c.op \in Unshaped THEN {} ELSE {[c EXCEPT !.out = Append(@, 2)], [c EXCEPT !.out = [k \in DOMAIN @ |-> @[k] + 1]]})
     \cup (IF n < 2 THEN {} ELSE {[c EXCEPT !.args[n].device = 1], [c EXCEPT !.args[1] = Recast(@, Other(@.dtype))]})

(* Calls whose shapes fit but whose attributes do not.                      *)
Table43 == F(<<4, 3>>)
GatherRows == CHOOSE g \in Gathers : g.offset = <<1>> /\ g.batch = <<>> /\ g.args[2].array.at[<<0, 0>>] = 3
ScatterPoints == CHOOSE s \in Scatters : s.inserted = <<0, 1>>
Odds(op) ==
  CASE op = "iota" -> {[axis |-> x, dtype |-> d, device |-> 0, out |-> <<2, 3>>] @@ Base(op, <<>>) : x \in {-1, 2}, d \in {"F32"}}
    [] op = "transpose" -> {[axes |-> p, out |-> <<>>] @@ Base(op, <<Table43>>) : p \in {<<0, 0>>, <<0>>, <<1, 2>>}}
    [] op = "broadcast_in_dim" -> {[axes |-> p, out |-> <<4, 3, 3>>] @@ Base(op, <<Table43>>) : p \in {<<0, 0>>, <<0, 3>>, <<1, 0>>}}
    [] op = "slice" -> {[start |-> p, stop |-> q, strides |-> <<1, 1>>, out |-> <<2, 3>>] @@ Base(op, <<Table43>>) :
         p \in {<<3, 0>>}, q \in {<<5, 3>>, <<1, 3>>}}
    [] op = "dynamic_slice" -> {
         [sizes |-> n, out |-> n] @@ Base(op, <<Table43, Number(0, "S32")>> \o s) :
           n \in {<<5, 2>>, <<4>>}, s \in {<<Number(0, "S32")>>, <<>>, <<Line1(<<0>>, "S32")>>}}
    [] op = "dynamic_update_slice" -> {
         [out |-> <<4, 3>>] @@ Base(op, <<Table43, F(u), Number(0, "S32"), Number(0, "S32")>>) : u \in {<<5, 3>>, <<2>>}}
    [] op = "pad" -> {[low |-> <<l>>, high |-> <<1>>, interior |-> <<i>>, out |-> <<4 + l + 3 * i>>] @@ Base(op, <<F(<<3>>), v>>) :
         l \in {-1, 0}, i \in {-1, 0}, v \in {Numbered(9), Line1(<<9>>, "F32")}}
    [] op = "reverse" -> {[axes |-> <<x>>, out |-> <<4, 3>>] @@ Base(op, <<Table43>>) : x \in {-1, 2}}
    [] op = "concatenate" -> {[axis |-> x, out |-> <<4, 5>>] @@ Base(op, <<Table43, F(s)>>) : x \in {1, 2}, s \in {<<3, 2>>, <<4>>}}
    [] op \in {"sort", "argsort"} -> {[axis |-> x, dtype |-> "S32", out |-> <<4, 3>>] @@ Base(op, <<Table43>>) : x \in {-1, 2}}
    [] op = "gather" -> {r @@ GatherRows @@ [out |-> <<2, 3>>] @@ Base(op, <<>>) : r \in {
         [sizes |-> <<2, 3>>], [sizes |-> <<1, 4>>, out |-> <<2, 4>>], [collapsed |-> <<1>>], [offset |-> <<2>>], [map |-> <<2>>],
         [map |-> <<0, 1>>], [batch |-> <<0>>, ibatch |-> <<0>>], [ivd |-> 0]}}
    [] op = "scatter" -> {r @@ [add |-> FALSE] @@ ScatterPoints @@ [out |-> <<4, 3>>] @@ Base(op, <<>>) : r \in {
         [inserted |-> <<0>>], [inserted |-> <<0, 0>>], [map |-> <<0, 2>>], [ivd |-> 1], [batch |-> <<0>>, ibatch |-> <<1>>]}}
    [] op = "dot_general" -> {[lb |-> d[3], rb |-> d[4], lc |-> d[5], rc |-> d[6], out |-> d[7], tensordot |-> TRUE] @@ Base(op, <<F(d[1]), F(d[2])>>) : d \in {
         <<<<2, 3>>, <<4, 2>>, <<>>, <<>>, <<1>>, <<0>>, <<2, 2>>>>, <<<<2, 3>>, <<3, 2>>, <<1>>, <<0>>, <<1>>, <<0>>, <<3, 2, 2>>>>,
         <<<<2, 2, 3>>, <<3, 3, 2>>, <<0>>, <<0>>, <<2>>, <<1>>, <<2, 2, 2>>>>}}
    [] op = "reduce" -> {[axes |-> x, kind |-> "sum", out |-> <<4>>] @@ Base(op, <<Table43>>) : x \in {<<2>>, <<0>>, <<1, 1>>, <<-1>>}}
    [] op = "argmax" -> {[axes |-> x, out |-> o] @@ Base(op, <<Table43, Mixed(<<4, 3>>, "S32")>>) : x \in {<<2>>, <<0, 0>>, <<>>}, o \in {<<4>>, <<12>>}}
    [] op = "reduce_window" -> {[kind |-> "sum", out |-> <<3>>] @@ r @@ Window1(<<4>>, <<2>>, <<1>>, <<1>>, <<0>>, <<0>>) @@ Base(op, <<>>) : r \in {
         [strides |-> <<0>>], [window |-> <<0>>], [low |-> <<-1>>], [base |-> <<2>>], [dilations |-> <<0>>]}}
    [] OTHER -> {}
MCCalls(op) == UNION {Variants(c) : c \in Legals(op)} \cup Odds(op)
=============================================================================
