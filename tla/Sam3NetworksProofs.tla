------------------------- MODULE Sam3NetworksProofs -------------------------
(***************************************************************************)
(* The graphs of Sam3Networks fit together for every image size, prompt    *)
(* and number of memories that SizesFit allows.  First what each operation *)
(* of ggml and each part of the networks does to the extents of tensors,   *)
(* then the inductive invariant, one lemma for each action, and what the   *)
(* invariant implies.                                                      *)
(***************************************************************************)
EXTENDS Sam3Networks, SequenceTheorems, TLAPS

-----------------------------------------------------------------------------
(* Tensors and the operations of ggml. *)

\* The extents that a tensor can have.
Pos == Nat \ {0}

\* x has these extents, whatever its strides.
Measures(x, a, b, c, d) == x.ne = <<a, b, c, d>>

\* The extents of a tensor,
LEMMA ExtentsOf == \A a, b, c, d : T4(a,b,c,d).ne = <<a,b,c,d>>
BY DEF T4, Tensor

\* one by one,
LEMMA ExtentOf == \A a, b, c, d : /\ T4(a,b,c,d).ne[1] = a /\ T4(a,b,c,d).ne[2] = b
                                  /\ T4(a,b,c,d).ne[3] = c /\ T4(a,b,c,d).ne[4] = d
BY DEF T4, Tensor

\* and its strides (ggml_new_tensor).
LEMMA StrideOf == \A a, b, c, d : /\ T4(a,b,c,d).nb[1] = 1 /\ T4(a,b,c,d).nb[2] = a
                                  /\ T4(a,b,c,d).nb[3] = a * b /\ T4(a,b,c,d).nb[4] = a * b * c
BY DEF T4, Tensor

\* A new tensor of given extents,
LEMMA TensorOf == \A a, b, c, d : Tensor(<<a,b,c,d>>) = T4(a,b,c,d)
BY DEF T4

\* and one of the extents of another.
LEMMA TensorOfExtents == \A a, b, c, d : Tensor(T4(a,b,c,d).ne) = T4(a,b,c,d)
BY ExtentsOf, TensorOf

\* A tensor of positive extents exists: none of ggml's assertions failed.
LEMMA IsThere ==
  ASSUME NEW a, NEW b, NEW c, NEW d,
         a \in Pos, b \in Pos, c \in Pos, d \in Pos
  PROVE  Exists(T4(a,b,c,d))
BY ExtentOf DEF Exists, Dims, Pos

\* A tensor measures what it was made with.
LEMMA MeasuresOf == \A a, b, c, d : Measures(T4(a, b, c, d), a, b, c, d)
BY ExtentsOf DEF Measures

\* A new tensor is contiguous.
LEMMA IsPlain == 
  ASSUME NEW a, NEW b, NEW c, NEW d,
         a \in Int, b \in Int, c \in Int, d \in Int
  PROVE  IsContiguous(T4(a,b,c,d))
BY TensorOfExtents DEF IsContiguous

\* It has as many elements as the product of its extents (ggml_nelements).
LEMMA ElementsOf == 
  ASSUME NEW a, NEW b, NEW c, NEW d,
         a \in Int, b \in Int, c \in Int, d \in Int
  PROVE  Elements(T4(a,b,c,d)) = a * b * c * d
BY ExtentOf DEF Elements

\* ggml_cont copies a tensor as it is.
LEMMA ContOf ==
  ASSUME NEW a, NEW b, NEW c, NEW d,
         a \in Pos, b \in Pos, c \in Pos, d \in Pos
  PROVE  Cont(T4(a,b,c,d)) = T4(a,b,c,d)
BY IsThere, TensorOfExtents DEF Cont, Asserted

\* ggml_reshape to extents of the same product passes its assertion.
LEMMA ReshapeOf ==
  ASSUME NEW a, NEW b, NEW c, NEW d, NEW e, NEW f, NEW g, NEW h,
         a \in Pos, b \in Pos, c \in Pos, d \in Pos, e \in Int, f \in Int, g \in Int, h \in Int,
         a * b * c * d = e * f * g * h
  PROVE  Reshape(T4(a,b,c,d), e, f, g, h) = T4(e, f, g, h)
<1>1. a \in Int /\ b \in Int /\ c \in Int /\ d \in Int
  BY DEF Pos
<1>2. Elements(T4(a,b,c,d)) = e * f * g * h
  <2>1. Elements(T4(a,b,c,d)) = a * b * c * d
    BY <1>1, ElementsOf
  <2> QED BY <2>1
<1>3. Exists(T4(a,b,c,d)) /\ IsContiguous(T4(a,b,c,d))
  BY <1>1, IsThere, IsPlain
<1> QED BY <1>2, <1>3 DEF Reshape, Asserted

\* ggml_add of two tensors of the same extents,
LEMMA AddSame ==
  ASSUME NEW a, NEW b, NEW c, NEW d,
         a \in Pos, b \in Pos, c \in Pos, d \in Pos
  PROVE  Add(T4(a,b,c,d), T4(a,b,c,d)) = T4(a,b,c,d)
<1>1. CanRepeat(T4(a,b,c,d), T4(a,b,c,d))
  <2>1. \A e \in Dims : T4(a,b,c,d).ne[e] \in Pos
    BY ExtentOf DEF Dims
  <2>2. \A n \in Pos : n % n = 0
    BY DEF Pos
  <2> QED BY <2>1, <2>2, IsThere DEF CanRepeat
<1> QED BY <1>1, TensorOfExtents DEF Add, Asserted

\* and of a row to every row, as the weights of a norm and a bias are.
LEMMA AddRow ==
  ASSUME NEW a, NEW b, NEW c, NEW d,
         a \in Pos, b \in Pos, c \in Pos, d \in Pos
  PROVE  Add(T4(a,b,c,d), T1(a)) = T4(a,b,c,d)
<1>0. T1(a) = T4(a, 1, 1, 1)
  BY DEF T1, T4
<1>1. CanRepeat(T1(a), T4(a,b,c,d))
  <2>0. 1 \in Pos
    BY DEF Pos
  <2>1. \A n \in Pos : n % n = 0 /\ n % 1 = 0
    BY DEF Pos
  <2>2. \A e \in Dims : T4(a,b,c,d).ne[e] % T4(a,1,1,1).ne[e] = 0
    BY <2>1, ExtentOf DEF Dims
  <2> QED BY <1>0, <2>0, <2>2, IsThere DEF CanRepeat
<1> QED BY <1>1, TensorOfExtents DEF Add, Asserted

\* ggml_permute and ggml_cont with the axes (2, 0, 1, 3), for a tensor of whatever
\* strides,
LEMMA Order2013 ==
  ASSUME NEW x, NEW a, NEW b, NEW c, NEW d,
         a \in Pos, b \in Pos, c \in Pos, d \in Pos, Measures(x, a, b, c, d)
  PROVE  Permuted(x, 2, 0, 1, 3) = T4(b, c, a, d)
<1> DEFINE axes == <<3, 1, 2, 4>>
           old(e) == CHOOSE f \in Dims : axes[f] = e
<1>0. x.ne = <<a, b, c, d>>
  BY DEF Measures
<1>1. old(1) = 2 /\ old(2) = 3 /\ old(3) = 1 /\ old(4) = 4
  BY DEF Dims
<1>2. Exists(x)
  BY <1>0 DEF Exists, Dims, Pos
<1> DEFINE p == Permute(x, 2, 0, 1, 3)
<1>3. p = [ne |-> [e \in Dims |-> x.ne[old(e)]], nb |-> [e \in Dims |-> x.nb[old(e)]]]
  BY <1>2 DEF Permute, Asserted
<1> HIDE DEF old, axes
<1>4. p.ne = [e \in Dims |-> x.ne[old(e)]]
  BY <1>3
<1> HIDE DEF p
<1>5. p.ne = <<b, c, a, d>>
  BY <1>0, <1>1, <1>4 DEF Dims
<1>6. Exists(p)
  BY <1>5 DEF Exists, Dims, Pos
<1>7. Cont(p) = Tensor(p.ne)
  BY <1>6 DEF Cont, Asserted
<1> QED BY <1>5, <1>7, TensorOf DEF Permuted, p

\* and for a new one.
LEMMA Permuted2013 ==
  ASSUME NEW a, NEW b, NEW c, NEW d,
         a \in Pos, b \in Pos, c \in Pos, d \in Pos
  PROVE  Permuted(T4(a, b, c, d), 2, 0, 1, 3) = T4(b, c, a, d)
<1> DEFINE x == T4(a, b, c, d)
<1>1. Measures(x, a, b, c, d)
  BY MeasuresOf
<1> HIDE DEF x
<1>2. Permuted(x, 2, 0, 1, 3) = T4(b, c, a, d)
  BY <1>1, Order2013
<1> QED BY <1>2 DEF x

\* The same with the axes (1, 2, 0, 3),
LEMMA Order1203 ==
  ASSUME NEW x, NEW a, NEW b, NEW c, NEW d,
         a \in Pos, b \in Pos, c \in Pos, d \in Pos, Measures(x, a, b, c, d)
  PROVE  Permuted(x, 1, 2, 0, 3) = T4(c, a, b, d)
<1> DEFINE axes == <<2, 3, 1, 4>>
           old(e) == CHOOSE f \in Dims : axes[f] = e
<1>0. x.ne = <<a, b, c, d>>
  BY DEF Measures
<1>1. old(1) = 3 /\ old(2) = 1 /\ old(3) = 2 /\ old(4) = 4
  BY DEF Dims
<1>2. Exists(x)
  BY <1>0 DEF Exists, Dims, Pos
<1> DEFINE p == Permute(x, 1, 2, 0, 3)
<1>3. p = [ne |-> [e \in Dims |-> x.ne[old(e)]], nb |-> [e \in Dims |-> x.nb[old(e)]]]
  BY <1>2 DEF Permute, Asserted
<1> HIDE DEF old, axes
<1>4. p.ne = [e \in Dims |-> x.ne[old(e)]]
  BY <1>3
<1> HIDE DEF p
<1>5. p.ne = <<c, a, b, d>>
  BY <1>0, <1>1, <1>4 DEF Dims
<1>6. Exists(p)
  BY <1>5 DEF Exists, Dims, Pos
<1>7. Cont(p) = Tensor(p.ne)
  BY <1>6 DEF Cont, Asserted
<1> QED BY <1>5, <1>7, TensorOf DEF Permuted, p

\* for a new tensor.
LEMMA Permuted1203 ==
  ASSUME NEW a, NEW b, NEW c, NEW d,
         a \in Pos, b \in Pos, c \in Pos, d \in Pos
  PROVE  Permuted(T4(a, b, c, d), 1, 2, 0, 3) = T4(c, a, b, d)
<1> DEFINE x == T4(a, b, c, d)
<1>1. Measures(x, a, b, c, d)
  BY MeasuresOf
<1> HIDE DEF x
<1>2. Permuted(x, 1, 2, 0, 3) = T4(c, a, b, d)
  BY <1>1, Order1203
<1> QED BY <1>2 DEF x

\* The same with the axes (0, 2, 1, 3): what is left before the copy,
LEMMA PermuteMeasures0213 ==
  ASSUME NEW x, NEW a, NEW b, NEW c, NEW d,
         a \in Pos, b \in Pos, c \in Pos, d \in Pos, Measures(x, a, b, c, d)
  PROVE  Measures(Permute(x, 0, 2, 1, 3), a, c, b, d)
<1> DEFINE axes == <<1, 3, 2, 4>>
           old(e) == CHOOSE f \in Dims : axes[f] = e
<1>0. x.ne = <<a, b, c, d>>
  BY DEF Measures
<1>1. old(1) = 1 /\ old(2) = 3 /\ old(3) = 2 /\ old(4) = 4
  BY DEF Dims
<1>2. Exists(x)
  BY <1>0 DEF Exists, Dims, Pos
<1> DEFINE p == Permute(x, 0, 2, 1, 3)
<1>3. p = [ne |-> [e \in Dims |-> x.ne[old(e)]], nb |-> [e \in Dims |-> x.nb[old(e)]]]
  BY <1>2 DEF Permute, Asserted
<1> HIDE DEF old, axes
<1>4. p.ne = [e \in Dims |-> x.ne[old(e)]]
  BY <1>3
<1> HIDE DEF p
<1>5. p.ne = <<a, c, b, d>>
  BY <1>0, <1>1, <1>4 DEF Dims
<1> QED BY <1>5 DEF p, Measures

\* what the copy is,
LEMMA Order0213 ==
  ASSUME NEW x, NEW a, NEW b, NEW c, NEW d,
         a \in Pos, b \in Pos, c \in Pos, d \in Pos, Measures(x, a, b, c, d)
  PROVE  Permuted(x, 0, 2, 1, 3) = T4(a, c, b, d)
<1> DEFINE axes == <<1, 3, 2, 4>>
           old(e) == CHOOSE f \in Dims : axes[f] = e
<1>0. x.ne = <<a, b, c, d>>
  BY DEF Measures
<1>1. old(1) = 1 /\ old(2) = 3 /\ old(3) = 2 /\ old(4) = 4
  BY DEF Dims
<1>2. Exists(x)
  BY <1>0 DEF Exists, Dims, Pos
<1> DEFINE p == Permute(x, 0, 2, 1, 3)
<1>3. p = [ne |-> [e \in Dims |-> x.ne[old(e)]], nb |-> [e \in Dims |-> x.nb[old(e)]]]
  BY <1>2 DEF Permute, Asserted
<1> HIDE DEF old, axes
<1>4. p.ne = [e \in Dims |-> x.ne[old(e)]]
  BY <1>3
<1> HIDE DEF p
<1>5. p.ne = <<a, c, b, d>>
  BY <1>0, <1>1, <1>4 DEF Dims
<1>6. Exists(p)
  BY <1>5 DEF Exists, Dims, Pos
<1>7. Cont(p) = Tensor(p.ne)
  BY <1>6 DEF Cont, Asserted
<1> QED BY <1>5, <1>7, TensorOf DEF Permuted, p

\* and of a new tensor.
LEMMA Permuted0213 ==
  ASSUME NEW a, NEW b, NEW c, NEW d,
         a \in Pos, b \in Pos, c \in Pos, d \in Pos
  PROVE  Permuted(T4(a, b, c, d), 0, 2, 1, 3) = T4(a, c, b, d)
<1> DEFINE x == T4(a, b, c, d)
<1>1. Measures(x, a, b, c, d)
  BY MeasuresOf
<1> HIDE DEF x
<1>2. Permuted(x, 0, 2, 1, 3) = T4(a, c, b, d)
  BY <1>1, Order0213
<1> QED BY <1>2 DEF x

\* The same with the axes (1, 0, 2, 3),
LEMMA Order1023 ==
  ASSUME NEW x, NEW a, NEW b, NEW c, NEW d,
         a \in Pos, b \in Pos, c \in Pos, d \in Pos, Measures(x, a, b, c, d)
  PROVE  Permuted(x, 1, 0, 2, 3) = T4(b, a, c, d)
<1> DEFINE axes == <<2, 1, 3, 4>>
           old(e) == CHOOSE f \in Dims : axes[f] = e
<1>0. x.ne = <<a, b, c, d>>
  BY DEF Measures
<1>1. old(1) = 2 /\ old(2) = 1 /\ old(3) = 3 /\ old(4) = 4
  BY DEF Dims
<1>2. Exists(x)
  BY <1>0 DEF Exists, Dims, Pos
<1> DEFINE p == Permute(x, 1, 0, 2, 3)
<1>3. p = [ne |-> [e \in Dims |-> x.ne[old(e)]], nb |-> [e \in Dims |-> x.nb[old(e)]]]
  BY <1>2 DEF Permute, Asserted
<1> HIDE DEF old, axes
<1>4. p.ne = [e \in Dims |-> x.ne[old(e)]]
  BY <1>3
<1> HIDE DEF p
<1>5. p.ne = <<b, a, c, d>>
  BY <1>0, <1>1, <1>4 DEF Dims
<1>6. Exists(p)
  BY <1>5 DEF Exists, Dims, Pos
<1>7. Cont(p) = Tensor(p.ne)
  BY <1>6 DEF Cont, Asserted
<1> QED BY <1>5, <1>7, TensorOf DEF Permuted, p

\* for a new tensor.
LEMMA Permuted1023 ==
  ASSUME NEW a, NEW b, NEW c, NEW d,
         a \in Pos, b \in Pos, c \in Pos, d \in Pos
  PROVE  Permuted(T4(a, b, c, d), 1, 0, 2, 3) = T4(b, a, c, d)
<1> DEFINE x == T4(a, b, c, d)
<1>1. Measures(x, a, b, c, d)
  BY MeasuresOf
<1> HIDE DEF x
<1>2. Permuted(x, 1, 0, 2, 3) = T4(b, a, c, d)
  BY <1>1, Order1023
<1> QED BY <1>2 DEF x

\* The same with the axes (0, 3, 1, 2),
LEMMA Order0312 ==
  ASSUME NEW x, NEW a, NEW b, NEW c, NEW d,
         a \in Pos, b \in Pos, c \in Pos, d \in Pos, Measures(x, a, b, c, d)
  PROVE  Permuted(x, 0, 3, 1, 2) = T4(a, c, d, b)
<1> DEFINE axes == <<1, 4, 2, 3>>
           old(e) == CHOOSE f \in Dims : axes[f] = e
<1>0. x.ne = <<a, b, c, d>>
  BY DEF Measures
<1>1. old(1) = 1 /\ old(2) = 3 /\ old(3) = 4 /\ old(4) = 2
  BY DEF Dims
<1>2. Exists(x)
  BY <1>0 DEF Exists, Dims, Pos
<1> DEFINE p == Permute(x, 0, 3, 1, 2)
<1>3. p = [ne |-> [e \in Dims |-> x.ne[old(e)]], nb |-> [e \in Dims |-> x.nb[old(e)]]]
  BY <1>2 DEF Permute, Asserted
<1> HIDE DEF old, axes
<1>4. p.ne = [e \in Dims |-> x.ne[old(e)]]
  BY <1>3
<1> HIDE DEF p
<1>5. p.ne = <<a, c, d, b>>
  BY <1>0, <1>1, <1>4 DEF Dims
<1>6. Exists(p)
  BY <1>5 DEF Exists, Dims, Pos
<1>7. Cont(p) = Tensor(p.ne)
  BY <1>6 DEF Cont, Asserted
<1> QED BY <1>5, <1>7, TensorOf DEF Permuted, p

\* for a new tensor.
LEMMA Permuted0312 ==
  ASSUME NEW a, NEW b, NEW c, NEW d,
         a \in Pos, b \in Pos, c \in Pos, d \in Pos
  PROVE  Permuted(T4(a, b, c, d), 0, 3, 1, 2) = T4(a, c, d, b)
<1> DEFINE x == T4(a, b, c, d)
<1>1. Measures(x, a, b, c, d)
  BY MeasuresOf
<1> HIDE DEF x
<1>2. Permuted(x, 0, 3, 1, 2) = T4(a, c, d, b)
  BY <1>1, Order0312
<1> QED BY <1>2 DEF x

\* The same with the axes (1, 2, 3, 0),
LEMMA Order1230 ==
  ASSUME NEW x, NEW a, NEW b, NEW c, NEW d,
         a \in Pos, b \in Pos, c \in Pos, d \in Pos, Measures(x, a, b, c, d)
  PROVE  Permuted(x, 1, 2, 3, 0) = T4(d, a, b, c)
<1> DEFINE axes == <<2, 3, 4, 1>>
           old(e) == CHOOSE f \in Dims : axes[f] = e
<1>0. x.ne = <<a, b, c, d>>
  BY DEF Measures
<1>1. old(1) = 4 /\ old(2) = 1 /\ old(3) = 2 /\ old(4) = 3
  BY DEF Dims
<1>2. Exists(x)
  BY <1>0 DEF Exists, Dims, Pos
<1> DEFINE p == Permute(x, 1, 2, 3, 0)
<1>3. p = [ne |-> [e \in Dims |-> x.ne[old(e)]], nb |-> [e \in Dims |-> x.nb[old(e)]]]
  BY <1>2 DEF Permute, Asserted
<1> HIDE DEF old, axes
<1>4. p.ne = [e \in Dims |-> x.ne[old(e)]]
  BY <1>3
<1> HIDE DEF p
<1>5. p.ne = <<d, a, b, c>>
  BY <1>0, <1>1, <1>4 DEF Dims
<1>6. Exists(p)
  BY <1>5 DEF Exists, Dims, Pos
<1>7. Cont(p) = Tensor(p.ne)
  BY <1>6 DEF Cont, Asserted
<1> QED BY <1>5, <1>7, TensorOf DEF Permuted, p

\* for a new tensor.
LEMMA Permuted1230 ==
  ASSUME NEW a, NEW b, NEW c, NEW d,
         a \in Pos, b \in Pos, c \in Pos, d \in Pos
  PROVE  Permuted(T4(a, b, c, d), 1, 2, 3, 0) = T4(d, a, b, c)
<1> DEFINE x == T4(a, b, c, d)
<1>1. Measures(x, a, b, c, d)
  BY MeasuresOf
<1> HIDE DEF x
<1>2. Permuted(x, 1, 2, 3, 0) = T4(d, a, b, c)
  BY <1>1, Order1230
<1> QED BY <1>2 DEF x

\* The same with the axes (0, 1, 3, 2),
LEMMA Order0132 ==
  ASSUME NEW x, NEW a, NEW b, NEW c, NEW d,
         a \in Pos, b \in Pos, c \in Pos, d \in Pos, Measures(x, a, b, c, d)
  PROVE  Permuted(x, 0, 1, 3, 2) = T4(a, b, d, c)
<1> DEFINE axes == <<1, 2, 4, 3>>
           old(e) == CHOOSE f \in Dims : axes[f] = e
<1>0. x.ne = <<a, b, c, d>>
  BY DEF Measures
<1>1. old(1) = 1 /\ old(2) = 2 /\ old(3) = 4 /\ old(4) = 3
  BY DEF Dims
<1>2. Exists(x)
  BY <1>0 DEF Exists, Dims, Pos
<1> DEFINE p == Permute(x, 0, 1, 3, 2)
<1>3. p = [ne |-> [e \in Dims |-> x.ne[old(e)]], nb |-> [e \in Dims |-> x.nb[old(e)]]]
  BY <1>2 DEF Permute, Asserted
<1> HIDE DEF old, axes
<1>4. p.ne = [e \in Dims |-> x.ne[old(e)]]
  BY <1>3
<1> HIDE DEF p
<1>5. p.ne = <<a, b, d, c>>
  BY <1>0, <1>1, <1>4 DEF Dims
<1>6. Exists(p)
  BY <1>5 DEF Exists, Dims, Pos
<1>7. Cont(p) = Tensor(p.ne)
  BY <1>6 DEF Cont, Asserted
<1> QED BY <1>5, <1>7, TensorOf DEF Permuted, p

\* for a new tensor.
LEMMA Permuted0132 ==
  ASSUME NEW a, NEW b, NEW c, NEW d,
         a \in Pos, b \in Pos, c \in Pos, d \in Pos
  PROVE  Permuted(T4(a, b, c, d), 0, 1, 3, 2) = T4(a, b, d, c)
<1> DEFINE x == T4(a, b, c, d)
<1>1. Measures(x, a, b, c, d)
  BY MeasuresOf
<1> HIDE DEF x
<1>2. Permuted(x, 0, 1, 3, 2) = T4(a, b, d, c)
  BY <1>1, Order0132
<1> QED BY <1>2 DEF x

\* An extent that goes into another.
Goes(e, c) == c % e = 0

\* ggml_mul_mat takes tensors of one row length whose batches go into one another,
LEMMA MulMatAll ==
  ASSUME NEW a, NEW n, NEW b, NEW c, NEW d, NEW e, NEW f,
         a \in Pos, n \in Pos, b \in Pos, c \in Pos, d \in Pos, e \in Pos, f \in Pos, Goes(e, c), Goes(f, d)
  PROVE  MulMat(T4(a, n, e, f), T4(a, b, c, d)) = T4(n, b, c, d)
<1> DEFINE x == T4(a, n, e, f)
           y == T4(a, b, c, d)
<1>1. Exists(x) /\ Exists(y)
  BY IsThere
<1>2. x.ne[1] = a /\ x.ne[2] = n /\ x.ne[3] = e /\ x.ne[4] = f
  BY ExtentOf
<1>3. y.ne[1] = a /\ y.ne[2] = b /\ y.ne[3] = c /\ y.ne[4] = d
  BY ExtentOf
<1>4. x.nb[1] = 1 /\ x.nb[2] = a
  BY StrideOf
<1> HIDE DEF x, y
<1>5. 1 <= a
  BY DEF Pos
<1>6. MulMat(x, y) = T4(n, b, c, d)
  BY <1>1, <1>2, <1>3, <1>4, <1>5 DEF MulMat, Asserted, Goes
<1> QED BY <1>6 DEF x, y

\* such as a matrix of weights and any batch.
LEMMA MulMatOf ==
  ASSUME NEW a, NEW n, NEW b, NEW c, NEW d,
         a \in Pos, n \in Pos, b \in Pos, c \in Pos, d \in Pos
  PROVE  MulMat(T2(a, n), T4(a, b, c, d)) = T4(n, b, c, d)
<1>0. T2(a,n) = T4(a, n, 1, 1)
  BY DEF T2, T4
<1> DEFINE one == 1
<1>1. one \in Pos /\ Goes(one, c) /\ Goes(one, d)
  BY DEF Pos, Goes
<1> HIDE DEF one
<1>2. MulMat(T4(a, n, one, one), T4(a, b, c, d)) = T4(n, b, c, d)
  BY <1>1, MulMatAll
<1> QED BY <1>0, <1>2 DEF one

\* A linear layer changes the first extent from its input's to its output's.
LEMMA ThroughOf ==
  ASSUME NEW a, NEW n, NEW b, NEW c, NEW d,
         a \in Pos, n \in Pos, b \in Pos, c \in Pos, d \in Pos
  PROVE  Through(Linear(a,n), T4(a,b,c,d)) = T4(n,b,c,d)
<1>1. Linear(a,n).w = T2(a,n) /\ Linear(a,n).b = T1(n)
  BY DEF Linear
<1> QED BY <1>1, MulMatOf, AddRow DEF Through

\* A layer norm of the right width keeps the extents.
LEMMA LayerNormOf ==
  ASSUME NEW a, NEW b, NEW c, NEW d,
         a \in Pos, b \in Pos, c \in Pos, d \in Pos
  PROVE  LayerNorm(T4(a,b,c,d), Norm(a)) = T4(a,b,c,d)
<1>1. Norm(a).w = T1(a) /\ Norm(a).b = T1(a)
  BY DEF Norm
<1> QED BY <1>1, AddRow DEF LayerNorm

\* A tensor takes as much memory as it has elements.
LEMMA SpanOf ==
  ASSUME NEW a, NEW b, NEW c, NEW d,
         a \in Pos, b \in Pos, c \in Pos, d \in Pos
  PROVE  Span(T4(a, b, c, d)) = a * b * c * d
<1>1. Span(T4(a, b, c, d)) = 1 + (a - 1) * 1 + (b - 1) * a + (c - 1) * (a * b) + (d - 1) * (a * b * c)
  BY ExtentOf, StrideOf DEF Span
<1>2. 1 + (a - 1) * 1 + (b - 1) * a + (c - 1) * (a * b) + (d - 1) * (a * b * c) = a * b * c * d
  BY DEF Pos
<1> QED BY <1>1, <1>2

\* A view of a tensor with its strides.
Cut(e, f, g, h, nb) == [ne |-> <<e, f, g, h>>, nb |-> nb]

\* A cut measures what it was cut to,
LEMMA CutOf == \A e, f, g, h, nb : /\ Measures(Cut(e, f, g, h, nb), e, f, g, h) /\ Cut(e, f, g, h, nb).nb = nb
BY DEF Cut, Measures

\* extent by extent.
LEMMA CutExtent == \A e, f, g, h, nb : /\ Cut(e, f, g, h, nb).ne[1] = e /\ Cut(e, f, g, h, nb).ne[2] = f
                                        /\ Cut(e, f, g, h, nb).ne[3] = g /\ Cut(e, f, g, h, nb).ne[4] = h
BY DEF Cut

\* It exists, and its copy is a plain tensor.
LEMMA CutIsThere ==
  ASSUME NEW e, NEW f, NEW g, NEW h, NEW nb,
         e \in Pos, f \in Pos, g \in Pos, h \in Pos
  PROVE  Exists(Cut(e, f, g, h, nb)) /\ Cont(Cut(e, f, g, h, nb)) = T4(e, f, g, h)
<1>1. Exists(Cut(e, f, g, h, nb))
  BY CutExtent DEF Exists, Dims, Pos
<1>2. Cont(Cut(e, f, g, h, nb)) = Tensor(Cut(e, f, g, h, nb).ne)
  BY <1>1 DEF Cont, Asserted
<1>3. Cut(e, f, g, h, nb).ne = <<e, f, g, h>>
  BY CutOf DEF Measures
<1>4. Tensor(Cut(e, f, g, h, nb).ne) = T4(e, f, g, h)
  BY <1>3, TensorOf
<1> QED BY <1>1, <1>2, <1>4

\* A part y of a tensor of the extents x from an offset on ends within it.
Inside(x, y, at) ==
    /\ at \in Nat
    /\ at + (1 + (y[1] - 1) * 1 + (y[2] - 1) * x[1] + (y[3] - 1) * (x[1] * x[2])
               + (y[4] - 1) * (x[1] * x[2] * x[3])) <= x[1] * x[2] * x[3] * x[4]

\* ggml_view of a part that lies inside is that cut: the view's assertion holds.
LEMMA PartOf ==
  ASSUME NEW a, NEW b, NEW c, NEW d, NEW e, NEW f, NEW g, NEW h, NEW at,
         a \in Pos, b \in Pos, c \in Pos, d \in Pos, e \in Pos, f \in Pos, g \in Pos, h \in Pos,
         Inside(<<a, b, c, d>>, <<e, f, g, h>>, at)
  PROVE  Part(T4(a, b, c, d), <<e, f, g, h>>, at) = Cut(e, f, g, h, <<1, a, a * b, a * b * c>>)
<1> DEFINE v == Cut(e, f, g, h, <<1, a, a * b, a * b * c>>)
           x == T4(a, b, c, d)
<1>0. /\ at \in Nat
      /\ at + (1 + (e - 1) * 1 + (f - 1) * a + (g - 1) * (a * b) + (h - 1) * (a * b * c)) <= a * b * c * d
  BY DEF Inside
<1>1. Span(v) = 1 + (e - 1) * 1 + (f - 1) * a + (g - 1) * (a * b) + (h - 1) * (a * b * c)
  BY DEF Span, Cut
<1>2. at + Span(v) <= Span(x)
  BY <1>0, <1>1, SpanOf
<1>3. Exists(v) /\ Exists(x) /\ at >= 0
  BY <1>0, CutIsThere, IsThere
<1>4. v = [ne |-> <<e, f, g, h>>, nb |-> <<x.nb[1]>> \o <<x.nb[2], x.nb[3], x.nb[4]>>]
  BY StrideOf DEF Cut
<1> HIDE DEF v, x
<1>5. Part(x, <<e, f, g, h>>, at) = v
  BY <1>2, <1>3, <1>4 DEF Part, View, Asserted
<1> QED BY <1>5 DEF v, x

\* Small numbers are extents.
LEMMA Small == 1 \in Pos /\ 2 \in Pos /\ 3 \in Pos /\ 4 \in Pos /\ 8 \in Pos
BY DEF Pos

\* So are products of extents.
LEMMA PosTimes == \A a, b : a \in Pos /\ b \in Pos => a * b \in Pos
BY DEF Pos

\* Extents are numbers.
LEMMA PosInt == \A a : a \in Pos => a \in Int /\ a \in Nat
BY DEF Pos

\* One goes into everything, and everything into itself.
LEMMA GoesAll == \A a : a \in Pos => Goes(1, a) /\ Goes(a, a)
BY DEF Pos, Goes

\* ggml_add repeats a second operand whose extents go into the first's,
LEMMA AddExtents ==
  ASSUME NEW x, NEW y, NEW a, NEW b, NEW c, NEW d, NEW e, NEW f, NEW g, NEW h,
         a \in Pos, b \in Pos, c \in Pos, d \in Pos, e \in Pos, f \in Pos, g \in Pos, h \in Pos,
         Goes(e, a), Goes(f, b), Goes(g, c), Goes(h, d),
         Measures(x, a, b, c, d), Measures(y, e, f, g, h)
  PROVE  Add(x, y) = T4(a, b, c, d)
<1>0. x.ne = <<a, b, c, d>> /\ y.ne = <<e, f, g, h>>
  BY DEF Measures
<1>1. Exists(x) /\ Exists(y)
  BY <1>0 DEF Exists, Dims, Pos
<1>2. \A i \in Dims : x.ne[i] % y.ne[i] = 0
  BY <1>0 DEF Dims, Goes
<1>3. CanRepeat(y, x)
  BY <1>1, <1>2 DEF CanRepeat
<1>4. Tensor(x.ne) = T4(a, b, c, d)
  BY <1>0, TensorOf
<1> QED BY <1>3, <1>4 DEF Add, Asserted

\* and leaves the extents of the first.
LEMMA AddOf ==
  ASSUME NEW a, NEW b, NEW c, NEW d, NEW e, NEW f, NEW g, NEW h,
         a \in Pos, b \in Pos, c \in Pos, d \in Pos, e \in Pos, f \in Pos, g \in Pos, h \in Pos,
         Goes(e, a), Goes(f, b), Goes(g, c), Goes(h, d)
  PROVE  Add(T4(a, b, c, d), T4(e, f, g, h)) = T4(a, b, c, d)
BY AddExtents, MeasuresOf

\* ggml_repeat gives the extents that it is asked for.
LEMMA RepeatOf ==
  ASSUME NEW a, NEW b, NEW c, NEW d, NEW e, NEW f, NEW g, NEW h,
         a \in Pos, b \in Pos, c \in Pos, d \in Pos, e \in Pos, f \in Pos, g \in Pos, h \in Pos,
         Goes(e, a), Goes(f, b), Goes(g, c), Goes(h, d)
  PROVE  Repeat(T4(e, f, g, h), T4(a, b, c, d)) = T4(a, b, c, d)
<1>1. Exists(T4(a, b, c, d)) /\ Exists(T4(e, f, g, h))
  BY IsThere
<1>2. \A i \in Dims : T4(a, b, c, d).ne[i] % T4(e, f, g, h).ne[i] = 0
  BY ExtentOf DEF Dims, Goes
<1>3. CanRepeat(T4(e, f, g, h), T4(a, b, c, d))
  BY <1>1, <1>2 DEF CanRepeat
<1> QED BY <1>3, TensorOfExtents DEF Repeat, Asserted

\* Two linear layers one after the other.
LEMMA Through2Of ==
  ASSUME NEW a, NEW m, NEW n, NEW b, NEW c, NEW d,
         a \in Pos, m \in Pos, n \in Pos, b \in Pos, c \in Pos, d \in Pos
  PROVE  Through2(T4(a, b, c, d), Linear(a, m), Linear(m, n)) = T4(n, b, c, d)
BY ThroughOf DEF Through2

\* A feed-forward block goes back to the width that it started from.
LEMMA FeedForwardOf ==
  ASSUME NEW blk, NEW a, NEW m, NEW b, NEW c, NEW d,
         a \in Pos, m \in Pos, b \in Pos, c \in Pos, d \in Pos,
         blk.fc1 = Linear(a, m), blk.fc2 = Linear(m, a)
  PROVE  FeedForward(T4(a, b, c, d), Norm(a), blk) = T4(a, b, c, d)
<1>1. LayerNorm(T4(a, b, c, d), Norm(a)) = T4(a, b, c, d)
  BY LayerNormOf
<1>2. Through2(T4(a, b, c, d), blk.fc1, blk.fc2) = T4(a, b, c, d)
  BY Through2Of
<1> QED BY <1>1, <1>2, AddSame DEF FeedForward

\* From rows of channels to planes,
LEMMA ToPlanesOf ==
  ASSUME NEW a, NEW b, NEW c, NEW d, a \in Pos, b \in Pos, c \in Pos, d \in Pos
  PROVE  ToPlanes(T4(a, b, c, d)) = T4(b, c, a, d)
BY Permuted2013 DEF ToPlanes

\* and back.
LEMMA FromPlanesOf ==
  ASSUME NEW a, NEW b, NEW c, NEW d, a \in Pos, b \in Pos, c \in Pos, d \in Pos
  PROVE  FromPlanes(T4(a, b, c, d)) = T4(c, a, b, d)
BY Permuted1203 DEF FromPlanes

\* Tensors of one extent,
LEMMA T1Is == \A a : T1(a) = T4(a, 1, 1, 1)
BY DEF T1, T4

\* of two,
LEMMA T2Is == \A a, b : T2(a, b) = T4(a, b, 1, 1)
BY DEF T2, T4

\* and of three, have ones for the rest.
LEMMA T3Is == \A a, b, c : T3(a, b, c) = T4(a, b, c, 1)
BY DEF T3, T4

\* A bias is added to every plane.
LEMMA AddBiasOf ==
  ASSUME NEW a, NEW b, NEW c, NEW d, a \in Pos, b \in Pos, c \in Pos, d \in Pos
  PROVE  AddBias(T4(a, b, c, d), T1(c)) = T4(a, b, c, d)
<1>1. T1(c).ne[1] = c
  BY T1Is, ExtentOf
<1>2. Reshape(T1(c), 1, 1, c, 1) = T4(1, 1, c, 1)
  <2>1. c * 1 * 1 * 1 = 1 * 1 * c * 1
    BY DEF Pos
  <2> QED BY <2>1, T1Is, Small, PosInt, ReshapeOf
<1>3. Add(T4(a, b, c, d), T4(1, 1, c, 1)) = T4(a, b, c, d)
  BY AddOf, Small, GoesAll
<1> QED BY <1>1, <1>2, <1>3 DEF AddBias

\* ggml_conv_2d with a filter of the right number of channels,
LEMMA ConvOf ==
  ASSUME NEW k, NEW ci, NEW co, NEW w, NEW h, NEW n, NEW s, NEW p,
         k \in Pos, ci \in Pos, co \in Pos, w \in Pos, h \in Pos, n \in Pos,
         Out(w, k, s, p) \in Pos, Out(h, k, s, p) \in Pos
  PROVE  Conv(T4(k, k, ci, co), T4(w, h, ci, n), s, p) = T4(Out(w, k, s, p), Out(h, k, s, p), co, n)
<1> DEFINE x == T4(w, h, ci, n)
           y == T4(k, k, ci, co)
           r == <<Out(x.ne[1], y.ne[1], s, p), Out(x.ne[2], y.ne[2], s, p), y.ne[4], x.ne[4]>>
<1>1. r = <<Out(w, k, s, p), Out(h, k, s, p), co, n>> /\ y.ne[3] = ci /\ x.ne[3] = ci
  BY ExtentOf
<1>2. Tensor(r) = T4(Out(w, k, s, p), Out(h, k, s, p), co, n)
  BY <1>1, TensorOf
<1>3. Exists(x) /\ Exists(y) /\ Exists(Tensor(r))
  BY <1>2, IsThere
<1> HIDE DEF x, y
<1>4. Conv(y, x, s, p) = Tensor(r)
  BY <1>1, <1>3 DEF Conv, Asserted
<1> QED BY <1>2, <1>4 DEF x, y

\* and ggml_conv_2d_dw with one filter for each channel.
LEMMA ConvDwOf ==
  ASSUME NEW k, NEW c, NEW w, NEW h, NEW n, NEW s, NEW p,
         k \in Pos, c \in Pos, w \in Pos, h \in Pos, n \in Pos,
         Out(w, k, s, p) \in Pos, Out(h, k, s, p) \in Pos
  PROVE  ConvDw(T4(k, k, 1, c), T4(w, h, c, n), s, p) = T4(Out(w, k, s, p), Out(h, k, s, p), c, n)
<1> DEFINE x == T4(w, h, c, n)
           y == T4(k, k, 1, c)
           r == <<Out(x.ne[1], y.ne[1], s, p), Out(x.ne[2], y.ne[2], s, p), x.ne[3], x.ne[4]>>
<1>1. r = <<Out(w, k, s, p), Out(h, k, s, p), c, n>> /\ y.ne[3] = 1 /\ y.ne[4] = c /\ x.ne[3] = c
  BY ExtentOf
<1>2. Tensor(r) = T4(Out(w, k, s, p), Out(h, k, s, p), c, n)
  BY <1>1, TensorOf
<1>3. Exists(x) /\ Exists(y) /\ Exists(Tensor(r))
  BY <1>2, IsThere, Small
<1> HIDE DEF x, y
<1>4. ConvDw(y, x, s, p) = Tensor(r)
  BY <1>1, <1>3 DEF ConvDw, Asserted
<1> QED BY <1>2, <1>4 DEF x, y

\* The convolutions that keep the extents of a map.
LEMMA OutSame == \A w : w \in Pos => Out(w, 1, 1, 0) = w /\ Out(w, 3, 1, 1) = w /\ Out(w, 7, 1, 3) = w
BY DEF Out, Pos

\* A filter of one pixel keeps them (ggml_conv_2d_sk_p0),
LEMMA ConvPatchesOf ==
  ASSUME NEW ci, NEW co, NEW w, NEW h, NEW n,
         ci \in Pos, co \in Pos, w \in Pos, h \in Pos, n \in Pos
  PROVE  ConvPatches(T4(1, 1, ci, co), T4(w, h, ci, n)) = T4(w, h, co, n)
<1>1. Out(w, 1, 1, 0) = w /\ Out(h, 1, 1, 0) = h
  BY OutSame
<1>2. Conv(T4(1, 1, ci, co), T4(w, h, ci, n), 1, 0) = T4(Out(w, 1, 1, 0), Out(h, 1, 1, 0), co, n)
  BY <1>1, ConvOf, Small
<1> QED BY <1>1, <1>2, ExtentOf DEF ConvPatches

\* and one of three with a border of one (ggml_conv_2d_s1_ph).
LEMMA ConvSameOf ==
  ASSUME NEW ci, NEW co, NEW w, NEW h, NEW n,
         ci \in Pos, co \in Pos, w \in Pos, h \in Pos, n \in Pos
  PROVE  ConvSame(T4(3, 3, ci, co), T4(w, h, ci, n)) = T4(w, h, co, n)
<1>1. Out(w, 3, 1, 1) = w /\ Out(h, 3, 1, 1) = h
  BY OutSame
<1>2. Conv(T4(3, 3, ci, co), T4(w, h, ci, n), 1, 1) = T4(Out(w, 3, 1, 1), Out(h, 3, 1, 1), co, n)
  BY <1>1, ConvOf, Small
<1>3. 3 \div 2 = 1
  OBVIOUS
<1> QED BY <1>1, <1>2, <1>3, ExtentOf DEF ConvSame

\* The weights and the bias of a filter.
LEMMA FilterIs == \A k, a, b : Filter(k, a, b).w = T4(k, k, a, b) /\ Filter(k, a, b).b = T1(b)
BY DEF Filter

\* ggml_pool_2d by two halves the extents, which have to be two at least.
LEMMA PoolOf ==
  ASSUME NEW w, NEW h, NEW c, NEW n,
         w \in Pos, h \in Pos, c \in Pos, n \in Pos, w >= 2, h >= 2
  PROVE  Pool(T4(w, h, c, n), 2, 2) = T4(w \div 2, h \div 2, c, n) /\ w \div 2 \in Pos /\ h \div 2 \in Pos
<1>1. Out(w, 2, 2, 0) = w \div 2 /\ Out(h, 2, 2, 0) = h \div 2
  BY DEF Out, Pos
<1>2. w \div 2 \in Pos /\ h \div 2 \in Pos
  BY DEF Pos
<1> DEFINE x == T4(w, h, c, n)
           r == <<Out(x.ne[1], 2, 2, 0), Out(x.ne[2], 2, 2, 0), x.ne[3], x.ne[4]>>
<1>3. r = <<w \div 2, h \div 2, c, n>>
  BY <1>1, ExtentOf
<1>4. Tensor(r) = T4(w \div 2, h \div 2, c, n)
  BY <1>3, TensorOf
<1>5. Exists(x) /\ Exists(Tensor(r))
  BY <1>2, <1>4, IsThere
<1> HIDE DEF x
<1>6. Pool(x, 2, 2) = Tensor(r)
  BY <1>5 DEF Pool, Asserted
<1> QED BY <1>2, <1>4, <1>6 DEF x

\* ggml_upscale multiplies them.
LEMMA UpscaleOf ==
  ASSUME NEW w, NEW h, NEW c, NEW n, NEW f,
         w \in Pos, h \in Pos, c \in Pos, n \in Pos
  PROVE  Upscale(T4(w, h, c, n), f) = T4(w * f, h * f, c, n)
BY IsThere, ExtentOf DEF Upscale, Asserted

\* ggml_concat along the first axis,
LEMMA Concat0 ==
  ASSUME NEW a, NEW b, NEW c, NEW d, NEW e,
         a \in Pos, b \in Pos, c \in Pos, d \in Pos, e \in Pos
  PROVE  Concat(T4(a, b, c, d), T4(e, b, c, d), 0) = T4(a + e, b, c, d)
<1> DEFINE x == T4(a, b, c, d)
           y == T4(e, b, c, d)
<1>1. x.ne = <<a, b, c, d>> /\ y.ne = <<e, b, c, d>>
  BY ExtentsOf
<1>2. Exists(x) /\ Exists(y)
  BY IsThere
<1> HIDE DEF x, y
<1>3. \A i \in Dims \ {0 + 1} : x.ne[i] = y.ne[i]
  BY <1>1 DEF Dims
<1>4. [x.ne EXCEPT ![0 + 1] = @ + y.ne[0 + 1]] = <<a + e, b, c, d>>
  BY <1>1
<1>5. Concat(x, y, 0) = Tensor(<<a + e, b, c, d>>)
  BY <1>2, <1>3, <1>4 DEF Concat, Asserted
<1> QED BY <1>5, TensorOf DEF x, y

\* and along the second.
LEMMA Concat1 ==
  ASSUME NEW a, NEW b, NEW c, NEW d, NEW e,
         a \in Pos, b \in Pos, c \in Pos, d \in Pos, e \in Pos
  PROVE  Concat(T4(a, b, c, d), T4(a, e, c, d), 1) = T4(a, b + e, c, d)
<1> DEFINE x == T4(a, b, c, d)
           y == T4(a, e, c, d)
<1>1. x.ne = <<a, b, c, d>> /\ y.ne = <<a, e, c, d>>
  BY ExtentsOf
<1>2. Exists(x) /\ Exists(y)
  BY IsThere
<1> HIDE DEF x, y
<1>3. \A i \in Dims \ {1 + 1} : x.ne[i] = y.ne[i]
  BY <1>1 DEF Dims
<1>4. [x.ne EXCEPT ![1 + 1] = @ + y.ne[1 + 1]] = <<a, b + e, c, d>>
  BY <1>1
<1>5. Concat(x, y, 1) = Tensor(<<a, b + e, c, d>>)
  BY <1>2, <1>3, <1>4 DEF Concat, Asserted
<1> QED BY <1>5, TensorOf DEF x, y

\* A mask for nk keys, nq queries and nh heads, or none.
MaskTakes(mask, nk, nq, nh) ==
    mask = NoMask \/ (/\ mask.ne[1] = nk /\ mask.ne[2] >= nq /\ Goes(mask.ne[3], nh)
                      /\ IsContiguous(mask))

\* No mask fits everything.
LEMMA NoMaskTakes == \A nk, nq, nh : MaskTakes(NoMask, nk, nq, nh)
BY DEF MaskTakes

\* Attention by scores and a product (sam3_attn_ext without the flash kernel),
LEMMA ScoresOf ==
  ASSUME NEW hd, NEW nq, NEW nk, NEW nh, NEW b, NEW v, NEW mask,
         hd \in Pos, nq \in Pos, nk \in Pos, nh \in Pos, b \in Pos,
         Measures(v, hd, nk, nh, b), MaskTakes(mask, nk, nq, nh)
  PROVE  ScoresAttn(T4(hd, nq, nh, b), T4(hd, nk, nh, b), v, mask) = T4(hd, nh, nq, b)
<1>1. MulMat(T4(hd, nk, nh, b), T4(hd, nq, nh, b)) = T4(nk, nq, nh, b)
  BY MulMatAll, GoesAll
<1>2. SoftMax(T4(nk, nq, nh, b), mask) = T4(nk, nq, nh, b)
  <2> DEFINE x == T4(nk, nq, nh, b)
  <2>1. x.ne[1] = nk /\ x.ne[2] = nq /\ x.ne[3] = nh /\ Exists(x) /\ Tensor(x.ne) = x
    BY ExtentOf, IsThere, TensorOfExtents
  <2> HIDE DEF x
  <2>2. SoftMax(x, mask) = x
    BY <2>1 DEF SoftMax, Asserted, MaskTakes, Goes
  <2> QED BY <2>2 DEF x
<1>3. Permuted(v, 1, 0, 2, 3) = T4(nk, hd, nh, b)
  BY Order1023
<1>4. MulMat(T4(nk, hd, nh, b), T4(nk, nq, nh, b)) = T4(hd, nq, nh, b)
  BY MulMatAll, GoesAll
<1>5. Permuted(T4(hd, nq, nh, b), 0, 2, 1, 3) = T4(hd, nh, nq, b)
  BY Permuted0213
<1> QED BY <1>1, <1>2, <1>3, <1>4, <1>5 DEF ScoresAttn

\* by ggml_flash_attn_ext,
LEMMA FlashOf ==
  ASSUME NEW hd, NEW nq, NEW nk, NEW nh, NEW b, NEW v, NEW mask,
         hd \in Pos, nq \in Pos, nk \in Pos, nh \in Pos, b \in Pos,
         Measures(v, hd, nk, nh, b), MaskTakes(mask, nk, nq, nh)
  PROVE  FlashAttn(T4(hd, nq, nh, b), T4(hd, nk, nh, b), v, mask) = T4(hd, nh, nq, b)
<1> DEFINE q == T4(hd, nq, nh, b)
           k == T4(hd, nk, nh, b)
<1>1. q.ne[1] = hd /\ q.ne[2] = nq /\ q.ne[3] = nh /\ q.ne[4] = b /\ Exists(q)
  BY ExtentOf, IsThere
<1>2. k.ne[1] = hd /\ k.ne[2] = nk /\ k.ne[3] = nh /\ k.ne[4] = b /\ Exists(k)
  BY ExtentOf, IsThere
<1>3. v.ne[1] = hd /\ v.ne[2] = nk /\ v.ne[3] = nh /\ v.ne[4] = b
  BY DEF Measures
<1>4. Exists(v)
  BY DEF Exists, Dims, Pos, Measures
<1> HIDE DEF q, k
<1>5. MaskFits(mask, k.ne[2], q.ne[2])
  BY <1>1, <1>2 DEF MaskFits, MaskTakes
<1>6. \A d \in {3, 4} : q.ne[d] % k.ne[d] = 0 /\ q.ne[d] % v.ne[d] = 0
  BY <1>1, <1>2, <1>3, GoesAll DEF Goes
<1>7. FlashAttn(q, k, v, mask) = T4(v.ne[1], q.ne[3], q.ne[2], q.ne[4])
  BY <1>1, <1>2, <1>3, <1>4, <1>5, <1>6 DEF FlashAttn, Asserted
<1> QED BY <1>1, <1>3, <1>7 DEF q, k

\* and by whichever of the two the device has.
LEMMA AttnOf ==
  ASSUME NEW hd, NEW nq, NEW nk, NEW nh, NEW b, NEW v, NEW mask,
         hd \in Pos, nq \in Pos, nk \in Pos, nh \in Pos, b \in Pos,
         Measures(v, hd, nk, nh, b), MaskTakes(mask, nk, nq, nh)
  PROVE  AttnExt(T4(hd, nq, nh, b), T4(hd, nk, nh, b), v, mask) = T4(hd, nh, nq, b)
BY ScoresOf, FlashOf DEF AttnExt

\* a is b times c; the prover matches products better under a name.
Times(a, b, c) == a = b * c

\* Channels cut up into heads.
LEMMA HeadsOf ==
  ASSUME NEW a, NEW hd, NEW nh, NEW n, NEW b,
         a \in Pos, hd \in Pos, nh \in Pos, n \in Pos, b \in Pos, Times(a, hd, nh)
  PROVE  /\ Measures(Heads(T4(a, n, b, 1), hd, nh), hd, n, nh, b)
         /\ Cont(Heads(T4(a, n, b, 1), hd, nh)) = T4(hd, n, nh, b)
<1>1. a * n * b * 1 = hd * nh * n * b
  BY DEF Pos, Times
<1>2. Reshape(T4(a, n, b, 1), hd, nh, n, b) = T4(hd, nh, n, b)
  BY <1>1, Small, PosInt, ReshapeOf
<1>3. Measures(Permute(T4(hd, nh, n, b), 0, 2, 1, 3), hd, n, nh, b)
  BY PermuteMeasures0213, MeasuresOf
<1>4. Permuted(T4(hd, nh, n, b), 0, 2, 1, 3) = T4(hd, n, nh, b)
  BY Permuted0213
<1> QED BY <1>2, <1>3, <1>4, ExtentOf DEF Heads, Permuted

\* The real or the imaginary parts of pairs.
LEMMA HalfOfPairs ==
  ASSUME NEW b, NEW c, NEW d, NEW o, b \in Pos, c \in Pos, d \in Pos, o \in {0, 1}
  PROVE  Measures(Part(T4(2, b, c, d), <<1, b, c, d>>, o), 1, b, c, d)
<1>1. o + (1 + (1 - 1) * 1 + (b - 1) * 2 + (c - 1) * (2 * b) + (d - 1) * (2 * b * c)) <= 2 * b * c * d
  <2>1. (1 - 1) * 1 = 0 /\ o <= 1
    OBVIOUS
  <2>2. 1 + (1 + 0 + (b - 1) * 2 + (c - 1) * (2 * b) + (d - 1) * (2 * b * c)) = 2 * b * c * d
    BY DEF Pos
  <2> QED BY <2>1, <2>2 DEF Pos
<1>3. Inside(<<2, b, c, d>>, <<1, b, c, d>>, o)
  BY <1>1 DEF Inside
<1>2. Part(T4(2, b, c, d), <<1, b, c, d>>, o) = Cut(1, b, c, d, <<1, 2, 2 * b, 2 * b * c>>)
  BY <1>3, PartOf, Small
<1> QED BY <1>2, CutOf

\* A rotary embedding of the right length keeps the extents (sam3_apply_rope).
LEMMA ApplyRopeOf ==
  ASSUME NEW a, NEW half, NEW n, NEW m,
         a \in Pos, half \in Pos, n \in Pos, m \in Pos, Times(a, 2, half)
  PROVE  ApplyRope(T4(a, n, m, 1), T3(2, half, n)) = T4(a, n, m, 1)
<1> DEFINE One(x, offset) == Part(x, <<1, x.ne[2], x.ne[3], x.ne[4]>>, offset)
           pairs == T4(2, half, n, m)
           fc == T4(2, half, n, 1)
<1>0. a = 2 * half
  BY DEF Times
<1>1. a \div 2 = half
  BY <1>0 DEF Pos
<1>2. Reshape(T4(a, n, m, 1), 2, half, n, m) = pairs
  <2>1. a * n * m * 1 = 2 * half * n * m
    BY <1>0 DEF Pos
  <2> QED BY <2>1, Small, PosInt, ReshapeOf
<1>3. Reshape(T3(2, half, n), 2, half, n, 1) = fc
  <2>1. 2 * half * n * 1 = 2 * half * n * 1
    OBVIOUS
  <2> QED BY T3Is, Small, PosInt, ReshapeOf
<1>4. \A o \in {0, 1} : Measures(One(pairs, o), 1, half, n, m) /\ Measures(One(fc, o), 1, half, n, 1)
  <2> SUFFICES ASSUME NEW o \in {0, 1}
               PROVE  Measures(One(pairs, o), 1, half, n, m) /\ Measures(One(fc, o), 1, half, n, 1)
    OBVIOUS
  <2>1. One(pairs, o) = Part(T4(2, half, n, m), <<1, half, n, m>>, o)
    BY ExtentOf
  <2>2. One(fc, o) = Part(T4(2, half, n, 1), <<1, half, n, 1>>, o)
    BY ExtentOf
  <2>3. Measures(Part(T4(2, half, n, m), <<1, half, n, m>>, o), 1, half, n, m)
    BY HalfOfPairs
  <2>4. Measures(Part(T4(2, half, n, 1), <<1, half, n, 1>>, o), 1, half, n, 1)
    BY HalfOfPairs, Small
  <2> QED BY <2>1, <2>2, <2>3, <2>4
<1> HIDE DEF pairs, fc
<1>5. \A o, i \in {0, 1} : Add(One(pairs, o), One(fc, i)) = T4(1, half, n, m)
  <2> SUFFICES ASSUME NEW o \in {0, 1}, NEW i \in {0, 1}
               PROVE  Add(One(pairs, o), One(fc, i)) = T4(1, half, n, m)
    OBVIOUS
  <2>1. Measures(One(pairs, o), 1, half, n, m) /\ Measures(One(fc, i), 1, half, n, 1)
    BY <1>4
  <2>2. Goes(1, 1) /\ Goes(half, half) /\ Goes(n, n) /\ Goes(1, m)
    BY GoesAll, Small
  <2> HIDE DEF One
  <2> QED BY <2>1, <2>2, AddExtents, Small
<1>6. Add(T4(1, half, n, m), T4(1, half, n, m)) = T4(1, half, n, m)
  BY AddSame, Small
<1>7. Concat(T4(1, half, n, m), T4(1, half, n, m), 0) = T4(2, half, n, m)
  <2>1. Concat(T4(1, half, n, m), T4(1, half, n, m), 0) = T4(1 + 1, half, n, m)
    BY Concat0, Small
  <2>2. 1 + 1 = 2
    OBVIOUS
  <2> QED BY <2>1, <2>2
<1>8. Reshape(T4(2, half, n, m), a, n, m, 1) = T4(a, n, m, 1)
  <2>1. 2 * half * n * m = a * n * m * 1
    BY <1>0 DEF Pos
  <2> QED BY <2>1, Small, PosInt, ReshapeOf
<1>9. /\ Add(One(pairs, 0), One(fc, 0)) = T4(1, half, n, m)
      /\ Add(One(pairs, 1), One(fc, 1)) = T4(1, half, n, m)
      /\ Add(One(pairs, 0), One(fc, 1)) = T4(1, half, n, m)
      /\ Add(One(pairs, 1), One(fc, 0)) = T4(1, half, n, m)
  BY <1>5
<1> QED BY <1>1, <1>2, <1>3, <1>6, <1>7, <1>8, <1>9, ExtentOf DEF ApplyRope

\* A view of these strides and extents ends within so many elements.
Fits(nb, ne, span) == 1 + (ne[1] - 1) * 1 + (ne[2] - 1) * nb[1] + (ne[3] - 1) * nb[2] + (ne[4] - 1) * nb[3] <= span

\* A view that fits exists, and its copy is a plain tensor.
LEMMA ViewOf ==
  ASSUME NEW x, NEW e, NEW f, NEW g, NEW h, NEW n2, NEW n3, NEW n4,
         e \in Pos, f \in Pos, g \in Pos, h \in Pos, n2 \in Pos, n3 \in Pos, n4 \in Pos, Exists(x), x.nb[1] = 1,
         Fits(<<n2, n3, n4>>, <<e, f, g, h>>, Span(x))
  PROVE  View(x, <<e, f, g, h>>, <<n2, n3, n4>>, 0) = Cut(e, f, g, h, <<1, n2, n3, n4>>)
<1> DEFINE v == Cut(e, f, g, h, <<1, n2, n3, n4>>)
<1>1. Span(v) = 1 + (e - 1) * 1 + (f - 1) * n2 + (g - 1) * n3 + (h - 1) * n4
  BY DEF Span, Cut
<1>2. Span(v) <= Span(x)
  BY <1>1 DEF Fits
<1>3. Exists(v)
  BY CutIsThere
<1>4. v = [ne |-> <<e, f, g, h>>, nb |-> <<x.nb[1]>> \o <<n2, n3, n4>>]
  BY DEF Cut
<1>5. 0 + Span(v) = Span(v)
  BY <1>1 DEF Pos
<1> HIDE DEF v
<1>6. View(x, <<e, f, g, h>>, <<n2, n3, n4>>, 0) = v
  BY <1>2, <1>3, <1>4, <1>5 DEF View, Asserted
<1> QED BY <1>6 DEF v

\* Windows cover a map, and not a window more.
LEMMA CeilOf ==
  ASSUME NEW n, NEW k, n \in Pos, k \in Pos
  PROVE  /\ Ceil(n, k) \in Pos
         /\ Ceil(n, k) * k >= n
         /\ Ceil(n, k) * k < n + k
<1>1. n \in Int /\ k \in Int /\ n > 0 /\ k > 0
  BY DEF Pos
<1> DEFINE m == n + k - 1
           q == m \div k
<1>2. m \in Nat /\ m >= k
  BY <1>1
<1>3. q \in Int /\ q * k <= m /\ m < q * k + k
  BY <1>1, <1>2
<1>4. q >= 1
  BY <1>1, <1>2, <1>3
<1> QED BY <1>1, <1>3, <1>4 DEF Ceil, Pos

\* ggml_pad adds to the second and third extents.
LEMMA PadOf ==
  ASSUME NEW a, NEW b, NEW c, NEW d, NEW p, NEW q,
         a \in Pos, b \in Pos, c \in Pos, d \in Pos, p \in Int, q \in Int
  PROVE  PadBy(T4(a, b, c, d), 0, p - b, q - c, 0) = T4(a, p, q, d)
<1>1. a + 0 = a /\ b + (p - b) = p /\ c + (q - c) = q /\ d + 0 = d
  BY DEF Pos
<1>2. PadBy(T4(a, b, c, d), 0, p - b, q - c, 0) = T4(a + 0, b + (p - b), c + (q - c), d + 0)
  BY ExtentOf, IsThere DEF PadBy, Asserted
<1> QED BY <1>1, <1>2

\* ggml_win_part cuts a map into windows.
LEMMA WinPartOf ==
  ASSUME NEW e, NEW w, NEW h, NEW k, e \in Pos, w \in Pos, h \in Pos, k \in Pos
  PROVE  WinPart(T4(e, w, h, 1), k) = T4(e, k, k, Ceil(w, k) * Ceil(h, k))
<1> DEFINE a == T4(e, w, h, 1)
           npx == Ceil(w, k)
           npy == Ceil(h, k)
           p == T4(e, npx * k, npy * k, 1)
           v == Cut(e * k, npx, k, npy, <<1, e * k, e * npx * k, e * npx * k * k>>)
<1>1. npx \in Pos /\ npy \in Pos /\ npx * k \in Pos /\ npy * k \in Pos /\ e * k \in Pos
  BY CeilOf, PosTimes
<1> HIDE DEF npx, npy
<1>2. PadBy(a, 0, npx * k - w, npy * k - h, 0) = p
  BY <1>1, PadOf, PosInt, Small
<1>3. View(p, <<e * k, npx, k, npy>>, <<e * k, e * npx * k, e * npx * k * k>>, 0) = v
  <2>1. Exists(p) /\ p.nb[1] = 1
    BY <1>1, IsThere, StrideOf, Small
  <2>2. Span(p) = e * (npx * k) * (npy * k) * 1
    BY <1>1, SpanOf, Small
  <2>3. 1 + (e * k - 1) * 1 + (npx - 1) * (e * k) + (k - 1) * (e * npx * k) + (npy - 1) * (e * npx * k * k)
          = e * (npx * k) * (npy * k) * 1
    BY <1>1 DEF Pos
  <2>4. e * (npx * k) * (npy * k) * 1 \in Int
    BY <1>1 DEF Pos
  <2>5. Fits(<<e * k, e * npx * k, e * npx * k * k>>, <<e * k, npx, k, npy>>, Span(p))
    BY <2>2, <2>3, <2>4 DEF Fits
  <2>6. e * k \in Pos /\ e * npx * k \in Pos /\ e * npx * k * k \in Pos
    BY <1>1, PosTimes
  <2> HIDE DEF p
  <2> QED BY <1>1, <2>1, <2>5, <2>6, ViewOf
<1>4. Permuted(v, 0, 2, 1, 3) = T4(e * k, k, npx, npy)
  <2>1. Measures(v, e * k, npx, k, npy)
    BY CutOf
  <2> HIDE DEF v
  <2> QED BY <1>1, <2>1, Order0213
<1>5. Reshape(T4(e * k, k, npx, npy), e, k, k, npx * npy) = T4(e, k, k, npx * npy)
  <2>1. (e * k) * k * npx * npy = e * k * k * (npx * npy)
    BY <1>1 DEF Pos
  <2>2. npx * npy \in Int
    BY <1>1 DEF Pos
  <2> QED BY <1>1, <2>1, <2>2, PosInt, ReshapeOf
<1>6. a.ne[1] = e /\ a.ne[2] = w /\ a.ne[3] = h /\ a.ne[4] = 1 /\ IsContiguous(a)
  BY ExtentOf, IsPlain, PosInt, Small
<1> HIDE DEF a, p, v
<1>7. WinPart(a, k) = T4(e, k, k, npx * npy)
  BY <1>2, <1>3, <1>4, <1>5, <1>6 DEF WinPart, Asserted, npx, npy
<1> QED BY <1>7 DEF a, npx, npy

\* The border is cut off again,
LEMMA CropOf ==
  ASSUME NEW e, NEW p, NEW q, NEW w, NEW h,
         e \in Pos, p \in Pos, q \in Pos, w \in Pos, h \in Pos, w <= p, h <= q
  PROVE  Cont(Part(T4(e, p, q, 1), <<e, w, h, 1>>, 0)) = T4(e, w, h, 1)
<1>1. Inside(<<e, p, q, 1>>, <<e, w, h, 1>>, 0)
  <2> DEFINE m == e * p
  <2>1. m \in Pos
    BY PosTimes
  <2>2. (w - 1) * e <= (p - 1) * e
    BY DEF Pos
  <2>3. (h - 1) * m <= (q - 1) * m
    <3> HIDE DEF m
    <3> QED BY <2>1 DEF Pos
  <2>4. (1 - 1) * (m * q) = 0
    BY <2>1 DEF Pos
  <2>5. 1 + (e - 1) * 1 + (p - 1) * e + (q - 1) * m = m * q * 1
    BY DEF Pos
  <2>6. /\ (w - 1) * e \in Int /\ (p - 1) * e \in Int /\ (h - 1) * m \in Int
        /\ (q - 1) * m \in Int /\ e \in Int
    BY DEF Pos
  <2>7. 0 + (1 + (e - 1) * 1 + (w - 1) * e + (h - 1) * m + (1 - 1) * (m * q)) <= m * q * 1
    BY <2>2, <2>3, <2>4, <2>5, <2>6
  <2> QED BY <2>7 DEF Inside
<1>2. Part(T4(e, p, q, 1), <<e, w, h, 1>>, 0) = Cut(e, w, h, 1, <<1, e, e * p, e * p * q>>)
  BY <1>1, PartOf, Small
<1> QED BY <1>2, CutIsThere, Small

\* when ggml_win_unpart puts the windows together: the map is what it was.
LEMMA WinUnpartOf ==
  ASSUME NEW e, NEW w, NEW h, NEW k, e \in Pos, w \in Pos, h \in Pos, k \in Pos
  PROVE  WinUnpart(T4(e, k, k, Ceil(w, k) * Ceil(h, k)), w, h, k) = T4(e, w, h, 1)
<1> DEFINE npx == Ceil(w, k)
           npy == Ceil(h, k)
           a == T4(e, k, k, npx * npy)
           v == Cut(e * k, npx, k, npy, <<1, e * k * k, e * k, e * k * k * npx>>)
           c == T4(e, npx * k, npy * k, 1)
<1>1. /\ npx \in Pos /\ npy \in Pos /\ npx * k \in Pos /\ npy * k \in Pos /\ e * k \in Pos
      /\ npx * npy \in Pos /\ npx * k >= w /\ npy * k >= h
  BY CeilOf, PosTimes
<1> HIDE DEF npx, npy
<1>2. View(a, <<e * k, npx, k, npy>>, <<e * k * k, e * k, e * k * k * npx>>, 0) = v
  <2>1. Exists(a) /\ a.nb[1] = 1
    BY <1>1, IsThere, StrideOf
  <2>2. Span(a) = e * k * k * (npx * npy)
    BY <1>1, SpanOf
  <2>3. 1 + (e * k - 1) * 1 + (npx - 1) * (e * k * k) + (k - 1) * (e * k) + (npy - 1) * (e * k * k * npx)
          = e * k * k * (npx * npy)
    BY <1>1 DEF Pos
  <2>4. e * k * k * (npx * npy) \in Int
    BY <1>1 DEF Pos
  <2>5. Fits(<<e * k * k, e * k, e * k * k * npx>>, <<e * k, npx, k, npy>>, Span(a))
    BY <2>2, <2>3, <2>4 DEF Fits
  <2>6. e * k \in Pos /\ e * k * k \in Pos /\ e * k * k * npx \in Pos
    BY <1>1, PosTimes
  <2> HIDE DEF a
  <2> QED BY <1>1, <2>1, <2>5, <2>6, ViewOf
<1>3. Cont(v) = T4(e * k, npx, k, npy)
  BY <1>1, CutIsThere
<1>4. Reshape(T4(e * k, npx, k, npy), e, npx * k, npy * k, 1) = c
  <2>1. (e * k) * npx * k * npy = e * (npx * k) * (npy * k) * 1
    BY <1>1 DEF Pos
  <2> QED BY <1>1, <2>1, PosInt, Small, ReshapeOf
<1>5. Cont(Part(c, <<e, w, h, 1>>, 0)) = T4(e, w, h, 1)
  BY <1>1, CropOf
<1>6. a.ne = <<e, k, k, npx * npy>> /\ a.ne[1] = e /\ IsContiguous(a)
  BY <1>1, ExtentsOf, ExtentOf, IsPlain, PosInt
<1> HIDE DEF a, c, v
<1>7. WinUnpart(a, w, h, k) = T4(e, w, h, 1)
  BY <1>2, <1>3, <1>4, <1>5, <1>6 DEF WinUnpart, Asserted, npx, npy
<1> QED BY <1>7 DEF a, npx, npy

-----------------------------------------------------------------------------
(* The ViT of SAM 3 and its neck. *)

\* The hyperparameters of the ViT.
LEMMA VitSizes ==
    /\ E = 1024 /\ MLP = 4736 /\ hp.vit_num_heads = 16 /\ hp.vit_window_size = 24
    /\ hp.patch_size = 14 /\ NativeGrid = 72 /\ hp.vit_depth = 32
    /\ hp.global_attn_idx = {7, 15, 23, 31}
    /\ D = 256 /\ MD = 64
BY DEF E, MLP, hp, NativeGrid, D, MD

\* More numbers that are extents.
LEMMA Numbers ==
    /\ 1024 \in Pos /\ 3 * 1024 \in Pos /\ 4736 \in Pos /\ 16 \in Pos /\ 24 \in Pos /\ 64 \in Pos
    /\ 32 \in Pos /\ 512 \in Pos /\ 256 \in Pos /\ 128 \in Pos /\ 2048 \in Pos /\ 200 \in Pos /\ 14 \in Pos
BY DEF Pos

\* Attention among the places of a map, or of a window (sam3_vit_block_forward).
LEMMA VitAttentionOf ==
  ASSUME NEW w, NEW h, NEW b, w \in Pos, h \in Pos, b \in Pos
  PROVE  VitAttention(T4(1024, w * h, b, 3), T3(2, 32, w * h), w, h) = T4(1024, w, h, b)
<1> DEFINE p == w * h
           qkv == T4(1024, p, b, 3)
           freqs == T3(2, 32, p)
           Third(i) == Reshape(Part(qkv, <<1024, p, b, 1>>, i * qkv.nb[4]), 1024, p, b, 1)
           Roped(x) == Reshape(ApplyRope(Reshape(Cont(Heads(x, 64, 16)), 64, p, 16 * b, 1), freqs), 64, p, 16, b)
           x == T4(1024, p, b, 1)
<1>0. p \in Pos /\ 16 * b \in Pos /\ 16 * b \in Int
  BY PosTimes, Numbers, PosInt
<1>1. qkv.ne[3] = b /\ qkv.nb[4] = 1024 * p * b
  BY ExtentOf, StrideOf
<1> HIDE DEF p
<1>2. \A i \in {0, 1, 2} : Third(i) = x
  <2> SUFFICES ASSUME NEW i \in {0, 1, 2}
               PROVE  Third(i) = x
    OBVIOUS
  <2> DEFINE n == 1024 * p * b
  <2>1. n \in Pos
    BY <1>0, PosTimes, Numbers
  <2>2. Inside(<<1024, p, b, 3>>, <<1024, p, b, 1>>, i * n)
    <3>1. 1 + (1024 - 1) * 1 + (p - 1) * 1024 + (b - 1) * (1024 * p) = n
      BY <1>0 DEF Pos
    <3>2. 1024 * p * b * 3 = 3 * n
      BY <1>0 DEF Pos
    <3>3. (1 - 1) * (1024 * p * b) = 0
      BY <2>1 DEF Pos
    <3> HIDE DEF n
    <3>4. i * n \in Nat /\ i * n + (n + 0) <= 3 * n
      BY <2>1 DEF Pos
    <3>5. i * n + (1 + (1024 - 1) * 1 + (p - 1) * 1024 + (b - 1) * (1024 * p) + (1 - 1) * (1024 * p * b))
            <= 1024 * p * b * 3
      BY <3>1, <3>2, <3>3, <3>4
    <3> QED BY <3>4, <3>5 DEF Inside
  <2>3. Part(qkv, <<1024, p, b, 1>>, i * n) = Cut(1024, p, b, 1, <<1, 1024, 1024 * p, 1024 * p * b>>)
    BY <1>0, <2>2, PartOf, Small, Numbers
  <2>4. Cut(1024, p, b, 1, <<1, 1024, 1024 * p, 1024 * p * b>>) = T4(1024, p, b, 1)
    BY DEF Cut, T4, Tensor
  <2>5. Reshape(T4(1024, p, b, 1), 1024, p, b, 1) = T4(1024, p, b, 1)
    BY <1>0, ReshapeOf, Small, Numbers, PosInt
  <2> QED BY <1>1, <2>3, <2>4, <2>5
<1>3. Times(1024, 64, 16)
  BY DEF Times
<1>4. Measures(Heads(x, 64, 16), 64, p, 16, b) /\ Cont(Heads(x, 64, 16)) = T4(64, p, 16, b)
  BY <1>0, <1>3, HeadsOf, Numbers
<1>5. Reshape(T4(64, p, 16, b), 64, p, 16 * b, 1) = T4(64, p, 16 * b, 1)
  <2>1. 64 * p * 16 * b = 64 * p * (16 * b) * 1
    BY <1>0 DEF Pos
  <2> QED BY <1>0, <2>1, ReshapeOf, Small, Numbers, PosInt
<1>6. ApplyRope(T4(64, p, 16 * b, 1), freqs) = T4(64, p, 16 * b, 1)
  <2>1. Times(64, 2, 32)
    BY DEF Times
  <2> QED BY <1>0, <2>1, ApplyRopeOf, Numbers
<1>7. Reshape(T4(64, p, 16 * b, 1), 64, p, 16, b) = T4(64, p, 16, b)
  <2>1. 64 * p * (16 * b) * 1 = 64 * p * 16 * b
    BY <1>0 DEF Pos
  <2> QED BY <1>0, <2>1, ReshapeOf, Small, Numbers, PosInt
<1> HIDE DEF x, freqs
<1>8. Roped(x) = T4(64, p, 16, b)
  BY <1>4, <1>5, <1>6, <1>7
<1>9. AttnExt(T4(64, p, 16, b), T4(64, p, 16, b), Heads(x, 64, 16), NoMask) = T4(64, 16, p, b)
  <2>1. MaskTakes(NoMask, p, p, 16)
    BY NoMaskTakes
  <2> QED BY <1>0, <1>4, <2>1, AttnOf, Numbers
<1>10. Reshape(T4(64, 16, p, b), 1024, w, h, b) = T4(1024, w, h, b)
  <2>1. 64 * 16 * (w * h) * b = 1024 * w * h * b
    BY DEF Pos
  <2>2. 64 * 16 * p * b = 1024 * w * h * b
    BY <2>1 DEF p
  <2> QED BY <1>0, <2>2, ReshapeOf, Small, Numbers, PosInt
<1>11. Third(0) = x /\ Third(1) = x /\ Third(2) = x
  BY <1>2
<1> HIDE DEF qkv
<1>12. 1024 \div 16 = 64
  OBVIOUS
<1>13. VitAttention(qkv, freqs, w, h) = T4(1024, w, h, b)
  BY <1>1, <1>8, <1>9, <1>10, <1>11, <1>12, VitSizes DEF VitAttention, p
<1> QED BY <1>13 DEF qkv, freqs, p

\* With the projections around it.
LEMMA VitAttendedOf ==
  ASSUME NEW blk, NEW w, NEW h, NEW b, w \in Pos, h \in Pos, b \in Pos,
         blk.qkv = Linear(E, 3 * E), blk.proj = Linear(E, E), blk.freqs_cis = T3(2, 32, w * h)
  PROVE  VitAttended(T4(E, w, h, b), blk) = T4(E, w, h, b)
<1> DEFINE x == T4(1024, w, h, b)
<1>0. w * h \in Pos /\ w * h \in Int /\ b \in Int
  BY PosTimes, PosInt
<1>1. Through(Linear(1024, 3 * 1024), x) = T4(3 * 1024, w, h, b)
  BY ThroughOf, Numbers
<1>2. Reshape(T4(3 * 1024, w, h, b), 1024, 3, w * h, b) = T4(1024, 3, w * h, b)
  <2>1. (3 * 1024) * w * h * b = 1024 * 3 * (w * h) * b
    BY DEF Pos
  <2> QED BY <1>0, <2>1, ReshapeOf, Small, Numbers, PosInt
<1>3. Permuted(T4(1024, 3, w * h, b), 0, 3, 1, 2) = T4(1024, w * h, b, 3)
  BY <1>0, Permuted0312, Small, Numbers
<1>4. VitAttention(T4(1024, w * h, b, 3), T3(2, 32, w * h), w, h) = T4(1024, w, h, b)
  BY VitAttentionOf
<1>5. Through(Linear(1024, 1024), T4(1024, w, h, b)) = T4(1024, w, h, b)
  BY ThroughOf, Numbers
<1>6. x.ne[2] = w /\ x.ne[3] = h /\ x.ne[4] = b
  BY ExtentOf
<1> HIDE DEF x
<1>7. VitAttended(x, blk) = T4(1024, w, h, b)
  BY <1>1, <1>2, <1>3, <1>4, <1>5, <1>6, VitSizes DEF VitAttended
<1> QED BY <1>7, VitSizes DEF x

\* A block of the vision transformer keeps the shape of the map.
LEMMA VitBlockOf ==
  ASSUME NEW blk, NEW global \in BOOLEAN, NEW w, NEW h, w \in Pos, h \in Pos,
         blk.norm1 = Norm(E), blk.norm2 = Norm(E), blk.qkv = Linear(E, 3 * E), blk.proj = Linear(E, E),
         blk.fc1 = Linear(E, MLP), blk.fc2 = Linear(MLP, E),
         blk.freqs_cis = T3(2, 32, IF global THEN w * h ELSE 24 * 24)
  PROVE  VitBlockForward(T4(E, w, h, 1), blk, global) = T4(E, w, h, 1)
<1> DEFINE x == T4(E, w, h, 1)
           n == Ceil(w, 24) * Ceil(h, 24)
<1>0. E \in Pos /\ MLP \in Pos /\ n \in Pos
  BY VitSizes, Numbers, CeilOf, PosTimes
<1>1. LayerNorm(x, Norm(E)) = x
  BY <1>0, LayerNormOf, Small
<1>2. CASE global
  <2>1. VitAttended(x, blk) = x
    BY <1>2, VitAttendedOf, Small
  <2>2. Add(x, x) = x
    BY <1>0, AddSame, Small
  <2>3. FeedForward(x, Norm(E), blk) = x
    BY <1>0, FeedForwardOf, Small
  <2> HIDE DEF x
  <2>4. VitBlockForward(x, blk, global) = x
    BY <1>1, <1>2, <2>1, <2>2, <2>3 DEF VitBlockForward
  <2> QED BY <2>4 DEF x
<1>3. CASE ~global
  <2>1. WinPart(x, 24) = T4(E, 24, 24, n)
    BY <1>0, WinPartOf, Numbers
  <2>2. VitAttended(T4(E, 24, 24, n), blk) = T4(E, 24, 24, n)
    BY <1>0, <1>3, VitAttendedOf, Numbers
  <2>3. WinUnpart(T4(E, 24, 24, n), w, h, 24) = x
    BY <1>0, WinUnpartOf, Numbers
  <2>4. x.ne[2] = w /\ x.ne[3] = h
    BY ExtentOf
  <2>5. Add(x, x) = x
    BY <1>0, AddSame, Small
  <2>6. FeedForward(x, Norm(E), blk) = x
    BY <1>0, FeedForwardOf, Small
  <2> HIDE DEF x, n
  <2>7. VitBlockForward(x, blk, global) = x
    BY <1>1, <1>3, <2>1, <2>2, <2>3, <2>4, <2>5, <2>6, VitSizes DEF VitBlockForward
  <2> QED BY <2>7 DEF x
<1> QED BY <1>2, <1>3

\* The block that a layer runs.
LEMMA VitLayerOf ==
  ASSUME NEW i \in 0 .. 31, NEW g, g \in Pos
  PROVE  VitBlockForward(T4(E, g, g, 1), [VitBlock(i) EXCEPT !.freqs_cis = RopeOf(i, g)], IsGlobal(i)) = T4(E, g, g, 1)
<1> DEFINE blk == [VitBlock(i) EXCEPT !.freqs_cis = RopeOf(i, g)]
<1>1. /\ blk.norm1 = Norm(E) /\ blk.norm2 = Norm(E) /\ blk.qkv = Linear(E, 3 * E) /\ blk.proj = Linear(E, E)
      /\ blk.fc1 = Linear(E, MLP) /\ blk.fc2 = Linear(MLP, E)
      /\ blk.freqs_cis = RopeOf(i, g)
  BY DEF VitBlock
<1>2. RopeOf(i, g) = T3(2, 32, IF IsGlobal(i) THEN g * g ELSE 24 * 24)
  <2>1. Vit.blocks[i].freqs_cis = T3(2, 32, IF IsGlobal(i) THEN NativeGrid * NativeGrid ELSE 24 * 24)
    BY VitSizes DEF Vit, VitBlock
  <2>2. (E \div hp.vit_num_heads) \div 2 = 32
    BY VitSizes
  <2> QED BY <2>1, <2>2 DEF RopeOf
<1>3. IsGlobal(i) \in BOOLEAN
  BY DEF IsGlobal
<1> HIDE DEF blk
<1>4. VitBlockForward(T4(E, g, g, 1), blk, IsGlobal(i)) = T4(E, g, g, 1)
  BY <1>1, <1>2, <1>3, VitBlockOf
<1> QED BY <1>4 DEF blk

\* The patches of an image (sam3_build_vit_graph).
LEMMA VitPrefixOf ==
  ASSUME NEW s, s \in Pos, s \div 14 \in Pos
  PROVE  VitPrefix(T4(s, s, 3, 1)) = T4(E, s \div 14, s \div 14, 1)
<1> DEFINE g == s \div 14
           c == Ceil(g, 24)
           pos == T4(E, 24, 24, 1)
           tiled == T4(E, c * 24, c * 24, 1)
           x == T4(E, g, g, 1)
<1>0. E \in Pos /\ 24 \in Pos /\ g \in Pos
  BY VitSizes, Numbers
<1>1. Out(s, 14, 14, 0) = g
  BY DEF Out, Pos
<1> HIDE DEF g
<1>2. Conv(T4(14, 14, 3, E), T4(s, s, 3, 1), 14, 0) = T4(g, g, E, 1)
  <2>1. Conv(T4(14, 14, 3, E), T4(s, s, 3, 1), 14, 0) = T4(Out(s, 14, 14, 0), Out(s, 14, 14, 0), E, 1)
    BY <1>0, <1>1, ConvOf, Small, Numbers
  <2> QED BY <1>1, <2>1
<1>3. Vit.patch_embed = T4(14, 14, 3, E) /\ Vit.ln_pre = Norm(E)
  BY VitSizes DEF Vit
<1>4. Vit.pos_embed = pos
  <2>1. (hp.img_size \div hp.patch_size) \div 3 = 24
    BY DEF hp
  <2> QED BY <2>1 DEF Vit
<1>5. ConvPatches(Vit.patch_embed, T4(s, s, 3, 1)) = T4(g, g, E, 1)
  BY <1>2, <1>3, ExtentOf DEF ConvPatches
<1>6. FromPlanes(T4(g, g, E, 1)) = x
  BY <1>0, FromPlanesOf, Small
<1>7. c \in Pos /\ c * 24 \in Pos /\ g <= c * 24
  BY <1>0, CeilOf, PosTimes, Numbers
<1>8. Goes(24, c * 24)
  BY <1>7 DEF Goes, Pos
<1> HIDE DEF c
<1>9. Repeat(pos, tiled) = tiled
  BY <1>0, <1>7, <1>8, RepeatOf, GoesAll, Small
<1>10. Cont(Part(tiled, <<E, g, g, 1>>, 0)) = x
  BY <1>0, <1>7, CropOf
<1>11. Add(x, x) = x /\ LayerNorm(x, Norm(E)) = x
  BY <1>0, AddSame, LayerNormOf, Small
<1>12. x.ne[2] = g /\ x.ne[3] = g /\ pos.ne[2] = 24
  BY ExtentOf
<1> HIDE DEF x, pos
<1>13. VitPrefix(T4(s, s, 3, 1)) = x
  BY <1>3, <1>4, <1>5, <1>6, <1>9, <1>10, <1>11, <1>12 DEF VitPrefix, c
<1> QED BY <1>13 DEF x, g

\* ggml_conv_transpose_2d_p0 by two doubles the extents.
LEMMA DeconvOf ==
  ASSUME NEW ci, NEW co, NEW a, NEW b, ci \in Pos, co \in Pos, a \in Pos, b \in Pos
  PROVE  ConvTransposeSk(T4(2, 2, co, ci), T4(a, b, ci, 1), 2) = T4(2 * a, 2 * b, co, 1)
<1> DEFINE w == T4(2, 2, co, ci)
           x == T4(a, b, ci, 1)
           m == 2 * 2 * co
           n == a * b
<1>0. m \in Pos /\ n \in Pos /\ 2 * co \in Pos /\ 2 * a \in Pos /\ 2 * b \in Pos
  BY PosTimes, Small
<1>1. Permuted(w, 1, 2, 3, 0) = T4(ci, 2, 2, co)
  BY Permuted1230, Small
<1>2. Reshape(T4(ci, 2, 2, co), ci, m, 1, 1) = T4(ci, m, 1, 1)
  <2>1. ci * 2 * 2 * co = ci * m * 1 * 1
    BY DEF Pos
  <2> HIDE DEF m
  <2> QED BY <1>0, <2>1, ReshapeOf, Small, PosInt
<1>3. FromPlanes(x) = T4(ci, a, b, 1)
  BY FromPlanesOf, Small
<1>4. Reshape(T4(ci, a, b, 1), ci, n, 1, 1) = T4(ci, n, 1, 1)
  <2>1. ci * a * b * 1 = ci * n * 1 * 1
    BY DEF Pos
  <2> HIDE DEF n
  <2> QED BY <1>0, <2>1, ReshapeOf, Small, PosInt
<1>5. MulMat(T4(ci, m, 1, 1), T4(ci, n, 1, 1)) = T4(m, n, 1, 1)
  BY <1>0, MulMatAll, Small, GoesAll
<1>6. Reshape(T4(m, n, 1, 1), 2, 2 * co, a, b) = T4(2, 2 * co, a, b)
  <2>1. m * n * 1 * 1 = 2 * (2 * co) * a * b
    BY DEF Pos
  <2> HIDE DEF m, n
  <2> QED BY <1>0, <2>1, ReshapeOf, Small, PosInt
<1>7. Permuted(T4(2, 2 * co, a, b), 0, 2, 1, 3) = T4(2, a, 2 * co, b)
  BY <1>0, Permuted0213, Small
<1>8. Reshape(T4(2, a, 2 * co, b), 2 * a, 2, co, b) = T4(2 * a, 2, co, b)
  <2>1. 2 * a * (2 * co) * b = (2 * a) * 2 * co * b
    BY DEF Pos
  <2> QED BY <1>0, <2>1, ReshapeOf, Small, PosInt
<1>9. Permuted(T4(2 * a, 2, co, b), 0, 1, 3, 2) = T4(2 * a, 2, b, co)
  BY <1>0, Permuted0132, Small
<1>10. Reshape(T4(2 * a, 2, b, co), 2 * a, 2 * b, co, 1) = T4(2 * a, 2 * b, co, 1)
  <2>1. (2 * a) * 2 * b * co = (2 * a) * (2 * b) * co * 1
    BY DEF Pos
  <2> QED BY <1>0, <2>1, ReshapeOf, Small, PosInt
<1>11. w.ne[1] = 2 /\ w.ne[2] = 2 /\ w.ne[3] = co /\ w.ne[4] = ci
  BY ExtentOf
<1>12. x.ne[1] = a /\ x.ne[2] = b /\ x.ne[3] = ci /\ x.ne[4] = 1
  BY ExtentOf
<1> HIDE DEF w, x
<1>13. ConvTransposeSk(w, x, 2) = T4(2 * a, 2 * b, co, 1)
  BY <1>1, <1>2, <1>3, <1>4, <1>5, <1>6, <1>7, <1>8, <1>9, <1>10, <1>11, <1>12 DEF ConvTransposeSk
<1> QED BY <1>13 DEF w, x

\* A deconvolution with its bias.
LEMMA UpOf ==
  ASSUME NEW ci, NEW co, NEW a, NEW b, ci \in Pos, co \in Pos, a \in Pos, b \in Pos
  PROVE  AddBias(ConvTransposeSk(Deconv(co, ci).w, T4(a, b, ci, 1), 2), Deconv(co, ci).b) = T4(2 * a, 2 * b, co, 1)
<1>1. Deconv(co, ci).w = T4(2, 2, co, ci) /\ Deconv(co, ci).b = T1(co)
  BY DEF Deconv
<1>2. 2 * a \in Pos /\ 2 * b \in Pos
  BY PosTimes, Small
<1>3. AddBias(T4(2 * a, 2 * b, co, 1), T1(co)) = T4(2 * a, 2 * b, co, 1)
  BY <1>2, AddBiasOf, Small
<1> QED BY <1>1, <1>3, DeconvOf

\* A filter of one pixel with its bias,
LEMMA Filtered1 ==
  ASSUME NEW ci, NEW co, NEW a, NEW b, NEW n, ci \in Pos, co \in Pos, a \in Pos, b \in Pos, n \in Pos
  PROVE  AddBias(ConvPatches(Filter(1, ci, co).w, T4(a, b, ci, n)), Filter(1, ci, co).b) = T4(a, b, co, n)
BY FilterIs, ConvPatchesOf, AddBiasOf

\* and one of three.
LEMMA Filtered3 ==
  ASSUME NEW ci, NEW co, NEW a, NEW b, NEW n, ci \in Pos, co \in Pos, a \in Pos, b \in Pos, n \in Pos
  PROVE  AddBias(ConvSame(Filter(3, ci, co).w, T4(a, b, ci, n)), Filter(3, ci, co).b) = T4(a, b, co, n)
BY FilterIs, ConvSameOf, AddBiasOf

\* What every scale of the neck ends with.
NeckFinish(s, x) == FromPlanes(AddBias(ConvSame(s.conv3x3.w,
                          AddBias(ConvPatches(s.conv1x1.w, x), s.conv1x1.b)), s.conv3x3.b))

\* It leaves D channels,
LEMMA NeckFinishOf ==
  ASSUME NEW s, NEW c, NEW a, NEW b, c \in Pos, a \in Pos, b \in Pos,
         s.conv1x1 = Filter(1, c, D), s.conv3x3 = Filter(3, D, D)
  PROVE  NeckFinish(s, T4(a, b, c, 1)) = T4(D, a, b, 1)
<1>0. D \in Pos
  BY VitSizes, Numbers
<1>1. AddBias(ConvPatches(s.conv1x1.w, T4(a, b, c, 1)), s.conv1x1.b) = T4(a, b, D, 1)
  BY <1>0, Filtered1, Small
<1>2. AddBias(ConvSame(s.conv3x3.w, T4(a, b, D, 1)), s.conv3x3.b) = T4(a, b, D, 1)
  BY <1>0, Filtered3, Small
<1>3. FromPlanes(T4(a, b, D, 1)) = T4(D, a, b, 1)
  BY <1>0, FromPlanesOf, Small
<1> QED BY <1>1, <1>2, <1>3 DEF NeckFinish

\* so that the neck gives four levels of features (sam3_build_neck_graph). A grid of one
\* place cannot be halved.
LEMMA NeckOf ==
  ASSUME NEW g, g \in Pos, g >= 2
  PROVE  NeckGraph(T4(E, g, g, 1)) = <<T4(D, 2 * (2 * g), 2 * (2 * g), 1), T4(D, 2 * g, 2 * g, 1),
                                       T4(D, g, g, 1), T4(D, g \div 2, g \div 2, 1)>>
<1> DEFINE x == T4(g, g, E, 1)
           y == T4(2 * g, 2 * g, 512, 1)
           z == T4(2 * (2 * g), 2 * (2 * g), D, 1)
           p == T4(g \div 2, g \div 2, E, 1)
<1>0. D \in Pos /\ E \in Pos /\ 512 \in Pos /\ 2 * g \in Pos /\ 2 * (2 * g) \in Pos
  BY VitSizes, Numbers, PosTimes, Small
<1>1. ToPlanes(T4(E, g, g, 1)) = x
  BY <1>0, ToPlanesOf, Small
<1>2. /\ Neck[1].deconv1 = Deconv(512, E) /\ Neck[1].deconv2 = Deconv(D, 512)
      /\ Neck[1].conv1x1 = Filter(1, D, D) /\ Neck[1].conv3x3 = Filter(3, D, D)
      /\ Neck[2].deconv1 = Deconv(512, E)
      /\ Neck[2].conv1x1 = Filter(1, 512, D) /\ Neck[2].conv3x3 = Filter(3, D, D)
      /\ Neck[3].conv1x1 = Filter(1, E, D) /\ Neck[3].conv3x3 = Filter(3, D, D)
      /\ Neck[4].conv1x1 = Filter(1, E, D) /\ Neck[4].conv3x3 = Filter(3, D, D)
  BY DEF Neck
<1>3. /\ AddBias(ConvTransposeSk(Deconv(512, E).w, x, 2), Deconv(512, E).b) = y
      /\ AddBias(ConvTransposeSk(Deconv(D, 512).w, y, 2), Deconv(D, 512).b) = z
  BY <1>0, UpOf
<1>4. Pool(x, 2, 2) = p /\ g \div 2 \in Pos
  BY <1>0, PoolOf, Small
<1>5. NeckFinish(Neck[1], z) = T4(D, 2 * (2 * g), 2 * (2 * g), 1)
  BY <1>0, <1>2, NeckFinishOf
<1>6. NeckFinish(Neck[2], y) = T4(D, 2 * g, 2 * g, 1)
  BY <1>0, <1>2, NeckFinishOf
<1>7. NeckFinish(Neck[3], x) = T4(D, g, g, 1)
  BY <1>0, <1>2, NeckFinishOf
<1>8. NeckFinish(Neck[4], p) = T4(D, g \div 2, g \div 2, 1)
  BY <1>0, <1>2, <1>4, NeckFinishOf
<1> HIDE DEF x, y, z, p
<1>9. NeckGraph(T4(E, g, g, 1)) = <<NeckFinish(Neck[1], z), NeckFinish(Neck[2], y),
                                    NeckFinish(Neck[3], x), NeckFinish(Neck[4], p)>>
  BY <1>1, <1>2, <1>3, <1>4 DEF NeckGraph, NeckFinish
<1> QED BY <1>5, <1>6, <1>7, <1>8, <1>9

-----------------------------------------------------------------------------
(* Attention with heads, and the text encoder. *)

\* The hyperparameters of the text encoder.
LEMMA TextSizes ==
    /\ TW = 1024 /\ hp.text_heads = 16 /\ hp.text_ctx_len = 32 /\ hp.text_vocab_size = 49408
    /\ hp.text_out_dim = 256 /\ hp.text_layers = 24 /\ L = 32
BY DEF TW, hp, L

\* A product with the rows of a part of the weights,
LEMMA MulMatCut ==
  ASSUME NEW x, NEW a, NEW n, NEW b, NEW c, NEW d, NEW m,
         a \in Pos, n \in Pos, b \in Pos, c \in Pos, d \in Pos, m \in Pos, Measures(x, a, n, 1, 1),
         x.nb[1] = 1, x.nb[2] = m
  PROVE  MulMat(x, T4(a, b, c, d)) = T4(n, b, c, d)
<1> DEFINE y == T4(a, b, c, d)
<1>1. y.ne[1] = a /\ y.ne[2] = b /\ y.ne[3] = c /\ y.ne[4] = d /\ Exists(y)
  BY ExtentOf, IsThere
<1>2. x.ne = <<a, n, 1, 1>>
  BY DEF Measures
<1>3. x.ne[1] = a /\ x.ne[2] = n /\ x.ne[3] = 1 /\ x.ne[4] = 1
  BY <1>2
<1>4. Exists(x)
  BY <1>3 DEF Exists, Dims, Pos
<1>5. c % 1 = 0 /\ d % 1 = 0 /\ 1 <= m
  BY DEF Pos
<1> HIDE DEF y
<1>6. MulMat(x, y) = T4(n, b, c, d)
  BY <1>1, <1>3, <1>4, <1>5 DEF MulMat, Asserted
<1> QED BY <1>6 DEF y

\* as the fused weights of an attention are used: a third for each projection.
LEMMA ProjectionOf ==
  ASSUME NEW d, NEW n, NEW b, NEW i, d \in Pos, n \in Pos, b \in Pos, i \in {0, 1, 2}
  PROVE  Projection(FusedAttn(d), i, T4(d, n, b, 1)) = T4(d, n, b, 1)
<1> DEFINE w == T4(d, 3 * d, 1, 1)
           v == T4(3 * d, 1, 1, 1)
           x == T4(d, n, b, 1)
           cw == Cut(d, d, 1, 1, <<1, d, d * (3 * d), d * (3 * d) * 1>>)
           cv == Cut(d, 1, 1, 1, <<1, 3 * d, 3 * d * 1, 3 * d * 1 * 1>>)
<1>0. 3 * d \in Pos
  BY PosTimes, Small
<1>1. FusedAttn(d).in_proj.w = w /\ FusedAttn(d).in_proj.b = v
  BY T1Is, T2Is DEF FusedAttn, Linear
<1>2. Part(w, <<d, d, 1, 1>>, i * d * d) = cw
  <2>1. Inside(<<d, 3 * d, 1, 1>>, <<d, d, 1, 1>>, i * d * d)
    <3>1. 1 + (d - 1) * 1 + (d - 1) * d + (1 - 1) * (d * (3 * d)) + (1 - 1) * (d * (3 * d) * 1) = d * d
      BY DEF Pos
    <3>2. d * (3 * d) * 1 * 1 = 3 * (d * d)
      BY DEF Pos
    <3>3. i * d * d \in Nat /\ i * d * d + d * d <= 3 * (d * d)
      <4>1. i * d * d = i * (d * d)
        BY DEF Pos
      <4>2. d * d \in Nat
        BY DEF Pos
      <4> QED BY <4>1, <4>2
    <3> QED BY <3>1, <3>2, <3>3 DEF Inside
  <2> QED BY <1>0, <2>1, PartOf, Small
<1>3. Part(v, <<d, 1, 1, 1>>, i * d) = cv
  <2>1. Inside(<<3 * d, 1, 1, 1>>, <<d, 1, 1, 1>>, i * d)
    <3>1. /\ 1 + (d - 1) * 1 + (1 - 1) * (3 * d) + (1 - 1) * (3 * d * 1) + (1 - 1) * (3 * d * 1 * 1) = d
          /\ 3 * d * 1 * 1 * 1 = 3 * d /\ i * d \in Nat /\ i * d + d <= 3 * d
      BY DEF Pos
    <3> QED BY <3>1 DEF Inside
  <2> QED BY <1>0, <2>1, PartOf, Small
<1>4. MulMat(cw, x) = x
  <2>1. Measures(cw, d, d, 1, 1) /\ cw.nb[1] = 1 /\ cw.nb[2] = d
    BY CutOf DEF Cut
  <2> HIDE DEF cw
  <2> QED BY <2>1, MulMatCut, Small
<1>5. Add(x, cv) = x
  <2>1. Measures(cv, d, 1, 1, 1) /\ Measures(x, d, n, b, 1)
    BY CutOf, MeasuresOf
  <2> HIDE DEF cv
  <2> QED BY <2>1, AddExtents, Small, GoesAll
<1>6. w.ne[1] = d /\ w.nb[2] = d
  BY ExtentOf, StrideOf
<1> HIDE DEF w, v, x, cw, cv
<1>7. Projection(FusedAttn(d), i, x) = x
  BY <1>1, <1>2, <1>3, <1>4, <1>5, <1>6 DEF Projection
<1> QED BY <1>7 DEF x

\* Attention with heads keeps the extents of the queries (sam3_multihead_attn).
LEMMA MhaOf ==
  ASSUME NEW fused \in BOOLEAN, NEW d, NEW hd, NEW nh, NEW nq, NEW nk, NEW b, NEW mask,
         d \in Pos, hd \in Pos, nh \in Pos, nq \in Pos, nk \in Pos, b \in Pos, Times(d, hd, nh),
         MaskTakes(mask, nk, nq, nh)
  PROVE  Mha(fused, FusedAttn(d), T4(d, nq, b, 1), T4(d, nk, b, 1), T4(d, nk, b, 1), nh, mask) = T4(d, nq, b, 1)
<1> DEFINE q == T4(d, nq, b, 1)
           k == T4(d, nk, b, 1)
<1>1. d \div nh = hd
  <2>1. d = hd * nh /\ nh \in Int /\ hd \in Int /\ nh > 0
    BY DEF Times, Pos
  <2>2. (hd * nh) \div nh = hd
    BY <2>1
  <2> QED BY <2>1, <2>2
<1>2. /\ Projection(FusedAttn(d), 0, q) = q
      /\ Projection(FusedAttn(d), 1, k) = k
      /\ Projection(FusedAttn(d), 2, k) = k
  BY ProjectionOf
<1>3. Cont(Heads(q, hd, nh)) = T4(hd, nq, nh, b)
  BY HeadsOf
<1>4. Measures(Heads(k, hd, nh), hd, nk, nh, b) /\ Cont(Heads(k, hd, nh)) = T4(hd, nk, nh, b)
  BY HeadsOf
<1>5. /\ AttnExt(T4(hd, nq, nh, b), T4(hd, nk, nh, b), Heads(k, hd, nh), mask) = T4(hd, nh, nq, b)
      /\ ScoresAttn(T4(hd, nq, nh, b), T4(hd, nk, nh, b), Heads(k, hd, nh), mask) = T4(hd, nh, nq, b)
  BY <1>4, AttnOf, ScoresOf
<1>6. Reshape(T4(hd, nh, nq, b), d, nq, b, 1) = q
  <2>1. hd * nh * nq * b = d * nq * b * 1
    BY DEF Times, Pos
  <2> QED BY <2>1, ReshapeOf, Small, PosInt
<1>7. FusedAttn(d).out_proj = Linear(d, d) /\ Through(Linear(d, d), q) = q
  BY ThroughOf, Small DEF FusedAttn
<1>8. q.ne[1] = d /\ q.ne[2] = nq /\ q.ne[3] = b
  BY ExtentOf
<1> HIDE DEF q, k
<1>9. Mha(fused, FusedAttn(d), q, k, k, nh, mask) = q
  BY <1>1, <1>2, <1>3, <1>4, <1>5, <1>6, <1>7, <1>8 DEF Mha
<1> QED BY <1>9 DEF q, k

\* The bias of the prompt, for every query and head, is a mask that fits.
LEMMA ExpandBiasOf ==
  ASSUME NEW n, NEW nq, NEW nh, n \in Pos, nq \in Pos, nh \in Pos
  PROVE  /\ ExpandBias(T4(n, 1, 1, 1), nq, nh, 1) = T4(n, nq, nh, 1)
         /\ MaskTakes(T4(n, nq, nh, 1), n, nq, nh)
<1>1. Reshape(T4(n, 1, 1, 1), n, 1, 1, 1) = T4(n, 1, 1, 1)
  BY ReshapeOf, Small, PosInt
<1>2. Repeat(T4(n, 1, 1, 1), T4(n, nq, nh, 1)) = T4(n, nq, nh, 1)
  BY RepeatOf, GoesAll, Small
<1>3. Cont(T4(n, nq, nh, 1)) = T4(n, nq, nh, 1)
  BY ContOf, Small
<1>4. ExpandBias(T4(n, 1, 1, 1), nq, nh, 1) = T4(n, nq, nh, 1)
  BY <1>1, <1>2, <1>3, ExtentOf DEF ExpandBias
<1>5. MaskTakes(T4(n, nq, nh, 1), n, nq, nh)
  <2> DEFINE x == T4(n, nq, nh, 1)
  <2>1. x.ne[1] = n /\ x.ne[2] = nq /\ x.ne[3] = nh /\ IsContiguous(x)
    BY ExtentOf, IsPlain, PosInt, Small
  <2>2. Goes(nh, nh) /\ nq >= nq
    BY GoesAll DEF Pos
  <2> HIDE DEF x
  <2>3. MaskTakes(x, n, nq, nh)
    BY <2>1, <2>2 DEF MaskTakes
  <2> QED BY <2>3 DEF x
<1> QED BY <1>4, <1>5

-----------------------------------------------------------------------------
\* The tokens embedded,
LEMMA TextEmbeddingOf == TextEmbedding(T1(32)) = T4(1024, 32, 1, 1)
<1> DEFINE a == T4(1024, 49408, 1, 1)
           r == T4(32, 1, 1, 1)
<1>1. TextEncoder.token_embed = a /\ TextEncoder.pos_embed = T4(1024, 32, 1, 1) /\ T1(32) = r
  BY TextSizes, T1Is, T2Is DEF TextEncoder
<1>2. 49408 \in Pos
  BY DEF Pos
<1>3. /\ Exists(a) /\ Exists(r) /\ a.ne[1] = 1024 /\ a.ne[3] = 1
      /\ r.ne[1] = 32 /\ r.ne[2] = 1 /\ r.ne[3] = 1
  BY <1>2, IsThere, ExtentOf, Small, Numbers
<1> HIDE DEF a, r
<1>4. GetRows(a, r) = T4(1024, 32, 1, 1)
  BY <1>3 DEF GetRows, Asserted
<1>5. Add(T4(1024, 32, 1, 1), T4(1024, 32, 1, 1)) = T4(1024, 32, 1, 1)
  BY AddSame, Small, Numbers
<1> QED BY <1>1, <1>4, <1>5 DEF TextEmbedding

\* attention among them,
LEMMA TextAttentionOf == TextAttention(T4(1024, 32, 3, 1), 32) = T4(1024, 32, 1, 1)
<1> DEFINE qkv == T4(1024, 32, 3, 1)
           x == T4(1024, 32, 1, 1)
           P(i) == Part(qkv, <<1024, 32, 1, 1>>, i * (1024 * 32))
           mask == T4(32, 32, 1, 1)
<1>1. qkv.nb[3] = 1024 * 32
  BY StrideOf
<1>2. \A i \in {0, 1, 2} : Reshape(P(i), 1024, 32, 1, 1) = x
  <2> SUFFICES ASSUME NEW i \in {0, 1, 2} PROVE Reshape(P(i), 1024, 32, 1, 1) = x
    OBVIOUS
  <2> DEFINE v == Cut(1024, 32, 1, 1, <<1, 1024, 1024 * 32, 1024 * 32 * 3>>)
  <2>1. Inside(<<1024, 32, 3, 1>>, <<1024, 32, 1, 1>>, i * (1024 * 32))
    BY DEF Inside
  <2>2. P(i) = v
    <3> DEFINE a == 1024
               n == 32
               k == 3
               one == 1
               at == i * (1024 * 32)
    <3>1. Inside(<<a, n, k, one>>, <<a, n, one, one>>, at) /\ a \in Pos /\ n \in Pos /\ k \in Pos /\ one \in Pos
      BY <2>1, Small, Numbers
    <3> HIDE DEF a, n, k, one, at
    <3>2. Part(T4(a, n, k, one), <<a, n, one, one>>, at) = Cut(a, n, one, one, <<1, a, a * n, a * n * k>>)
      BY <3>1, PartOf
    <3> QED BY <3>2 DEF a, n, k, one, at
  <2>3. v.ne = <<1024, 32, 1, 1>> /\ v.nb = <<1, 1024, 1024 * 32, 1024 * 32 * 3>>
    BY DEF Cut
  <2>4. Exists(v)
    BY <2>3 DEF Exists, Dims
  <2>5. IsContiguous(v)
    <3>1. Tensor(v.ne).nb = <<1, 1024, 1024 * 32, 1024 * 32 * 1>>
      BY <2>3 DEF Tensor
    <3> HIDE DEF v
    <3> QED BY <2>3, <3>1 DEF IsContiguous, Dims
  <2>6. Elements(v) = 1024 * 32 * 1 * 1
    BY <2>3 DEF Elements
  <2> HIDE DEF v
  <2>7. Reshape(v, 1024, 32, 1, 1) = x
    BY <2>4, <2>5, <2>6 DEF Reshape, Asserted
  <2> QED BY <2>2, <2>7
<1>3. /\ Measures(Heads(x, 64, 16), 64, 32, 16, 1) /\ Cont(Heads(x, 64, 16)) = T4(64, 32, 16, 1)
  <2>1. Times(1024, 64, 16)
    BY DEF Times
  <2> QED BY <2>1, HeadsOf, Numbers, Small
<1>4. MaskTakes(mask, 32, 32, 16)
  <2>1. mask.ne[1] = 32 /\ mask.ne[2] = 32 /\ mask.ne[3] = 1 /\ IsContiguous(mask)
    BY ExtentOf, IsPlain
  <2>2. Goes(1, 16)
    BY DEF Goes
  <2> HIDE DEF mask
  <2> QED BY <2>1, <2>2 DEF MaskTakes
<1> HIDE DEF x, mask, qkv
<1>5. AttnExt(T4(64, 32, 16, 1), T4(64, 32, 16, 1), Heads(x, 64, 16), mask) = T4(64, 16, 32, 1)
  BY <1>3, <1>4, AttnOf, Numbers, Small
<1>6. Reshape(T4(64, 16, 32, 1), 1024, 32, 1, 1) = T4(1024, 32, 1, 1)
  <2>1. 64 * 16 * 32 * 1 = 1024 * 32 * 1 * 1
    OBVIOUS
  <2> QED BY <2>1, ReshapeOf, Numbers, Small
<1>7. /\ Reshape(Part(qkv, <<1024, 32, 1, 1>>, 0 * (1024 * 32)), 1024, 32, 1, 1) = x
      /\ Reshape(Part(qkv, <<1024, 32, 1, 1>>, 1 * (1024 * 32)), 1024, 32, 1, 1) = x
      /\ Reshape(Part(qkv, <<1024, 32, 1, 1>>, 2 * (1024 * 32)), 1024, 32, 1, 1) = x
  BY <1>2
<1>8. 1024 \div 16 = 64 /\ T2(32, 32) = mask
  BY T2Is DEF mask
<1> HIDE DEF P
<1>9. TextAttention(qkv, 32) = T4(1024, 32, 1, 1)
  BY <1>1, <1>3, <1>5, <1>6, <1>7, <1>8, TextSizes DEF TextAttention
<1> QED BY <1>9 DEF qkv

\* a block of the text encoder,
LEMMA TextBlockOf == TextBlock(T4(1024, 32, 1, 1), TextEncoder.block) = T4(1024, 32, 1, 1)
<1> DEFINE x == T4(1024, 32, 1, 1)
           blk == TextEncoder.block
<1>1. /\ blk.attn.in_proj = Linear(1024, 3 * 1024) /\ blk.attn.out_proj = Linear(1024, 1024)
      /\ blk.ln1 = Norm(1024) /\ blk.ln2 = Norm(1024)
      /\ blk.fc1 = Linear(1024, 4 * 1024) /\ blk.fc2 = Linear(4 * 1024, 1024)
  BY TextSizes DEF TextEncoder, FusedAttn
<1>2. 4 * 1024 \in Pos
  BY DEF Pos
<1>3. LayerNorm(x, Norm(1024)) = x /\ Add(x, x) = x
  BY LayerNormOf, AddSame, Small, Numbers
<1>4. Through(Linear(1024, 3 * 1024), x) = T4(3 * 1024, 32, 1, 1)
  BY ThroughOf, Small, Numbers
<1>5. Reshape(T4(3 * 1024, 32, 1, 1), 1024, 3, 32, 1) = T4(1024, 3, 32, 1)
  <2>1. (3 * 1024) * 32 * 1 * 1 = 1024 * 3 * 32 * 1
    OBVIOUS
  <2> QED BY <2>1, ReshapeOf, Small, Numbers
<1>6. Permuted(T4(1024, 3, 32, 1), 0, 2, 1, 3) = T4(1024, 32, 3, 1)
  BY Permuted0213, Small, Numbers
<1>7. Through(Linear(1024, 1024), x) = x
  BY ThroughOf, Small, Numbers
<1> HIDE DEF blk
<1>8. FeedForward(x, Norm(1024), blk) = x
  BY <1>1, <1>2, FeedForwardOf, Small, Numbers
<1>9. x.ne[2] = 32
  BY ExtentOf
<1>10. TextAttention(T4(1024, 32, 3, 1), 32) = x
  BY TextAttentionOf
<1> HIDE DEF x
<1>11. TextBlock(x, blk) = x
  BY <1>1, <1>3, <1>4, <1>5, <1>6, <1>7, <1>8, <1>9, <1>10, TextSizes DEF TextBlock
<1> QED BY <1>11 DEF x, blk

\* and its projection (sam3_build_text_encoder_graph).
LEMMA TextFeaturesOf == TextFeatures(T4(1024, 32, 1, 1)) = T4(256, 32, 1, 1)
<1>1. TextEncoder.resizer = Linear(1024, 256) /\ TextEncoder.ln_final = Norm(1024)
  BY TextSizes DEF TextEncoder
<1>2. LayerNorm(T4(1024, 32, 1, 1), Norm(1024)) = T4(1024, 32, 1, 1)
  BY LayerNormOf, Small, Numbers
<1>3. Through(Linear(1024, 256), T4(1024, 32, 1, 1)) = T4(256, 32, 1, 1)
  BY ThroughOf, Small, Numbers
<1> QED BY <1>1, <1>2, <1>3 DEF TextFeatures

-----------------------------------------------------------------------------
(* Geometry, fusion and the decoder of a prompt in words. *)

\* The hyperparameters of the heads.
LEMMA HeadSizes ==
    /\ D = 256 /\ FFN = 2048 /\ hp.fenc_heads = 8 /\ hp.fenc_ffn_dim = 2048 /\ hp.ddec_heads = 8
    /\ hp.ddec_num_queries = 200 /\ hp.fenc_layers = 6 /\ hp.ddec_layers = 6 /\ hp.geom_layers = 3
BY DEF D, FFN, hp

\* They are extents.
LEMMA HeadNumbers ==
    /\ D \in Pos /\ FFN \in Pos /\ 8 \in Pos /\ 32 \in Pos /\ 200 \in Pos
    /\ Times(D, 32, 8)
BY HeadSizes DEF Pos, Times

\* Attention of D channels with eight heads.
LEMMA Mha8 ==
  ASSUME NEW fused \in BOOLEAN, NEW nq, NEW nk, NEW mask, nq \in Pos, nk \in Pos, MaskTakes(mask, nk, nq, 8)
  PROVE  Mha(fused, FusedAttn(D), T4(D, nq, 1, 1), T4(D, nk, 1, 1), T4(D, nk, 1, 1), 8, mask) = T4(D, nq, 1, 1)
BY MhaOf, HeadNumbers, Small

\* Attention to the prompt with the norm before it.
LEMMA CrossAttendedOf ==
  ASSUME NEW ly, NEW nq, NEW nk, NEW mask, nq \in Pos, nk \in Pos, MaskTakes(mask, nk, nq, 8),
         ly.ca = FusedAttn(D), ly.norm2 = Norm(D)
  PROVE  CrossAttended(T4(D, nq, 1, 1), T4(D, nk, 1, 1), T4(D, nk, 1, 1), ly, 8, mask) = T4(D, nq, 1, 1)
<1>1. LayerNorm(T4(D, nq, 1, 1), Norm(D)) = T4(D, nq, 1, 1) /\ Add(T4(D, nq, 1, 1), T4(D, nq, 1, 1)) = T4(D, nq, 1, 1)
  BY LayerNormOf, AddSame, HeadNumbers, Small
<1>2. Mha(TRUE, FusedAttn(D), T4(D, nq, 1, 1), T4(D, nk, 1, 1), T4(D, nk, 1, 1), 8, mask) = T4(D, nq, 1, 1)
  BY Mha8
<1> QED BY <1>1, <1>2 DEF CrossAttended

\* The weights of a layer of the fusion encoder,
LEMMA FusionLayerIs ==
    /\ FusionLayer.sa = FusedAttn(D) /\ FusionLayer.ca = FusedAttn(D)
    /\ FusionLayer.norm1 = Norm(D) /\ FusionLayer.norm2 = Norm(D) /\ FusionLayer.norm3 = Norm(D)
    /\ FusionLayer.fc1 = Linear(D, FFN) /\ FusionLayer.fc2 = Linear(FFN, D)
BY HeadSizes DEF FusionLayer

\* and of the geometry encoder.
LEMMA GeometryLayerIs == Geometry.layer = FusionLayer /\ Geometry.encode_norm = Norm(D)
BY DEF Geometry

\* A layer of the geometry encoder keeps the boxes' rows (sam3_geom_layer_forward).
LEMMA GeometryForwardOf ==
  ASSUME NEW n, NEW p, n \in Pos, p \in Pos
  PROVE  GeometryForward(T4(D, n, 1, 1), T4(D, p, 1, 1), T4(D, p, 1, 1), Geometry.layer) = T4(D, n, 1, 1)
<1> DEFINE x == T4(D, n, 1, 1)
           img == T4(D, p, 1, 1)
<1>1. LayerNorm(x, Norm(D)) = x /\ Add(x, x) = x /\ Add(img, img) = img
  BY LayerNormOf, AddSame, HeadNumbers, Small
<1>2. Mha(TRUE, FusedAttn(D), x, x, x, 8, NoMask) = x
  BY Mha8, NoMaskTakes
<1>3. CrossAttended(x, img, img, FusionLayer, 8, NoMask) = x
  BY CrossAttendedOf, FusionLayerIs, NoMaskTakes
<1>4. FeedForward(x, Norm(D), FusionLayer) = x
  BY FeedForwardOf, FusionLayerIs, HeadNumbers, Small
<1> HIDE DEF x, img
<1>5. GeometryForward(x, img, img, FusionLayer) = x
  BY <1>1, <1>2, <1>3, <1>4, FusionLayerIs DEF GeometryForward
<1> QED BY <1>5, GeometryLayerIs DEF x, img

\* A layer of the fusion encoder keeps the image's (sam3_fenc_layer_forward).
LEMMA FusionForwardOf ==
  ASSUME NEW n, NEW p, n \in Pos, p \in Pos
  PROVE  FusionForward(T4(D, p, 1, 1), T4(D, n, 1, 1), T4(D, p, 1, 1), T4(n, 1, 1, 1), FusionLayer) = T4(D, p, 1, 1)
<1> DEFINE x == T4(D, p, 1, 1)
           prompt == T4(D, n, 1, 1)
           bias == T4(n, 1, 1, 1)
           mask == T4(n, p, 8, 1)
<1>1. LayerNorm(x, Norm(D)) = x /\ Add(x, x) = x
  BY LayerNormOf, AddSame, HeadNumbers, Small
<1>2. Mha(TRUE, FusedAttn(D), x, x, x, 8, NoMask) = x
  BY Mha8, NoMaskTakes
<1>3. ExpandBias(bias, p, 8, 1) = mask /\ MaskTakes(mask, n, p, 8)
  BY ExpandBiasOf, HeadNumbers
<1> HIDE DEF mask
<1>4. CrossAttended(x, prompt, prompt, FusionLayer, 8, mask) = x
  BY <1>3, CrossAttendedOf, FusionLayerIs
<1>5. FeedForward(x, Norm(D), FusionLayer) = x
  BY FeedForwardOf, FusionLayerIs, HeadNumbers, Small
<1>6. x.ne[2] = p /\ x.ne[3] = 1
  BY ExtentOf
<1>0. hp.fenc_heads = 8
  BY HeadSizes
<1>8. /\ FusionLayer.sa = FusedAttn(D) /\ FusionLayer.norm1 = Norm(D) /\ FusionLayer.norm3 = Norm(D)
  BY FusionLayerIs
<1> HIDE DEF x, prompt, bias
<1>7. FusionForward(x, prompt, x, bias, FusionLayer) = x
  BY <1>1, <1>2, <1>3, <1>4, <1>5, <1>6, <1>0, <1>8 DEF FusionForward
<1> QED BY <1>7 DEF x, prompt, bias

-----------------------------------------------------------------------------
\* A perceptron of two layers,
LEMMA Mlp2 == \A x, l1, l2 : Mlp(x, <<l1, l2>>) = Through(l2, Through(l1, x))
<1> SUFFICES ASSUME NEW x, NEW l1, NEW l2
             PROVE  Mlp(x, <<l1, l2>>) = Through(l2, Through(l1, x))
  OBVIOUS
<1> DEFINE layers == <<l1, l2>>
           F(f) == [i \in 0 .. Len(layers) |-> IF i = 0 THEN x ELSE Through(layers[i], f[i - 1])]
           g == [i \in 0 .. 2 |-> IF i = 0 THEN x ELSE IF i = 1 THEN Through(l1, x)
                                  ELSE Through(l2, Through(l1, x))]
           after == CHOOSE f : f = F(f)
<1>1. Len(layers) = 2 /\ layers[1] = l1 /\ layers[2] = l2
  OBVIOUS
<1>2. Mlp(x, layers) = after[Len(layers)]
  BY DEF Mlp
<1> HIDE DEF layers
<1>3. g = F(g)
  BY <1>1
<1> HIDE DEF g
<1>4. after = F(after)
  BY <1>3
<1> HIDE DEF after
<1>5. after[0] = x
  BY <1>1, <1>4
<1>6. after[1] = Through(l1, x)
  BY <1>1, <1>4, <1>5
<1>7. after[2] = Through(l2, Through(l1, x))
  BY <1>1, <1>4, <1>6
<1> QED BY <1>1, <1>2, <1>7 DEF layers

\* and of three, unfolded.
LEMMA Mlp3 == \A x, l1, l2, l3 : Mlp(x, <<l1, l2, l3>>) = Through(l3, Through(l2, Through(l1, x)))
<1> SUFFICES ASSUME NEW x, NEW l1, NEW l2, NEW l3
             PROVE  Mlp(x, <<l1, l2, l3>>) = Through(l3, Through(l2, Through(l1, x)))
  OBVIOUS
<1> DEFINE layers == <<l1, l2, l3>>
           F(f) == [i \in 0 .. Len(layers) |-> IF i = 0 THEN x ELSE Through(layers[i], f[i - 1])]
           g == [i \in 0 .. 3 |-> IF i = 0 THEN x ELSE IF i = 1 THEN Through(l1, x)
                                  ELSE IF i = 2 THEN Through(l2, Through(l1, x))
                                  ELSE Through(l3, Through(l2, Through(l1, x)))]
           after == CHOOSE f : f = F(f)
<1>1. Len(layers) = 3 /\ layers[1] = l1 /\ layers[2] = l2 /\ layers[3] = l3
  OBVIOUS
<1>2. Mlp(x, layers) = after[Len(layers)]
  BY DEF Mlp
<1> HIDE DEF layers
<1>3. g = F(g)
  BY <1>1
<1> HIDE DEF g
<1>4. after = F(after)
  BY <1>3
<1> HIDE DEF after
<1>5. after[0] = x
  BY <1>1, <1>4
<1>6. after[1] = Through(l1, x)
  BY <1>1, <1>4, <1>5
<1>7. after[2] = Through(l2, Through(l1, x))
  BY <1>1, <1>4, <1>6
<1>8. after[3] = Through(l3, Through(l2, Through(l1, x)))
  BY <1>1, <1>4, <1>7
<1> QED BY <1>1, <1>2, <1>8 DEF layers

\* The first extent becomes the last layer's,
LEMMA Mlp2Of ==
  ASSUME NEW a, NEW m, NEW n, NEW b, NEW c, NEW d,
         a \in Pos, m \in Pos, n \in Pos, b \in Pos, c \in Pos, d \in Pos
  PROVE  Mlp(T4(a, b, c, d), <<Linear(a, m), Linear(m, n)>>) = T4(n, b, c, d)
<1>1. Through(Linear(a, m), T4(a, b, c, d)) = T4(m, b, c, d)
  BY ThroughOf
<1>2. Through(Linear(m, n), T4(m, b, c, d)) = T4(n, b, c, d)
  BY ThroughOf
<1> QED BY <1>1, <1>2, Mlp2

\* and with three layers.
LEMMA Mlp3Of ==
  ASSUME NEW a, NEW m, NEW k, NEW n, NEW b, NEW c, NEW d,
         a \in Pos, m \in Pos, k \in Pos, n \in Pos, b \in Pos, c \in Pos, d \in Pos
  PROVE  Mlp(T4(a, b, c, d), <<Linear(a, m), Linear(m, k), Linear(k, n)>>) = T4(n, b, c, d)
<1>1. Through(Linear(a, m), T4(a, b, c, d)) = T4(m, b, c, d)
  BY ThroughOf
<1>2. Through(Linear(m, k), T4(m, b, c, d)) = T4(k, b, c, d)
  BY ThroughOf
<1>3. Through(Linear(k, n), T4(k, b, c, d)) = T4(n, b, c, d)
  BY ThroughOf
<1> QED BY <1>1, <1>2, <1>3, Mlp3

\* A product with a tensor that need not be plain.
LEMMA MulMatRight ==
  ASSUME NEW y, NEW a, NEW n, NEW b, NEW c,
         a \in Pos, n \in Pos, b \in Pos, c \in Pos, Measures(y, a, b, c, 1)
  PROVE  MulMat(T2(a, n), y) = T4(n, b, c, 1)
<1> DEFINE x == T4(a, n, 1, 1)
<1>1. x.ne[1] = a /\ x.ne[2] = n /\ x.ne[3] = 1 /\ x.ne[4] = 1 /\ x.nb[1] = 1 /\ x.nb[2] = a /\ Exists(x)
  BY ExtentOf, StrideOf, IsThere, Small
<1>2. y.ne[1] = a /\ y.ne[2] = b /\ y.ne[3] = c /\ y.ne[4] = 1
  BY DEF Measures
<1>3. Exists(y)
  BY <1>2 DEF Exists, Dims, Pos
<1>4. c % 1 = 0 /\ 1 <= a
  BY DEF Pos
<1> HIDE DEF x
<1>5. MulMat(x, y) = T4(n, b, c, 1)
  BY <1>1, <1>2, <1>3, <1>4 DEF MulMat, Asserted
<1> QED BY <1>5, T2Is DEF x

\* One of the four numbers of each box.
LEMMA Coordinate ==
  ASSUME NEW n, NEW c, n \in Pos, c \in {0, 1, 2, 3}
  PROVE  /\ Measures(Part(T4(4, n, 1, 1), <<1, n, 1, 1>>, c), 1, n, 1, 1)
         /\ Cont(Part(T4(4, n, 1, 1), <<1, n, 1, 1>>, c)) = T4(1, n, 1, 1)
<1>1. Inside(<<4, n, 1, 1>>, <<1, n, 1, 1>>, c)
  <2>1. c + (1 + (1 - 1) * 1 + (n - 1) * 4 + (1 - 1) * (4 * n) + (1 - 1) * (4 * n * 1)) <= 4 * n * 1 * 1
    BY DEF Pos
  <2> QED BY <2>1 DEF Inside
<1>2. Part(T4(4, n, 1, 1), <<1, n, 1, 1>>, c) = Cut(1, n, 1, 1, <<1, 4, 4 * n, 4 * n * 1>>)
  BY <1>1, PartOf, Small
<1> QED BY <1>2, CutOf, CutIsThere, Small

\* The sines of four coordinates,
LEMMA SinePosEmbedOf ==
  ASSUME NEW n, n \in Pos
  PROVE  SinePosEmbed(T4(4, n, 1, 1), T2(1, 64)) = T4(512, n, 1, 1)
<1> DEFINE boxes == T4(4, n, 1, 1)
           dim_t == T2(1, 64)
           P(c) == Part(boxes, <<1, n, 1, 1>>, c)
           Angles(c) == Reshape(MulMat(dim_t, P(c)), 1, 64, n, 1)
           Coord(c) == Reshape(Concat(Angles(c), Angles(c), 0), 128, n, 1, 1)
           q == T4(128, n, 1, 1)
<1>1. \A c \in {0, 1, 2, 3} : MulMat(dim_t, P(c)) = T4(64, n, 1, 1)
  <2> SUFFICES ASSUME NEW c \in {0, 1, 2, 3} PROVE MulMat(dim_t, P(c)) = T4(64, n, 1, 1)
    OBVIOUS
  <2>1. Measures(P(c), 1, n, 1, 1)
    BY Coordinate
  <2> HIDE DEF P
  <2> QED BY <2>1, MulMatRight, Small, Numbers
<1>2. Reshape(T4(64, n, 1, 1), 1, 64, n, 1) = T4(1, 64, n, 1)
  <2>1. 64 * n * 1 * 1 = 1 * 64 * n * 1
    BY DEF Pos
  <2> QED BY <2>1, ReshapeOf, Small, Numbers, PosInt
<1>3. Concat(T4(1, 64, n, 1), T4(1, 64, n, 1), 0) = T4(2, 64, n, 1)
  <2>1. Concat(T4(1, 64, n, 1), T4(1, 64, n, 1), 0) = T4(1 + 1, 64, n, 1)
    BY Concat0, Small, Numbers
  <2>2. 1 + 1 = 2
    OBVIOUS
  <2> QED BY <2>1, <2>2
<1>4. Reshape(T4(2, 64, n, 1), 128, n, 1, 1) = q
  <2>1. 2 * 64 * n * 1 = 128 * n * 1 * 1
    BY DEF Pos
  <2> QED BY <2>1, ReshapeOf, Small, Numbers, PosInt
<1>5. \A c \in {0, 1, 2, 3} : Coord(c) = q
  BY <1>1, <1>2, <1>3, <1>4
<1>6. Concat(Concat(Concat(q, q, 0), q, 0), q, 0) = T4(512, n, 1, 1)
  <2>1. Concat(q, q, 0) = T4(128 + 128, n, 1, 1) /\ 128 + 128 = 256
    BY Concat0, Small, Numbers
  <2>2. Concat(T4(256, n, 1, 1), q, 0) = T4(256 + 128, n, 1, 1) /\ 256 + 128 = 384
    BY Concat0, Small, Numbers
  <2>3. 384 \in Pos
    BY DEF Pos
  <2>4. Concat(T4(384, n, 1, 1), q, 0) = T4(384 + 128, n, 1, 1) /\ 384 + 128 = 512
    BY <2>3, Concat0, Small, Numbers
  <2> HIDE DEF q
  <2> QED BY <2>1, <2>2, <2>4
<1>7. boxes.ne[2] = n
  BY ExtentOf
<1>8. Coord(0) = q /\ Coord(1) = q /\ Coord(2) = q /\ Coord(3) = q
  BY <1>5
<1> HIDE DEF boxes, dim_t, q
<1>9. SinePosEmbed(boxes, dim_t) = T4(512, n, 1, 1)
  BY <1>6, <1>7, <1>8 DEF SinePosEmbed
<1> QED BY <1>9 DEF boxes, dim_t

\* and the positions made of them, with the presence token's.
LEMMA QueryPosOf ==
  ASSUME NEW n, n \in Pos
  PROVE  QueryPos(T4(4, n, 1, 1), T2(1, 64)) = T4(D, 1 + n, 1, 1)
<1>1. Decoder.ref_point_head[1] = Linear(512, D) /\ Decoder.ref_point_head[2] = Linear(D, D)
  BY DEF Decoder
<1>2. Through2(T4(512, n, 1, 1), Linear(512, D), Linear(D, D)) = T4(D, n, 1, 1)
  BY Through2Of, HeadNumbers, Numbers, Small
<1>3. Reshape(T4(D, n, 1, 1), D, n, 1, 1) = T4(D, n, 1, 1)
  BY ReshapeOf, HeadNumbers, Small, PosInt
<1>4. Concat(T4(D, 1, 1, 1), T4(D, n, 1, 1), 1) = T4(D, 1 + n, 1, 1)
  BY Concat1, HeadNumbers, Small
<1>5. T4(4, n, 1, 1).ne[2] = n /\ T3(D, 1, 1) = T4(D, 1, 1, 1)
  BY ExtentOf, T3Is
<1>6. SinePosEmbed(T4(4, n, 1, 1), T2(1, 64)) = T4(512, n, 1, 1)
  BY SinePosEmbedOf
<1> QED BY <1>1, <1>2, <1>3, <1>4, <1>5, <1>6 DEF QueryPos

\* A box gives a bias to every place of the grid and every head (sam3_compute_box_rpb),
LEMMA BoxRpbOf ==
  ASSUME NEW n, NEW f, n \in Pos, f \in Pos
  PROVE  BoxRpb(T4(4, n, 1, 1), T1(f), f) = T4(f * f, 1 + n, 8, 1)
<1> DEFINE boxes == T4(4, n, 1, 1)
           coords == T1(f)
           grid == T4(f, n, 1, 1)
           full == T4(8, f, f, n)
           one == T4(1, n, 1, 1)
           flat == T4(1, f, n, 1)
           pair == T4(2, f * n, 1, 1)
           axis == T4(8, f, n, 1)
           p == f * f
<1>0. /\ 8 \in Pos /\ f * n \in Pos /\ p \in Pos
  BY HeadNumbers, PosTimes
<1>1. Cont(Part(boxes, <<1, n, 1, 1>>, 0)) = one /\ Cont(Part(boxes, <<1, n, 1, 1>>, 2)) = one
  BY Coordinate
<1>2. Add(one, one) = one
  BY AddSame, Small
<1>3. Reshape(coords, f, 1, 1, 1) = T4(f, 1, 1, 1)
  BY T1Is, ReshapeOf, Small, PosInt
<1>4. Repeat(T4(f, 1, 1, 1), grid) = grid
  BY RepeatOf, GoesAll, Small
<1>5. Reshape(Permuted(one, 1, 0, 2, 3), 1, n, 1, 1) = one
  <2>1. Permuted(one, 1, 0, 2, 3) = T4(n, 1, 1, 1)
    BY Permuted1023, Small
  <2>2. n * 1 * 1 * 1 = 1 * n * 1 * 1
    BY DEF Pos
  <2>3. Reshape(T4(n, 1, 1, 1), 1, n, 1, 1) = one
    BY <2>2, ReshapeOf, Small, PosInt
  <2> QED BY <2>1, <2>3
<1>6. Repeat(one, grid) = grid
  BY RepeatOf, GoesAll, Small
<1>7. Add(grid, grid) = grid
  BY AddSame, Small
<1>8. Reshape(grid, 1, f, n, 1) = flat
  <2>1. f * n * 1 * 1 = 1 * f * n * 1
    BY DEF Pos
  <2> QED BY <2>1, ReshapeOf, Small, PosInt
<1>9. Reshape(Concat(flat, flat, 0), 2, f * n, 1, 1) = pair
  <2>1. Concat(flat, flat, 0) = T4(1 + 1, f, n, 1) /\ 1 + 1 = 2
    BY Concat0, Small
  <2>2. 2 * f * n * 1 = 2 * (f * n) * 1 * 1
    BY DEF Pos
  <2>3. Reshape(T4(2, f, n, 1), 2, f * n, 1, 1) = pair
    BY <1>0, <2>2, ReshapeOf, Small, PosInt
  <2> QED BY <2>1, <2>3
<1>10. \A a \in {"x", "y"} : Reshape(Mlp(pair, Decoder.boxRPB[a]), 8, f, n, 1) = axis
  <2> SUFFICES ASSUME NEW a \in {"x", "y"} PROVE Reshape(Mlp(pair, Decoder.boxRPB[a]), 8, f, n, 1) = axis
    OBVIOUS
  <2>1. Decoder.boxRPB[a] = <<Linear(2, D), Linear(D, 8)>>
    BY HeadSizes DEF Decoder
  <2>2. Mlp(pair, <<Linear(2, D), Linear(D, 8)>>) = T4(8, f * n, 1, 1)
    BY <1>0, Mlp2Of, HeadNumbers, Small
  <2>3. 8 * (f * n) * 1 * 1 = 8 * f * n * 1
    BY DEF Pos
  <2>4. Reshape(T4(8, f * n, 1, 1), 8, f, n, 1) = axis
    BY <1>0, <2>3, ReshapeOf, Small, PosInt
  <2> QED BY <2>1, <2>2, <2>4
<1>11. Reshape(axis, 8, 1, f, n) = T4(8, 1, f, n) /\ Reshape(axis, 8, f, 1, n) = T4(8, f, 1, n)
  <2>1. 8 * f * n * 1 = 8 * 1 * f * n /\ 8 * f * n * 1 = 8 * f * 1 * n
    BY DEF Pos
  <2>2. Reshape(axis, 8, 1, f, n) = T4(8, 1, f, n)
    BY <1>0, <2>1, ReshapeOf, Small, PosInt
  <2>3. Reshape(axis, 8, f, 1, n) = T4(8, f, 1, n)
    BY <1>0, <2>1, ReshapeOf, Small, PosInt
  <2> QED BY <2>2, <2>3
<1>12. Repeat(T4(8, 1, f, n), full) = full /\ Repeat(T4(8, f, 1, n), full) = full
  BY <1>0, RepeatOf, GoesAll, Small
<1>13. Add(full, full) = full
  BY <1>0, AddSame
<1>14. Permuted(Reshape(full, 8, p, n, 1), 2, 0, 1, 3) = T4(p, n, 8, 1)
  <2>1. 8 * f * f * n = 8 * p * n * 1
    BY DEF Pos
  <2>2. Reshape(full, 8, p, n, 1) = T4(8, p, n, 1)
    <3> HIDE DEF p
    <3> QED BY <1>0, <2>1, ReshapeOf, Small, PosInt
  <2>3. Permuted(T4(8, p, n, 1), 2, 0, 1, 3) = T4(p, n, 8, 1)
    BY <1>0, Permuted2013, Small
  <2> QED BY <2>2, <2>3
<1>15. Concat(T4(p, 1, 8, 1), T4(p, n, 8, 1), 1) = T4(p, 1 + n, 8, 1)
  BY <1>0, Concat1, Small
<1>16. boxes.ne[2] = n /\ T2(f, n) = grid
  BY ExtentOf, T2Is
<1>17. /\ Reshape(Mlp(pair, Decoder.boxRPB["x"]), 8, f, n, 1) = axis
       /\ Reshape(Mlp(pair, Decoder.boxRPB["y"]), 8, f, n, 1) = axis
  BY <1>10
<1>18. hp.ddec_heads = 8
  BY HeadSizes
<1> HIDE DEF boxes, coords, grid, full, one, flat, pair, axis
<1>19. BoxRpb(boxes, coords, f) =
          Concat(T4(p, 1, 8, 1),
                 Permuted(Reshape(Add(Repeat(Reshape(axis, 8, 1, f, n), T4(8, f, f, n)),
                                      Repeat(Reshape(axis, 8, f, 1, n), T4(8, f, f, n))), 8, p, n, 1), 2, 0, 1, 3), 1)
  BY <1>1, <1>2, <1>3, <1>4, <1>5, <1>6, <1>7, <1>8, <1>9, <1>16, <1>17, <1>18 DEF BoxRpb
<1>20. BoxRpb(boxes, coords, f) = T4(p, 1 + n, 8, 1)
  BY <1>11, <1>12, <1>13, <1>14, <1>15, <1>19 DEF full
<1> QED BY <1>20 DEF boxes, coords

\* which is a mask that fits.
LEMMA RpbTakes ==
  ASSUME NEW p, NEW m, p \in Pos, m \in Pos
  PROVE  MaskTakes(T4(p, m, 8, 1), p, m, 8)
<1> DEFINE x == T4(p, m, 8, 1)
<1>1. x.ne[1] = p /\ x.ne[2] = m /\ x.ne[3] = 8 /\ IsContiguous(x)
  BY ExtentOf, IsPlain, PosInt, HeadNumbers, Small
<1>2. Goes(8, 8) /\ m >= m
  BY DEF Goes, Pos
<1> HIDE DEF x
<1>3. MaskTakes(x, p, m, 8)
  BY <1>1, <1>2 DEF MaskTakes
<1> QED BY <1>3 DEF x

\* The side of the grid is found back from the number of places: the search at the head
\* of the decoder goes to 128.
LEMMA GridFromSpatialOf ==
  ASSUME NEW g, g \in Pos
  PROVE  GridFromSpatial(g * g) = g
<1> DEFINE n == g * g
           sides == {h \in 1 .. n : h * h = n}
<1>0. g \in Int /\ g >= 1
  BY DEF Pos
<1>1. g <= n /\ n \in Int
  BY <1>0
<1>2. g \in sides
  BY <1>0, <1>1
<1>3. \A h \in sides : h = g
  <2> SUFFICES ASSUME NEW h \in sides PROVE h = g
    OBVIOUS
  <2>1. h \in Int /\ h >= 1 /\ h * h = g * g /\ g \in Int /\ g >= 1
    BY <1>0
  <2> HIDE DEF sides
  <2>2. CASE h < g
    BY <2>1, <2>2
  <2>3. CASE h > g
    BY <2>1, <2>3
  <2> QED BY <2>1, <2>2, <2>3
<1>4. GridFromSpatial(n) = IF sides = {} THEN 0 ELSE CHOOSE h \in sides : TRUE
  BY DEF GridFromSpatial
<1> HIDE DEF sides, n
<1>5. (CHOOSE h \in sides : TRUE) \in sides
  BY <1>2
<1>6. GridFromSpatial(n) = g
  BY <1>2, <1>3, <1>4, <1>5
<1> QED BY <1>6 DEF n

\* What a layer of D channels leaves of its rows.
LEMMA Kept ==
  ASSUME NEW n, n \in Pos
  PROVE  /\ Add(T4(D, n, 1, 1), T4(D, n, 1, 1)) = T4(D, n, 1, 1)
         /\ LayerNorm(T4(D, n, 1, 1), Norm(D)) = T4(D, n, 1, 1)
BY AddSame, LayerNormOf, HeadNumbers, Small

\* Attention of the queries with a norm after it.
LEMMA QueriedOf ==
  ASSUME NEW fused \in BOOLEAN, NEW nq, NEW nk, NEW mask, nq \in Pos, nk \in Pos, MaskTakes(mask, nk, nq, 8)
  PROVE  Queried(fused, FusedAttn(D), T4(D, nq, 1, 1), T4(D, nq, 1, 1), T4(D, nk, 1, 1), T4(D, nk, 1, 1),
                 mask, Norm(D)) = T4(D, nq, 1, 1)
<1>1. Mha(fused, FusedAttn(D), T4(D, nq, 1, 1), T4(D, nk, 1, 1), T4(D, nk, 1, 1), 8, mask) = T4(D, nq, 1, 1)
  BY Mha8
<1>2. hp.ddec_heads = 8
  BY HeadSizes
<1> QED BY <1>1, <1>2, Kept DEF Queried

\* The feed-forward block of the decoder.
LEMMA NormedFeedForwardOf ==
  ASSUME NEW blk, NEW n, n \in Pos, blk.fc1 = Linear(D, FFN), blk.fc2 = Linear(FFN, D)
  PROVE  NormedFeedForward(T4(D, n, 1, 1), blk, Norm(D)) = T4(D, n, 1, 1)
<1>1. Through2(T4(D, n, 1, 1), blk.fc1, blk.fc2) = T4(D, n, 1, 1)
  BY Through2Of, HeadNumbers, Small
<1> QED BY <1>1, Kept DEF NormedFeedForward

\* The weights of a layer of the decoder.
LEMMA DecoderLayerIs ==
    /\ DecoderLayer.sa = FusedAttn(D) /\ DecoderLayer.ca = FusedAttn(D) /\ DecoderLayer.ca_text = FusedAttn(D)
    /\ DecoderLayer.norm1 = Norm(D) /\ DecoderLayer.norm2 = Norm(D)
    /\ DecoderLayer.norm3 = Norm(D) /\ DecoderLayer.norm4 = Norm(D)
    /\ DecoderLayer.fc1 = Linear(D, FFN) /\ DecoderLayer.fc2 = Linear(FFN, D)
BY DEF DecoderLayer

\* A layer keeps the rows of the queries and the presence token
\* (sam3_ddec_layer_forward).
LEMMA DecoderForwardOf ==
  ASSUME NEW nq, NEW n, NEW p, nq \in Pos, n \in Pos, p \in Pos
  PROVE  DecoderForward(T4(D, nq, 1, 1), T4(D, nq, 1, 1), T4(D, p, 1, 1), T4(D, p, 1, 1), T4(D, n, 1, 1),
                        T4(n, 1, 1, 1), T4(p, nq, 8, 1), DecoderLayer) = T4(D, nq, 1, 1)
<1> DEFINE x == T4(D, nq, 1, 1)
           enc == T4(D, p, 1, 1)
           text == T4(D, n, 1, 1)
           bias == T4(n, 1, 1, 1)
           rpb == T4(p, nq, 8, 1)
           mask == T4(n, nq, 8, 1)
<1>1. Add(x, x) = x /\ Add(enc, enc) = enc
  BY Kept
<1>2. Queried(TRUE, FusedAttn(D), x, x, x, x, NoMask, Norm(D)) = x
  BY QueriedOf, NoMaskTakes
<1>3. ExpandBias(bias, nq, 8, 1) = mask /\ MaskTakes(mask, n, nq, 8)
  BY ExpandBiasOf, HeadNumbers
<1>4. MaskTakes(rpb, p, nq, 8)
  BY RpbTakes
<1> HIDE DEF mask, rpb
<1>5. Queried(TRUE, FusedAttn(D), x, x, text, text, mask, Norm(D)) = x
  BY <1>3, QueriedOf
<1>6. Queried(FALSE, FusedAttn(D), x, x, enc, enc, rpb, Norm(D)) = x
  BY <1>4, QueriedOf
<1>7. NormedFeedForward(x, DecoderLayer, Norm(D)) = x
  BY NormedFeedForwardOf, DecoderLayerIs
<1>8. x.ne[2] = nq /\ x.ne[3] = 1
  BY ExtentOf
<1>9. hp.ddec_heads = 8
  BY HeadSizes
<1> HIDE DEF x, enc, text, bias
<1>10. DecoderForward(x, x, enc, enc, text, bias, rpb, DecoderLayer) = x
  BY <1>1, <1>2, <1>3, <1>5, <1>6, <1>7, <1>8, <1>9, DecoderLayerIs DEF DecoderForward
<1> QED BY <1>10 DEF x, enc, text, bias, rpb

\* A run of rows of D channels.
LEMMA RowsOf ==
  ASSUME NEW d, NEW n, NEW m, NEW i, d \in Pos, n \in Pos, m \in Pos, i \in Nat, i + m <= n
  PROVE  Cont(Part(T4(d, n, 1, 1), <<d, m, 1, 1>>, i * d)) = T4(d, m, 1, 1)
<1>1. Inside(<<d, n, 1, 1>>, <<d, m, 1, 1>>, i * d)
  <2>1. i * d \in Nat
    BY DEF Pos
  <2>2. (i + m) * d <= n * d
    BY DEF Pos
  <2>3. i * d + m * d <= n * d
    BY <2>2 DEF Pos
  <2>4. 1 + (d - 1) * 1 + (m - 1) * d + (1 - 1) * (d * n) + (1 - 1) * (d * n * 1) = m * d
    BY DEF Pos
  <2>5. d * n * 1 * 1 = n * d
    BY DEF Pos
  <2>6. i * d + (1 + (d - 1) * 1 + (m - 1) * d + (1 - 1) * (d * n) + (1 - 1) * (d * n * 1)) <= d * n * 1 * 1
    BY <2>3, <2>4, <2>5
  <2> QED BY <2>1, <2>6 DEF Inside
<1>2. Part(T4(d, n, 1, 1), <<d, m, 1, 1>>, i * d) = Cut(d, m, 1, 1, <<1, d, d * n, d * n * 1>>)
  BY <1>1, PartOf, Small
<1> QED BY <1>2, CutIsThere, Small

\* The queries without the presence token,
LEMMA ObjectQueriesOf == ObjectQueries(T4(D, 201, 1, 1)) = T4(D, 200, 1, 1)
<1> DEFINE x == T4(D, 201, 1, 1)
           i == 1
           m == 200
           n == 201
<1>1. x.nb[2] = D
  BY StrideOf
<1>2. n \in Pos /\ m \in Pos /\ i \in Nat /\ i + m <= n /\ i * D = D
  BY HeadNumbers DEF Pos
<1> HIDE DEF i, m, n
<1>3. Cont(Part(T4(D, n, 1, 1), <<D, m, 1, 1>>, i * D)) = T4(D, m, 1, 1)
  BY <1>2, RowsOf, HeadNumbers
<1> QED BY <1>1, <1>2, <1>3, HeadSizes DEF ObjectQueries, m, n

\* and that token.
LEMMA PresenceTokenOf == PresenceToken(T4(D, 201, 1, 1)) = T4(D, 1, 1, 1)
<1> DEFINE i == 0
           m == 1
           n == 201
<1>1. n \in Pos /\ m \in Pos /\ i \in Nat /\ i + m <= n /\ i * D = 0
  BY HeadNumbers DEF Pos
<1> HIDE DEF i, m, n
<1>2. Cont(Part(T4(D, n, 1, 1), <<D, m, 1, 1>>, i * D)) = T4(D, m, 1, 1)
  BY <1>1, RowsOf, HeadNumbers
<1> QED BY <1>1, <1>2 DEF PresenceToken, m, n

\* The weights of the decoder.
LEMMA DecoderIs ==
    /\ Decoder.norm = Norm(D) /\ Decoder.presence_token_out_norm = Norm(D)
    /\ Decoder.bbox_embed = <<Linear(D, D), Linear(D, D), Linear(D, 4)>>
    /\ Decoder.presence_token_head = <<Linear(D, D), Linear(D, D), Linear(D, 1)>>
    /\ Decoder.query_embed = T2(D, 200) /\ Decoder.presence_token = T2(D, 1)
    /\ Decoder.reference_points = T2(4, 200)
BY HeadSizes DEF Decoder

\* The boxes refined are as many as before.
LEMMA RefinedBoxesOf == RefinedBoxes(T4(D, 201, 1, 1), T4(4, 200, 1, 1), Decoder) = T4(4, 200, 1, 1)
<1>1. LayerNorm(T4(D, 200, 1, 1), Norm(D)) = T4(D, 200, 1, 1)
  BY Kept, HeadNumbers
<1>2. Mlp(T4(D, 200, 1, 1), <<Linear(D, D), Linear(D, D), Linear(D, 4)>>) = T4(4, 200, 1, 1)
  BY Mlp3Of, HeadNumbers, Small
<1>3. Add(T4(4, 200, 1, 1), T4(4, 200, 1, 1)) = T4(4, 200, 1, 1)
  BY AddSame, HeadNumbers, Small
<1> QED BY <1>1, <1>2, <1>3, ObjectQueriesOf, DecoderIs DEF RefinedBoxes

\* The boxes that the decoder starts from,
LEMMA StartingBoxesOf == Reshape(Decoder.reference_points, 4, NQ, 1, 1) = T4(4, 200, 1, 1)
<1>1. Reshape(T4(4, 200, 1, 1), 4, 200, 1, 1) = T4(4, 200, 1, 1)
  BY ReshapeOf, HeadNumbers, Small, PosInt
<1> QED BY <1>1, T2Is, DecoderIs, HeadSizes DEF NQ

\* and its queries.
LEMMA DecoderQueriesOf == DecoderQueries = T4(D, 201, 1, 1)
<1>1. Reshape(T2(D, 1), D, 1, 1, 1) = T4(D, 1, 1, 1)
  BY T2Is, ReshapeOf, HeadNumbers, Small, PosInt
<1>2. Reshape(T2(D, 200), D, 200, 1, 1) = T4(D, 200, 1, 1)
  BY T2Is, ReshapeOf, HeadNumbers, Small, PosInt
<1>3. Concat(T4(D, 1, 1, 1), T4(D, 200, 1, 1), 1) = T4(D, 1 + 200, 1, 1) /\ 1 + 200 = 201
  BY Concat1, HeadNumbers, Small
<1> QED BY <1>1, <1>2, <1>3, DecoderIs, HeadSizes DEF DecoderQueries

\* ggml_sum_rows leaves one element of a row.
LEMMA SumRowsOf ==
  ASSUME NEW a, NEW b, NEW c, NEW d, a \in Pos, b \in Pos, c \in Pos, d \in Pos
  PROVE  SumRows(T4(a, b, c, d)) = T4(1, b, c, d)
BY IsThere, ExtentOf DEF SumRows, Asserted

\* A score for each query (sam3_dot_product_scoring).
LEMMA DotProductScoringOf ==
  ASSUME NEW n, n \in Pos
  PROVE  DotProductScoring(T4(D, 200, 1, 1), T4(D, n, 1, 1), T4(n, 1, 1, 1), Scoring) = T4(200, 1, 1, 1)
<1> DEFINE q == T4(D, 200, 1, 1)
           text == T4(D, n, 1, 1)
           valid == T4(n, 1, 1, 1)
<1>1. /\ Scoring.prompt_mlp = <<Linear(D, FFN), Linear(FFN, D)>> /\ Scoring.out_norm = Norm(D)
      /\ Scoring.prompt_proj = Linear(D, D) /\ Scoring.hs_proj = Linear(D, D)
  BY DEF Scoring
<1>2. Mlp(text, <<Linear(D, FFN), Linear(FFN, D)>>) = text
  BY Mlp2Of, HeadNumbers, Small
<1>3. Add(text, text) = text /\ LayerNorm(text, Norm(D)) = text
  BY Kept
<1>4. Permuted(text, 1, 0, 2, 3) = T4(n, D, 1, 1)
  BY Permuted1023, HeadNumbers, Small
<1>5. Add(T4(n, D, 1, 1), valid) = T4(n, D, 1, 1)
  BY AddOf, GoesAll, HeadNumbers, Small
<1>6. SumRows(T4(n, D, 1, 1)) = T4(1, D, 1, 1)
  BY SumRowsOf, HeadNumbers, Small
<1>7. Permuted(T4(1, D, 1, 1), 1, 0, 2, 3) = T4(D, 1, 1, 1)
  BY Permuted1023, HeadNumbers, Small
<1>8. Through(Linear(D, D), T4(D, 1, 1, 1)) = T4(D, 1, 1, 1) /\ Through(Linear(D, D), q) = q
  BY ThroughOf, HeadNumbers, Small
<1>9. MulMat(T4(D, 1, 1, 1), q) = T4(1, 200, 1, 1)
  BY T2Is, MulMatOf, HeadNumbers, Small
<1>10. Reshape(T4(1, 200, 1, 1), 200, 1, 1, 1) = T4(200, 1, 1, 1)
  BY ReshapeOf, HeadNumbers, Small, PosInt
<1>11. q.ne[2] = 200 /\ text.ne[3] = 1
  BY ExtentOf
<1> HIDE DEF q, text, valid
<1>12. DotProductScoring(q, text, valid, Scoring) = T4(200, 1, 1, 1)
  BY <1>1, <1>2, <1>3, <1>4, <1>5, <1>6, <1>7, <1>8, <1>9, <1>10, <1>11 DEF DotProductScoring
<1> QED BY <1>12 DEF q, text, valid

\* What comes out of the decoder.
LEMMA DecoderResultOf ==
  ASSUME NEW n, n \in Pos
  PROVE  DecoderResult(T4(D, 201, 1, 1), T4(4, 200, 1, 1), T4(D, n, 1, 1), T4(n, 1, 1, 1), Decoder)
           = [queries |-> T4(D, 201, 1, 1), pred_boxes |-> T4(4, 200, 1, 1),
              class_scores |-> T4(200, 1, 1, 1), presence_score |-> T4(1, 1, 1, 1)]
<1> DEFINE q == T4(D, 200, 1, 1)
           token == T4(D, 1, 1, 1)
<1>1. LayerNorm(q, Norm(D)) = q /\ LayerNorm(token, Norm(D)) = token
  BY Kept, HeadNumbers, Small
<1>2. Concat(token, q, 1) = T4(D, 1 + 200, 1, 1) /\ 1 + 200 = 201
  BY Concat1, HeadNumbers, Small
<1>3. Mlp(token, <<Linear(D, D), Linear(D, D), Linear(D, 1)>>) = T4(1, 1, 1, 1)
  BY Mlp3Of, HeadNumbers, Small
<1>4. Reshape(T4(1, 1, 1, 1), 1, 1, 1, 1) = T4(1, 1, 1, 1)
  BY ReshapeOf, Small, PosInt
<1>5. DotProductScoring(q, T4(D, n, 1, 1), T4(n, 1, 1, 1), Scoring) = T4(200, 1, 1, 1)
  BY DotProductScoringOf
<1>6. ObjectQueries(T4(D, 201, 1, 1)) = q /\ PresenceToken(T4(D, 201, 1, 1)) = token
  BY ObjectQueriesOf, PresenceTokenOf
<1> HIDE DEF q, token
<1> QED BY <1>1, <1>2, <1>3, <1>4, <1>5, <1>6, DecoderIs DEF DecoderResult, Results

-----------------------------------------------------------------------------
(* The mask head and the mask decoder. *)

\* A level of the features merged with the next finer one,
LEMMA MergeLevelOf ==
  ASSUME NEW a, NEW b, a \in Pos, b \in Pos, Times(b, a, 2)
  PROVE  MergeLevel(T4(a, a, D, 1), T4(D, b, b, 1), SegHead) = T4(b, b, D, 1)
<1>1. SegHead.up_conv = Filter(3, D, D) /\ SegHead.up_norm.w = T1(D) /\ SegHead.up_norm.b = T1(D)
  BY DEF SegHead, Norm
<1>2. ToPlanes(T4(D, b, b, 1)) = T4(b, b, D, 1)
  BY ToPlanesOf, HeadNumbers, Small
<1>3. Upscale(T4(a, a, D, 1), 2) = T4(b, b, D, 1)
  BY UpscaleOf, HeadNumbers, Small DEF Times
<1>4. Add(T4(b, b, D, 1), T4(b, b, D, 1)) = T4(b, b, D, 1)
  BY AddSame, HeadNumbers, Small
<1>5. AddBias(ConvSame(Filter(3, D, D).w, T4(b, b, D, 1)), Filter(3, D, D).b) = T4(b, b, D, 1)
  BY Filtered3, HeadNumbers, Small
<1>6. AddBias(T4(b, b, D, 1), T1(D)) = T4(b, b, D, 1)
  BY AddBiasOf, HeadNumbers, Small
<1> QED BY <1>1, <1>2, <1>3, <1>4, <1>5, <1>6 DEF MergeLevel

\* all of them merged,
LEMMA PixelDecoderOf ==
  ASSUME NEW g, NEW g2, NEW g4, g \in Pos, g2 \in Pos, g4 \in Pos, Times(g2, g, 2), Times(g4, g2, 2)
  PROVE  PixelDecoder(T4(D, g4, g4, 1), T4(D, g2, g2, 1), T4(D, g, g, 1), SegHead) = T4(D, g4, g4, 1)
<1>1. ToPlanes(T4(D, g, g, 1)) = T4(g, g, D, 1)
  BY ToPlanesOf, HeadNumbers, Small
<1>2. MergeLevel(T4(g, g, D, 1), T4(D, g2, g2, 1), SegHead) = T4(g2, g2, D, 1)
  BY MergeLevelOf
<1>3. MergeLevel(T4(g2, g2, D, 1), T4(D, g4, g4, 1), SegHead) = T4(g4, g4, D, 1)
  BY MergeLevelOf
<1>4. FromPlanes(T4(g4, g4, D, 1)) = T4(D, g4, g4, 1)
  BY FromPlanesOf, HeadNumbers, Small
<1> QED BY <1>1, <1>2, <1>3, <1>4 DEF PixelDecoder

\* a mask for each query,
LEMMA MasksOfOf ==
  ASSUME NEW s, NEW n, s \in Pos, n \in Pos
  PROVE  MasksOf(T4(D, s, s, 1), T4(D, n, 1, 1), SegHead) = T4(s * s, n, 1, 1)
<1> DEFINE pix == T4(D, s, s, 1)
           q == T4(D, n, 1, 1)
           p == s * s
<1>0. p \in Pos
  BY PosTimes
<1>1. /\ SegHead.instance_seg_head = Filter(1, D, D)
      /\ SegHead.mask_embed = <<Linear(D, D), Linear(D, D), Linear(D, D)>>
  BY DEF SegHead
<1>2. ToPlanes(pix) = T4(s, s, D, 1)
  BY ToPlanesOf, HeadNumbers, Small
<1>3. AddBias(ConvPatches(Filter(1, D, D).w, T4(s, s, D, 1)), Filter(1, D, D).b) = T4(s, s, D, 1)
  BY Filtered1, HeadNumbers, Small
<1>4. FromPlanes(T4(s, s, D, 1)) = pix
  BY FromPlanesOf, HeadNumbers, Small
<1>5. Reshape(pix, D, p, 1, 1) = T4(D, p, 1, 1)
  <2>1. D * s * s * 1 = D * p * 1 * 1
    BY HeadNumbers DEF Pos
  <2> HIDE DEF p
  <2> QED BY <1>0, <2>1, ReshapeOf, HeadNumbers, Small, PosInt
<1>6. Mlp(q, <<Linear(D, D), Linear(D, D), Linear(D, D)>>) = q
  BY Mlp3Of, HeadNumbers, Small
<1>7. MulMat(T4(D, p, 1, 1), q) = T4(p, n, 1, 1)
  BY <1>0, T2Is, MulMatOf, HeadNumbers, Small
<1>8. pix.ne[2] = s /\ pix.ne[3] = s /\ pix.ne[4] = 1
  BY ExtentOf
<1> HIDE DEF pix, q
<1>9. MasksOf(pix, q, SegHead) = T4(p, n, 1, 1)
  BY <1>1, <1>2, <1>3, <1>4, <1>5, <1>6, <1>7, <1>8 DEF MasksOf
<1> QED BY <1>9 DEF pix, q, p

\* and the head that does all that (sam3_build_seg_head_graph).
LEMMA SegHeadMasksOf ==
  ASSUME NEW g, NEW g2, NEW g4, NEW n, g \in Pos, g2 \in Pos, g4 \in Pos, n \in Pos,
         Times(g2, g, 2), Times(g4, g2, 2)
  PROVE  SegHeadMasks(T4(D, g * g, 1, 1), T4(D, g4, g4, 1), T4(D, g2, g2, 1), T4(D, 200, 1, 1),
                      T4(D, n, 1, 1), T4(n, 1, 1, 1), SegHead) = T4(g4 * g4, 200, 1, 1)
<1> DEFINE p == g * g
           enc == T4(D, p, 1, 1)
           text == T4(D, n, 1, 1)
           bias == T4(n, 1, 1, 1)
           mask == T4(n, p, 8, 1)
           f0 == T4(D, g4, g4, 1)
           f1 == T4(D, g2, g2, 1)
           f2 == T4(D, g, g, 1)
           q == T4(D, 200, 1, 1)
<1>0. p \in Pos
  BY PosTimes
<1>1. GridFromSpatial(p) = g
  BY GridFromSpatialOf
<1>2. Reshape(enc, D, g, g, 1) = f2
  <2>1. D * p * 1 * 1 = D * g * g * 1
    BY HeadNumbers DEF Pos
  <2> HIDE DEF p
  <2> QED BY <1>0, <2>1, ReshapeOf, HeadNumbers, Small, PosInt
<1> HIDE DEF p
<1>3. ExpandBias(bias, p, 8, 1) = mask /\ MaskTakes(mask, n, p, 8)
  BY <1>0, ExpandBiasOf, HeadNumbers
<1> HIDE DEF mask
<1>4. Mha(TRUE, FusedAttn(D), enc, text, text, 8, mask) = enc
  BY <1>0, <1>3, Mha8
<1>5. LayerNorm(enc, Norm(D)) = enc /\ Add(enc, enc) = enc
  BY <1>0, Kept
<1>6. PixelDecoder(f0, f1, f2, SegHead) = f0
  BY PixelDecoderOf
<1>7. MasksOf(f0, q, SegHead) = T4(g4 * g4, 200, 1, 1)
  BY MasksOfOf, HeadNumbers
<1>8. SegHead.ca_prompt = FusedAttn(D) /\ SegHead.cross_attn_norm = Norm(D)
  BY DEF SegHead
<1>9. enc.ne[2] = p /\ enc.ne[3] = 1
  BY ExtentOf
<1> HIDE DEF enc, text, bias, f0, f1, f2, q
<1>10. SegHeadMasks(enc, f0, f1, q, text, bias, SegHead) = T4(g4 * g4, 200, 1, 1)
  BY <1>1, <1>2, <1>3, <1>4, <1>5, <1>6, <1>7, <1>8, <1>9 DEF SegHeadMasks
<1> QED BY <1>10 DEF enc, text, bias, f0, f1, q, p

-----------------------------------------------------------------------------
\* The weights of an attention of the mask decoder.
LEMMA SamAttnIs == \A a, b : /\ SamAttn(a, b).q = Linear(a, b) /\ SamAttn(a, b).k = Linear(a, b)
                             /\ SamAttn(a, b).v = Linear(a, b) /\ SamAttn(a, b).out = Linear(b, a)
BY DEF SamAttn

\* Attention inside the mask decoder (sam3_sam_attention),
LEMMA SamAttentionOf ==
  ASSUME NEW o, NEW hd, NEW nq, NEW nk, o \in Pos, hd \in Pos, nq \in Pos, nk \in Pos, Times(o, hd, 8)
  PROVE  SamAttention(T4(D, nq, 1, 1), T4(D, nk, 1, 1), T4(D, nk, 1, 1), SamAttn(D, o)) = T4(D, nq, 1, 1)
<1> DEFINE q == T4(D, nq, 1, 1)
           k == T4(D, nk, 1, 1)
           kk == T4(o, nk, 1, 1)
           attn == SamAttn(D, o)
<1>1. /\ attn.q = Linear(D, o) /\ attn.k = Linear(D, o) /\ attn.v = Linear(D, o) /\ attn.out = Linear(o, D)
  BY SamAttnIs
<1>2. attn.q.w.ne[2] = o
  BY <1>1, T2Is, ExtentOf DEF Linear
<1>3. o \div 8 = hd
  BY DEF Times, Pos
<1>4. Through(Linear(D, o), q) = T4(o, nq, 1, 1) /\ Through(Linear(D, o), k) = kk
  BY ThroughOf, HeadNumbers, Small
<1>5. Cont(Heads(T4(o, nq, 1, 1), hd, 8)) = T4(hd, nq, 8, 1)
  BY HeadsOf, HeadNumbers, Small
<1>6. Cont(Heads(kk, hd, 8)) = T4(hd, nk, 8, 1)
  BY HeadsOf, HeadNumbers, Small
<1> HIDE DEF kk
<1>7. AttnExt(T4(hd, nq, 8, 1), T4(hd, nk, 8, 1), T4(hd, nk, 8, 1), NoMask) = T4(hd, 8, nq, 1)
  BY MeasuresOf, AttnOf, NoMaskTakes, HeadNumbers, Small
<1>8. Reshape(T4(hd, 8, nq, 1), o, nq, 1, 1) = T4(o, nq, 1, 1)
  <2>1. hd * 8 * nq * 1 = o * nq * 1 * 1
    BY DEF Times, Pos
  <2> QED BY <2>1, ReshapeOf, HeadNumbers, Small, PosInt
<1>9. Through(Linear(o, D), T4(o, nq, 1, 1)) = q
  BY ThroughOf, HeadNumbers, Small
<1>10. q.ne[2] = nq /\ q.ne[3] = 1
  BY ExtentOf
<1> HIDE DEF q, k, attn
<1>11. SamAttention(q, k, k, attn) = q
  BY <1>1, <1>2, <1>3, <1>4, <1>5, <1>6, <1>7, <1>8, <1>9, <1>10 DEF SamAttention
<1> QED BY <1>11 DEF q, k, attn

\* of both of its widths.
LEMMA SamAttentions ==
  ASSUME NEW nq, NEW nk, nq \in Pos, nk \in Pos
  PROVE  /\ SamAttention(T4(D, nq, 1, 1), T4(D, nk, 1, 1), T4(D, nk, 1, 1), SamAttn(D, D)) = T4(D, nq, 1, 1)
         /\ SamAttention(T4(D, nq, 1, 1), T4(D, nk, 1, 1), T4(D, nk, 1, 1), SamAttn(D, 128)) = T4(D, nq, 1, 1)
<1>1. Times(128, 16, 8)
  BY DEF Times
<1> QED BY <1>1, SamAttentionOf, HeadNumbers, Numbers

\* The weights of a two-way block.
LEMMA TwoWayBlockIs ==
    /\ TwoWayBlock.self_attn = SamAttn(D, D) /\ TwoWayBlock.ca_tok2img = SamAttn(D, 128)
    /\ TwoWayBlock.ca_img2tok = SamAttn(D, 128)
    /\ TwoWayBlock.norm1 = Norm(D) /\ TwoWayBlock.norm2 = Norm(D)
    /\ TwoWayBlock.norm3 = Norm(D) /\ TwoWayBlock.norm4 = Norm(D)
    /\ TwoWayBlock.fc1 = Linear(D, FFN) /\ TwoWayBlock.fc2 = Linear(FFN, D)
BY DEF TwoWayBlock

\* Attention across, with the norm after it.
LEMMA CrossedOf ==
  ASSUME NEW n, NEW p, n \in Pos, p \in Pos
  PROVE  Crossed(T4(D, n, 1, 1), T4(D, n, 1, 1), T4(D, p, 1, 1), T4(D, p, 1, 1), SamAttn(D, 128), Norm(D))
           = T4(D, n, 1, 1)
BY Kept, SamAttentions DEF Crossed

\* A two-way block keeps the rows of the tokens and of the places.
LEMMA TwoWayForwardOf ==
  ASSUME NEW s, NEW first \in BOOLEAN, NEW n, NEW p, n \in Pos, p \in Pos,
         s.queries = T4(D, n, 1, 1), s.keys = T4(D, p, 1, 1)
  PROVE  TwoWayForward(s, T4(D, n, 1, 1), T4(D, p, 1, 1), TwoWayBlock, first)
           = [queries |-> T4(D, n, 1, 1), keys |-> T4(D, p, 1, 1)]
<1> DEFINE q == T4(D, n, 1, 1)
           k == T4(D, p, 1, 1)
<1>1. SelfAttended(q, q, TwoWayBlock, first) = q
  <2>1. Add(q, q) = q /\ LayerNorm(q, Norm(D)) = q
    BY Kept
  <2>2. SamAttention(q, q, q, SamAttn(D, D)) = q
    BY SamAttentions
  <2> HIDE DEF q
  <2> QED BY <2>1, <2>2, TwoWayBlockIs DEF SelfAttended
<1>2. Crossed(q, q, k, k, SamAttn(D, 128), Norm(D)) = q
  BY CrossedOf
<1>3. Crossed(k, k, q, q, SamAttn(D, 128), Norm(D)) = k
  BY CrossedOf
<1>4. NormedFeedForward(q, TwoWayBlock, Norm(D)) = q
  BY NormedFeedForwardOf, TwoWayBlockIs
<1> HIDE DEF q, k
<1>5. s.queries = q /\ s.keys = k
  BY DEF q, k
<1>6. TwoWayForward(s, q, k, TwoWayBlock, first) = [queries |-> q, keys |-> k]
  BY <1>1, <1>2, <1>3, <1>4, <1>5, TwoWayBlockIs DEF TwoWayForward, Both
<1> QED BY <1>6 DEF q, k

\* The weights of the mask decoder.
LEMMA MaskDecoderIs ==
    /\ MaskDecoder.iou_token = T2(D, 1) /\ MaskDecoder.mask_tokens = T2(D, 4)
    /\ MaskDecoder.obj_score_token = T2(D, 1)
    /\ MaskDecoder.final_attn = SamAttn(D, 128) /\ MaskDecoder.final_norm = Norm(D)
    /\ MaskDecoder.up1 = Deconv(64, D) /\ MaskDecoder.up1_norm = Norm(64) /\ MaskDecoder.up2 = Deconv(32, 64)
    /\ MaskDecoder.conv_s0 = Filter(1, D, 32) /\ MaskDecoder.conv_s1 = Filter(1, D, 64)
    /\ MaskDecoder.hyper = <<Linear(D, D), Linear(D, D), Linear(D, 32)>>
    /\ MaskDecoder.iou_head = <<Linear(D, D), Linear(D, D), Linear(D, 4)>>
    /\ MaskDecoder.obj_head = <<Linear(D, D), Linear(D, D), Linear(D, 1)>>
BY DEF MaskDecoder

\* How many tokens the decoder puts before those of the prompt.
OwnTokens(scored) == IF scored THEN 6 ELSE 5

\* It has some.
LEMMA OwnTokensAre == \A scored \in BOOLEAN : OwnTokens(scored) \in Pos
BY DEF OwnTokens, Pos

\* They are put before the prompt's.
LEMMA DecTokensOf ==
  ASSUME NEW scored \in BOOLEAN, NEW n, n \in Pos
  PROVE  DecTokens(T4(D, n, 1, 1), scored, MaskDecoder) = T4(D, OwnTokens(scored) + n, 1, 1)
<1> DEFINE one == T4(D, 1, 1, 1)
           four == T4(D, 4, 1, 1)
           k == OwnTokens(scored)
           special == IF scored THEN T4(D, 2, 1, 1) ELSE one
           out == T4(D, k, 1, 1)
<1>0. k \in Pos
  BY OwnTokensAre
<1>1. Concat(one, one, 1) = T4(D, 1 + 1, 1, 1) /\ 1 + 1 = 2
  BY Concat1, HeadNumbers, Small
<1>2. Reshape(one, D, 1, 1, 1) = one
  BY ReshapeOf, HeadNumbers, Small, PosInt
<1>3. Concat(special, four, 1) = out
  <2>1. Concat(T4(D, 2, 1, 1), four, 1) = T4(D, 2 + 4, 1, 1) /\ 2 + 4 = 6
    BY Concat1, HeadNumbers, Small
  <2>2. Concat(one, four, 1) = T4(D, 1 + 4, 1, 1) /\ 1 + 4 = 5
    BY Concat1, HeadNumbers, Small
  <2> HIDE DEF four, one
  <2>3. CASE scored
    BY <2>1, <2>3 DEF OwnTokens
  <2>4. CASE ~scored
    BY <2>2, <2>4 DEF OwnTokens
  <2> QED BY <2>3, <2>4
<1> HIDE DEF k
<1>4. Reshape(out, D, k, 1, 1) = out
  BY <1>0, ReshapeOf, HeadNumbers, Small, PosInt
<1>5. Concat(out, T4(D, n, 1, 1), 1) = T4(D, k + n, 1, 1)
  BY <1>0, Concat1, HeadNumbers, Small
<1>6. T2(D, 1) = one /\ T2(D, 4) = four
  BY T2Is
<1>7. (IF scored THEN 6 ELSE 5) = k
  BY DEF k, OwnTokens
<1> HIDE DEF one, four, out
<1>8. DecTokens(T4(D, n, 1, 1), scored, MaskDecoder) = T4(D, k + n, 1, 1)
  BY <1>1, <1>2, <1>3, <1>4, <1>5, <1>6, <1>7, MaskDecoderIs DEF DecTokens, one
<1> QED BY <1>8 DEF k

\* What the two-way blocks start from.
LEMMA DecStartOf ==
  ASSUME NEW scored \in BOOLEAN, NEW n, NEW g, n \in Pos, g \in Pos
  PROVE  DecStart(T4(D, g, g, 1), T4(D, g, g, 1), T4(D, n, 1, 1), scored)
           = [queries |-> T4(D, OwnTokens(scored) + n, 1, 1), keys |-> T4(D, g * g, 1, 1)]
<1> DEFINE x == T4(D, g, g, 1)
           p == g * g
<1>0. p \in Pos
  BY PosTimes
<1>1. Add(x, x) = x
  BY AddSame, HeadNumbers, Small
<1>2. Reshape(x, D, p, 1, 1) = T4(D, p, 1, 1)
  <2>1. D * g * g * 1 = D * p * 1 * 1
    BY HeadNumbers DEF Pos
  <2> HIDE DEF p
  <2> QED BY <1>0, <2>1, ReshapeOf, HeadNumbers, Small, PosInt
<1>3. x.ne[2] = g
  BY ExtentOf
<1> HIDE DEF x
<1>4. DecStart(x, x, T4(D, n, 1, 1), scored)
           = [queries |-> T4(D, OwnTokens(scored) + n, 1, 1), keys |-> T4(D, p, 1, 1)]
  BY <1>1, <1>2, <1>3, DecTokensOf DEF DecStart
<1> QED BY <1>4 DEF x, p

\* A map doubled and added to the finer features,
LEMMA UpscaledWithOf ==
  ASSUME NEW a, NEW b, NEW ci, NEW co, a \in Pos, b \in Pos, ci \in Pos, co \in Pos, Times(b, a, 2)
  PROVE  UpscaledWith(T4(a, a, ci, 1), T4(D, b, b, 1), Deconv(co, ci), Filter(1, D, co)) = T4(b, b, co, 1)
<1>0. 2 * a = b
  BY DEF Times, Pos
<1>1. AddBias(ConvTransposeSk(Deconv(co, ci).w, T4(a, a, ci, 1), 2), Deconv(co, ci).b) = T4(2 * a, 2 * a, co, 1)
  BY UpOf
<1>2. ToPlanes(T4(D, b, b, 1)) = T4(b, b, D, 1)
  BY ToPlanesOf, HeadNumbers, Small
<1>3. AddBias(ConvPatches(Filter(1, D, co).w, T4(b, b, D, 1)), Filter(1, D, co).b) = T4(b, b, co, 1)
  BY Filtered1, HeadNumbers, Small
<1>4. Add(T4(b, b, co, 1), T4(b, b, co, 1)) = T4(b, b, co, 1)
  BY AddSame, Small
<1> QED BY <1>0, <1>1, <1>2, <1>3, <1>4 DEF UpscaledWith

\* twice.
LEMMA DecUpscaledOf ==
  ASSUME NEW g, NEW g2, NEW g4, g \in Pos, g2 \in Pos, g4 \in Pos, Times(g2, g, 2), Times(g4, g2, 2)
  PROVE  DecUpscaled(T4(D, g * g, 1, 1), T4(D, g4, g4, 1), T4(D, g2, g2, 1), g, MaskDecoder) = T4(32, g4, g4, 1)
<1> DEFINE p == g * g
           keys == T4(D, p, 1, 1)
           s0 == T4(D, g4, g4, 1)
           s1 == T4(D, g2, g2, 1)
           x == T4(D, g, g, 1)
           src == T4(g, g, D, 1)
           up == T4(g2, g2, 64, 1)
           flat == T4(64, g2, g2, 1)
<1>0. p \in Pos
  BY PosTimes
<1>1. Reshape(keys, D, g, g, 1) = x
  <2>1. D * p * 1 * 1 = D * g * g * 1
    BY HeadNumbers DEF Pos
  <2> HIDE DEF p
  <2> QED BY <1>0, <2>1, ReshapeOf, HeadNumbers, Small, PosInt
<1>2. ToPlanes(x) = src
  BY ToPlanesOf, HeadNumbers, Small
<1>3. UpscaledWith(src, s1, Deconv(64, D), Filter(1, D, 64)) = up
  BY UpscaledWithOf, HeadNumbers, Numbers
<1>4. FromPlanes(up) = flat /\ ToPlanes(flat) = up
  BY FromPlanesOf, ToPlanesOf, Numbers, Small
<1>5. LayerNorm(flat, Norm(64)) = flat
  BY LayerNormOf, Numbers, Small
<1>6. UpscaledWith(up, s0, Deconv(32, 64), Filter(1, D, 32)) = T4(g4, g4, 32, 1)
  BY UpscaledWithOf, HeadNumbers, Numbers
<1>7. FromPlanes(T4(g4, g4, 32, 1)) = T4(32, g4, g4, 1)
  BY FromPlanesOf, HeadNumbers, Small
<1> HIDE DEF keys, s0, s1, x, src, up, flat
<1>8. DecUpscaled(keys, s0, s1, g, MaskDecoder) = T4(32, g4, g4, 1)
  BY <1>1, <1>2, <1>3, <1>4, <1>5, <1>6, <1>7, MaskDecoderIs DEF DecUpscaled
<1> QED BY <1>8 DEF keys, s0, s1

\* The masks and scores that are made of the tokens,
LEMMA DecOutputsOf ==
  ASSUME NEW scored \in BOOLEAN, NEW n, NEW p, n \in Pos, p \in Pos
  PROVE  DecOutputs(T4(D, OwnTokens(scored) + n, 1, 1), T4(32, p, 1, 1), scored, MaskDecoder)
           = [masks |-> T4(p, 4, 1, 1), iou_pred |-> T4(4, 1, 1, 1), obj_score |-> T4(1, 1, 1, 1),
              sam_token |-> T4(D, 1, 1, 1)]
<1> DEFINE m == OwnTokens(scored) + n
           q == T4(D, m, 1, 1)
           up == T4(32, p, 1, 1)
           first == IF scored THEN 1 ELSE 0
           Tokens(k, at) == Cont(Part(q, <<D, k, 1, 1>>, at * q.nb[2]))
           Mask(i) == MulMat(up, Mlp(Cont(Part(Tokens(4, first + 1), <<D, 1, 1, 1>>, i * D)), MaskDecoder.hyper))
           row == T4(D, 1, 1, 1)
           rows == T4(D, 4, 1, 1)
           one == 1
           four == 4
<1>0. m \in Pos /\ first \in Nat /\ first + 1 \in Nat /\ first + 1 + 4 <= m /\ first + 1 + 1 <= m /\ 0 + 1 <= m
  BY DEF OwnTokens, Pos
<1>1. q.nb[2] = D
  BY StrideOf
<1> HIDE DEF m, first
<1>2. Tokens(4, first + 1) = rows
  BY <1>0, <1>1, RowsOf, HeadNumbers, Small
<1>3. Tokens(1, first) = row /\ Tokens(1, first + 1) = row
  <2>1. first + 1 <= m
    BY <1>0 DEF Pos
  <2> QED BY <1>0, <1>1, <2>1, RowsOf, HeadNumbers, Small
<1>4. Tokens(1, 0) = row
  BY <1>0, <1>1, RowsOf, HeadNumbers, Small
<1> HIDE DEF q
<1>5. \A i \in {0, 1, 2, 3} : Mask(i) = T4(p, 1, 1, 1)
  <2> SUFFICES ASSUME NEW i \in {0, 1, 2, 3} PROVE Mask(i) = T4(p, 1, 1, 1)
    OBVIOUS
  <2>1. i \in Nat /\ i + 1 <= 4
    OBVIOUS
  <2>2. Cont(Part(rows, <<D, 1, 1, 1>>, i * D)) = row
    BY <2>1, RowsOf, HeadNumbers, Small
  <2>3. Mlp(row, <<Linear(D, D), Linear(D, D), Linear(D, 32)>>) = T4(32, 1, 1, 1)
    BY Mlp3Of, HeadNumbers, Small
  <2>4. MulMat(up, T4(32, 1, 1, 1)) = T4(p, 1, 1, 1)
    BY T2Is, MulMatOf, HeadNumbers, Small
  <2> HIDE DEF Tokens, rows, row, up
  <2> QED BY <1>2, <2>2, <2>3, <2>4, MaskDecoderIs
<1>6. Concat(Concat(Concat(T4(p, 1, 1, 1), T4(p, 1, 1, 1), 1), T4(p, 1, 1, 1), 1), T4(p, 1, 1, 1), 1) = T4(p, 4, 1, 1)
  <2>1. Concat(T4(p, 1, 1, 1), T4(p, 1, 1, 1), 1) = T4(p, 1 + 1, 1, 1) /\ 1 + 1 = 2
    BY Concat1, Small
  <2>2. Concat(T4(p, 2, 1, 1), T4(p, 1, 1, 1), 1) = T4(p, 2 + 1, 1, 1) /\ 2 + 1 = 3
    BY Concat1, Small
  <2>3. Concat(T4(p, 3, 1, 1), T4(p, 1, 1, 1), 1) = T4(p, 3 + 1, 1, 1) /\ 3 + 1 = 4
    BY Concat1, Small
  <2> QED BY <2>1, <2>2, <2>3
<1>7. /\ Mlp(row, MaskDecoder.iou_head) = T4(4, 1, 1, 1)
      /\ Mlp(row, MaskDecoder.obj_head) = T4(1, 1, 1, 1)
  BY Mlp3Of, HeadNumbers, Small, MaskDecoderIs
<1>8. Reshape(T4(4, 1, 1, 1), 4, 1, 1, 1) = T4(4, 1, 1, 1) /\ Reshape(T4(1, 1, 1, 1), 1, 1, 1, 1) = T4(1, 1, 1, 1)
  BY ReshapeOf, Small, PosInt
<1>9. T2(1, 1) = T4(1, 1, 1, 1)
  BY T2Is
<1>10. Mask(0) = T4(p, 1, 1, 1) /\ Mask(1) = T4(p, 1, 1, 1) /\ Mask(2) = T4(p, 1, 1, 1) /\ Mask(3) = T4(p, 1, 1, 1)
  BY <1>5
<1>11. DecOutputs(q, up, scored, MaskDecoder) =
          [masks |-> Concat(Concat(Concat(Mask(0), Mask(1), 1), Mask(2), 1), Mask(3), 1),
           iou_pred |-> Reshape(Mlp(Tokens(1, first), MaskDecoder.iou_head), 4, 1, 1, 1),
           obj_score |-> IF scored THEN Reshape(Mlp(Tokens(1, 0), MaskDecoder.obj_head), 1, 1, 1, 1)
                         ELSE T2(1, 1),
           sam_token |-> Tokens(1, first + 1)]
  BY DEF DecOutputs, first
<1> HIDE DEF Mask, Tokens, row, up
<1>12. DecOutputs(q, up, scored, MaskDecoder) =
           [masks |-> T4(p, 4, 1, 1), iou_pred |-> T4(4, 1, 1, 1), obj_score |-> T4(1, 1, 1, 1),
            sam_token |-> row]
  BY <1>3, <1>4, <1>6, <1>7, <1>8, <1>9, <1>10, <1>11
<1> QED BY <1>12 DEF q, up, m, row

\* and the mask decoder as a whole (sam3_build_sam_dec_graph).
LEMMA DecResultOf ==
  ASSUME NEW s, NEW scored \in BOOLEAN, NEW n, NEW g, NEW g2, NEW g4,
         n \in Pos, g \in Pos, g2 \in Pos, g4 \in Pos, Times(g2, g, 2), Times(g4, g2, 2),
         s.queries = T4(D, OwnTokens(scored) + n, 1, 1), s.keys = T4(D, g * g, 1, 1)
  PROVE  DecResult(s, T4(D, OwnTokens(scored) + n, 1, 1), T4(D, g * g, 1, 1), T4(D, g4, g4, 1),
                   T4(D, g2, g2, 1), scored, MaskDecoder)
           = [masks |-> T4(g4 * g4, 4, 1, 1), iou_pred |-> T4(4, 1, 1, 1), obj_score |-> T4(1, 1, 1, 1),
              sam_token |-> T4(D, 1, 1, 1)]
<1> DEFINE m == OwnTokens(scored) + n
           p == g * g
           r == g4 * g4
           q == T4(D, m, 1, 1)
           k == T4(D, p, 1, 1)
           s0 == T4(D, g4, g4, 1)
           s1 == T4(D, g2, g2, 1)
           up == T4(32, r, 1, 1)
           result == [masks |-> T4(r, 4, 1, 1), iou_pred |-> T4(4, 1, 1, 1), obj_score |-> T4(1, 1, 1, 1),
                      sam_token |-> T4(D, 1, 1, 1)]
<1>0. p \in Pos /\ r \in Pos /\ m \in Pos
  BY PosTimes, OwnTokensAre DEF Pos
<1>1. GridFromSpatial(p) = g
  BY GridFromSpatialOf
<1>2. DecUpscaled(k, s0, s1, g, MaskDecoder) = T4(32, g4, g4, 1)
  BY DecUpscaledOf
<1>3. Reshape(T4(32, g4, g4, 1), 32, (4 * g) * (4 * g), 1, 1) = up
  <2>1. (4 * g) * (4 * g) = r
    <3>1. g4 = 4 * g
      BY DEF Times, Pos
    <3> QED BY <3>1
  <2>2. 32 * g4 * g4 * 1 = 32 * r * 1 * 1
    BY DEF Pos
  <2> HIDE DEF r
  <2> QED BY <1>0, <2>1, <2>2, ReshapeOf, HeadNumbers, Small, PosInt
<1> HIDE DEF p, r
<1>4. DecOutputs(q, up, scored, MaskDecoder) = result
  BY <1>0, DecOutputsOf
<1> HIDE DEF m
<1>5. Crossed(q, q, k, k, SamAttn(D, 128), Norm(D)) = q
  BY <1>0, CrossedOf
<1>6. k.ne[2] = p
  BY ExtentOf
<1> HIDE DEF q, k, s0, s1, up, result
<1>7. s.queries = q /\ s.keys = k
  BY DEF q, k, m, p
<1>8. DecResult(s, q, k, s0, s1, scored, MaskDecoder) = result
  BY <1>1, <1>2, <1>3, <1>4, <1>5, <1>6, <1>7, MaskDecoderIs DEF DecResult
<1> QED BY <1>8 DEF q, k, s0, s1, m, p, r, result

-----------------------------------------------------------------------------
(* Memories. *)

\* The hyperparameters of the memory.
LEMMA MemorySizes ==
    /\ D = 256 /\ MD = 64 /\ NumLatents = 256 /\ PointerTokens = 4
    /\ hp.perceiver_depth = 2 /\ hp.mem_attn_layers = 4 /\ hp.sam_dec_depth = 2
BY DEF D, MD, hp, NumLatents, PointerTokens

\* They are extents.
LEMMA MemoryNumbers == D \in Pos /\ MD \in Pos /\ NumLatents \in Pos
BY MemorySizes, Numbers

\* The channels of the mask after so many halvings, and how many grids wide it is.
Channels == <<1, 4, 16, 64, 256>>

Widths   == <<16, 8, 4, 2, 1>>

\* The weights of the memory encoder.
LEMMA MemoryEncoderIs ==
    /\ \A i \in 1 .. 4 : /\ MemoryEncoder.ds[i] = Filter(3, Channels[i], Channels[i + 1])
                         /\ MemoryEncoder.ds_norm[i] = Norm(Channels[i + 1])
    /\ MemoryEncoder.ds[5] = Filter(1, D, D) /\ MemoryEncoder.pix_proj = Filter(1, D, D)
    /\ MemoryEncoder.out_proj = Filter(1, D, MD)
    /\ MemoryEncoder.fuser.dw = Filter(7, 1, D) /\ MemoryEncoder.fuser.norm = Norm(D)
    /\ MemoryEncoder.fuser.fc1 = Linear(D, 1024) /\ MemoryEncoder.fuser.fc2 = Linear(1024, D)
    /\ MemoryEncoder.fuser.gamma = T1(D)
BY DEF MemoryEncoder, Channels

\* A step of the memory encoder halves the mask,
LEMMA Halving ==
  ASSUME NEW a, NEW b, NEW ci, NEW co, NEW s, a \in Pos, b \in Pos, ci \in Pos, co \in Pos, Times(a, b, 2),
         MemoryEncoder.ds[s] = Filter(3, ci, co), MemoryEncoder.ds_norm[s] = Norm(co)
  PROVE  MaskHalved(T4(a, a, ci, 1), s, MemoryEncoder) = T4(b, b, co, 1)
<1>1. Out(a, 3, 2, 1) = b
  <2>1. a = 2 * b /\ b \in Int /\ b > 0
    BY DEF Times, Pos
  <2>2. (2 * b + 2 * 1 - 3) \div 2 + 1 = b
    BY <2>1
  <2> QED BY <2>1, <2>2 DEF Out
<1>2. Conv(T4(3, 3, ci, co), T4(a, a, ci, 1), 2, 1) = T4(b, b, co, 1)
  <2>1. Conv(T4(3, 3, ci, co), T4(a, a, ci, 1), 2, 1) = T4(Out(a, 3, 2, 1), Out(a, 3, 2, 1), co, 1)
    BY <1>1, ConvOf, Small
  <2> QED BY <1>1, <2>1
<1>3. AddBias(T4(b, b, co, 1), T1(co)) = T4(b, b, co, 1)
  BY AddBiasOf, Small
<1>4. FromPlanes(T4(b, b, co, 1)) = T4(co, b, b, 1) /\ ToPlanes(T4(co, b, b, 1)) = T4(b, b, co, 1)
  BY FromPlanesOf, ToPlanesOf, Small
<1>5. LayerNorm(T4(co, b, b, 1), Norm(co)) = T4(co, b, b, 1)
  BY LayerNormOf, Small
<1> QED BY <1>2, <1>3, <1>4, <1>5, FilterIs DEF MaskHalved

\* four times in all.
LEMMA MaskHalvedOf ==
  ASSUME NEW g, NEW i \in 0 .. 3, g \in Pos
  PROVE  MaskHalved(T4(Widths[i + 1] * g, Widths[i + 1] * g, Channels[i + 1], 1), i + 1, MemoryEncoder)
           = T4(Widths[i + 2] * g, Widths[i + 2] * g, Channels[i + 2], 1)
<1> DEFINE a == Widths[i + 1] * g
           b == Widths[i + 2] * g
           ci == Channels[i + 1]
           co == Channels[i + 2]
           s == i + 1
<1>1. ci \in Pos /\ co \in Pos
  BY DEF Channels, Pos
<1>2. Widths[i + 1] \in Pos /\ Widths[i + 2] \in Pos /\ Widths[i + 1] = 2 * Widths[i + 2]
  BY DEF Widths, Pos
<1>3. a \in Pos /\ b \in Pos
  BY <1>2, PosTimes
<1>4. Times(a, b, 2)
  <2> DEFINE u == Widths[i + 1]
             v == Widths[i + 2]
  <2>1. u = 2 * v /\ u \in Int /\ v \in Int /\ g \in Int
    BY <1>2 DEF Pos
  <2> HIDE DEF u, v
  <2>2. u * g = (v * g) * 2
    BY <2>1
  <2> QED BY <2>2 DEF Times, u, v
<1>5. MemoryEncoder.ds[s] = Filter(3, ci, co) /\ MemoryEncoder.ds_norm[s] = Norm(co)
  <2>1. s \in 1 .. 4 /\ s + 1 = i + 2
    OBVIOUS
  <2> QED BY <2>1, MemoryEncoderIs
<1> HIDE DEF a, b, ci, co, s
<1>6. MaskHalved(T4(a, a, ci, 1), s, MemoryEncoder) = T4(b, b, co, 1)
  BY <1>1, <1>3, <1>4, <1>5, Halving
<1> QED BY <1>6 DEF a, b, ci, co, s

\* A block of the fuser keeps the map.
LEMMA CxBlockForwardOf ==
  ASSUME NEW g, g \in Pos
  PROVE  CxBlockForward(T4(D, g, g, 1), MemoryEncoder.fuser) = T4(D, g, g, 1)
<1> DEFINE x == T4(D, g, g, 1)
           y == T4(g, g, D, 1)
           p == g * g
           blk == MemoryEncoder.fuser
           k == 7
<1>0. p \in Pos /\ k \in Pos
  BY PosTimes DEF Pos
<1>1. ToPlanes(x) = y /\ FromPlanes(y) = x
  BY ToPlanesOf, FromPlanesOf, MemoryNumbers, Small
<1>2. ConvDw(T4(k, k, 1, D), y, 1, 3) = y
  <2>1. Out(g, k, 1, 3) = g
    BY OutSame
  <2> HIDE DEF k
  <2>2. ConvDw(T4(k, k, 1, D), y, 1, 3) = T4(Out(g, k, 1, 3), Out(g, k, 1, 3), D, 1)
    BY <1>0, <2>1, ConvDwOf, MemoryNumbers, Small
  <2> QED BY <2>1, <2>2
<1>3. AddBias(y, T1(D)) = y
  BY AddBiasOf, MemoryNumbers, Small
<1>4. LayerNorm(x, Norm(D)) = x /\ Add(x, x) = x
  BY LayerNormOf, AddSame, MemoryNumbers, Small
<1>5. Reshape(x, D, p, 1, 1) = T4(D, p, 1, 1) /\ Reshape(T4(D, p, 1, 1), D, g, g, 1) = x
  <2>1. D * g * g * 1 = D * p * 1 * 1
    BY MemoryNumbers DEF Pos
  <2> HIDE DEF p
  <2> QED BY <1>0, <2>1, ReshapeOf, MemoryNumbers, Small, PosInt
<1>6. Through2(T4(D, p, 1, 1), Linear(D, 1024), Linear(1024, D)) = T4(D, p, 1, 1)
  BY <1>0, Through2Of, MemoryNumbers, Numbers, Small
<1>7. Reshape(T1(D), D, 1, 1, 1) = T1(D)
  BY T1Is, ReshapeOf, MemoryNumbers, Small, PosInt
<1>8. Add(x, T1(D)) = x
  BY AddRow, MemoryNumbers, Small
<1>9. x.ne[2] = g /\ x.ne[3] = g
  BY ExtentOf
<1>10. /\ blk.dw.w = T4(k, k, 1, D) /\ blk.dw.b = T1(D) /\ blk.norm = Norm(D)
       /\ blk.fc1 = Linear(D, 1024) /\ blk.fc2 = Linear(1024, D) /\ blk.gamma = T1(D)
  BY MemoryEncoderIs, FilterIs
<1> HIDE DEF x, y, blk, k
<1>11. CxBlockForward(x, blk) = x
  BY <1>1, <1>2, <1>3, <1>4, <1>5, <1>6, <1>7, <1>8, <1>9, <1>10 DEF CxBlockForward
<1> QED BY <1>11 DEF x, blk

\* The memory has a place for each place of the grid (sam3_encode_memory).
LEMMA MemoryOfOf ==
  ASSUME NEW g, g \in Pos
  PROVE  MemoryOf(T4(g, g, D, 1), T4(D, g, g, 1), MemoryEncoder) = T4(MD, g, g, 1)
<1> DEFINE x == T4(D, g, g, 1)
           y == T4(g, g, D, 1)
<1>1. AddBias(ConvPatches(Filter(1, D, D).w, y), Filter(1, D, D).b) = y
  BY Filtered1, MemoryNumbers, Small
<1>2. FromPlanes(y) = x /\ ToPlanes(x) = y
  BY FromPlanesOf, ToPlanesOf, MemoryNumbers, Small
<1>3. Add(x, x) = x
  BY AddSame, MemoryNumbers, Small
<1>4. CxBlockForward(x, MemoryEncoder.fuser) = x
  BY CxBlockForwardOf
<1>5. AddBias(ConvPatches(Filter(1, D, MD).w, y), Filter(1, D, MD).b) = T4(g, g, MD, 1)
  BY Filtered1, MemoryNumbers, Small
<1>6. FromPlanes(T4(g, g, MD, 1)) = T4(MD, g, g, 1)
  BY FromPlanesOf, MemoryNumbers, Small
<1> HIDE DEF x, y
<1>7. MemoryOf(y, x, MemoryEncoder) = T4(MD, g, g, 1)
  BY <1>1, <1>2, <1>3, <1>4, <1>5, <1>6, MemoryEncoderIs DEF MemoryOf
<1> QED BY <1>7 DEF x, y

-----------------------------------------------------------------------------
\* The weights of the perceiver.
LEMMA PerceiverIs ==
    /\ \A attn \in {Perceiver.ca, Perceiver.sa} :
         attn.q = T2(64, 64) /\ attn.kv = T2(64, 128) /\ attn.out = T2(64, 64)
    /\ \A ff \in {Perceiver.ff, Perceiver.sa_ff} :
         ff.norm = Norm(64) /\ ff.fc1 = T2(64, 256) /\ ff.fc2 = T2(256, 64)
    /\ Perceiver.norm = Norm(64) /\ Perceiver.ca_norm_latents = Norm(64)
    /\ Perceiver.ca_norm_x = Norm(64) /\ Perceiver.sa_norm = Norm(64)
<1>1. hp.perceiver_dim = 64 /\ hp.perceiver_ff_mult = 4 /\ 2 * 64 = 128 /\ 64 * 4 = 256
  BY DEF hp
<1> DEFINE c == [q |-> T2(64, 64), kv |-> T2(64, 128), out |-> T2(64, 64)]
           f == [norm |-> Norm(64), fc1 |-> T2(64, 256), fc2 |-> T2(256, 64)]
<1>2. /\ Perceiver.ca = c /\ Perceiver.sa = c /\ Perceiver.ff = f /\ Perceiver.sa_ff = f
      /\ Perceiver.norm = Norm(64) /\ Perceiver.ca_norm_latents = Norm(64)
      /\ Perceiver.ca_norm_x = Norm(64) /\ Perceiver.sa_norm = Norm(64)
  BY <1>1 DEF Perceiver
<1> QED BY <1>2

\* A tensor is not the missing one.
LEMMA IsNoMask ==
  ASSUME NEW a, NEW b, NEW c, NEW d, a \in Pos
  PROVE  T4(a, b, c, d) # NoMask
<1>1. T4(a, b, c, d).ne[1] = a /\ NoMask.ne[1] = 0 /\ a # 0
  BY ExtentOf DEF NoMask, Pos
<1> QED BY <1>1

\* Positions for the keys and values, or none.
PositionsFit(pos, m, b) == pos = NoMask \/ pos = T4(64, m, b, 1)

\* Attention of latents to places (edgetam_perceiver_attn),
LEMMA PerceiverAttentionOf ==
  ASSUME NEW attn, NEW n, NEW m, NEW b, NEW pos, n \in Pos, m \in Pos, b \in Pos, PositionsFit(pos, m, b),
         attn.q = T2(64, 64), attn.out = T2(64, 64)
  PROVE  PerceiverAttention(attn, T4(64, n, b, 1), T4(128, m, b, 1), pos) = T4(64, n, b, 1)
<1> DEFINE q == T4(64, n, b, 1)
           kv == T4(128, m, b, 1)
           k == T4(64, m, b, 1)
           half(i) == Part(kv, <<64, m, b, 1>>, i * 64)
           With(x) == IF pos = NoMask THEN Cont(x) ELSE Add(x, pos)
           cut == Cut(64, m, b, 1, <<1, 128, 128 * m, 128 * m * b>>)
           a == 64
           e == 128
           one == 1
<1>0. a \in Pos /\ e \in Pos /\ one \in Pos
  BY Numbers, Small
<1>1. \A i \in {0, 1} : half(i) = cut
  <2> SUFFICES ASSUME NEW i \in {0, 1} PROVE half(i) = cut
    OBVIOUS
  <2>1. Inside(<<128, m, b, 1>>, <<64, m, b, 1>>, i * 64)
    <3>1. i * 64 \in Nat /\ i * 64 <= 64
      OBVIOUS
    <3>2. 1 + (64 - 1) * 1 + (m - 1) * 128 + (b - 1) * (128 * m) + (1 - 1) * (128 * m * b) = 128 * m * b - 64
      BY DEF Pos
    <3>3. 128 * m * b * 1 = 128 * m * b /\ 128 * m * b \in Int
      BY DEF Pos
    <3>4. i * 64 + (1 + (64 - 1) * 1 + (m - 1) * 128 + (b - 1) * (128 * m) + (1 - 1) * (128 * m * b)) <= 128 * m * b * 1
      BY <3>1, <3>2, <3>3
    <3> QED BY <3>1, <3>4 DEF Inside
  <2> DEFINE at == i * 64
  <2>2. Inside(<<e, m, b, one>>, <<a, m, b, one>>, at)
    BY <2>1
  <2> HIDE DEF a, e, one, at
  <2>3. Part(T4(e, m, b, one), <<a, m, b, one>>, at) = Cut(a, m, b, one, <<1, e, e * m, e * m * b>>)
    BY <1>0, <2>2, PartOf
  <2> QED BY <2>3 DEF a, e, one, at
<1>2. With(cut) = k
  <2>1. Cont(cut) = k /\ Measures(cut, 64, m, b, 1)
    BY CutIsThere, CutOf, Small, Numbers
  <2>2. Measures(k, 64, m, b, 1) /\ k # NoMask
    BY MeasuresOf, IsNoMask, Numbers
  <2> HIDE DEF cut, k
  <2>3. Measures(pos, 64, m, b, 1) \/ pos = NoMask
    BY <2>2 DEF PositionsFit, k
  <2>4. Measures(pos, 64, m, b, 1) => Add(cut, pos) = k
    BY <2>1, AddExtents, GoesAll, Small, Numbers DEF k
  <2> QED BY <2>1, <2>3, <2>4
<1>3. MulMat(T2(64, 64), q) = q
  BY MulMatOf, Small, Numbers
<1>4. /\ Reshape(q, 64, n, 1, b) = T4(64, n, 1, b) /\ Reshape(k, 64, m, 1, b) = T4(64, m, 1, b)
      /\ Reshape(T4(64, 1, n, b), 64, n, b, 1) = q
  <2>1. 64 * n * b * 1 = 64 * n * 1 * b /\ 64 * m * b * 1 = 64 * m * 1 * b /\ 64 * 1 * n * b = 64 * n * b * 1
    BY DEF Pos
  <2> QED BY <2>1, ReshapeOf, Small, Numbers, PosInt
<1>5. AttnExt(T4(64, n, 1, b), T4(64, m, 1, b), T4(64, m, 1, b), NoMask) = T4(64, 1, n, b)
  BY AttnOf, MeasuresOf, NoMaskTakes, Small, Numbers
<1>6. q.ne[1] = 64 /\ q.ne[2] = n /\ q.ne[3] = b /\ kv.ne[2] = m /\ kv.ne[3] = b /\ k.ne[2] = m /\ k.ne[3] = b
  BY ExtentOf
<1>7. half(0) = cut /\ half(1) = cut
  BY <1>1
<1> HIDE DEF q, kv, k, cut
<1>8. PerceiverAttention(attn, q, kv, pos) = q
  BY <1>2, <1>3, <1>4, <1>5, <1>6, <1>7 DEF PerceiverAttention
<1> QED BY <1>8 DEF q, kv

\* the feed-forward block,
LEMMA PerceiverFeedForwardOf ==
  ASSUME NEW ff, NEW n, NEW b, n \in Pos, b \in Pos,
         ff.norm = Norm(64), ff.fc1 = T2(64, 256), ff.fc2 = T2(256, 64)
  PROVE  PerceiverFeedForward(T4(64, n, b, 1), ff) = T4(64, n, b, 1)
<1> DEFINE x == T4(64, n, b, 1)
<1>1. LayerNorm(x, Norm(64)) = x /\ Add(x, x) = x
  BY LayerNormOf, AddSame, Small, Numbers
<1>2. MulMat(T2(64, 256), x) = T4(256, n, b, 1) /\ MulMat(T2(256, 64), T4(256, n, b, 1)) = x
  BY MulMatOf, Small, Numbers
<1> HIDE DEF x
<1>3. PerceiverFeedForward(x, ff) = x
  BY <1>1, <1>2 DEF PerceiverFeedForward
<1> QED BY <1>3 DEF x

\* and a layer of the perceiver keep the latents.
LEMMA PerceiverForwardOf ==
  ASSUME NEW n, NEW m, NEW b, NEW pos, n \in Pos, m \in Pos, b \in Pos, PositionsFit(pos, m, b)
  PROVE  PerceiverForward(T4(64, n, b, 1), T4(64, m, b, 1), pos, Perceiver) = T4(64, n, b, 1)
<1> DEFINE l == T4(64, n, b, 1)
           x == T4(64, m, b, 1)
           ca == Perceiver.ca
           sa == Perceiver.sa
           ff == Perceiver.ff
           sf == Perceiver.sa_ff
<1>1. LayerNorm(l, Norm(64)) = l /\ LayerNorm(x, Norm(64)) = x /\ Add(l, l) = l
  BY LayerNormOf, AddSame, Small, Numbers
<1>2. MulMat(T2(64, 128), x) = T4(128, m, b, 1) /\ MulMat(T2(64, 128), l) = T4(128, n, b, 1)
  BY MulMatOf, Small, Numbers
<1>3. /\ ca.q = T2(64, 64) /\ ca.out = T2(64, 64) /\ ca.kv = T2(64, 128)
      /\ sa.q = T2(64, 64) /\ sa.out = T2(64, 64) /\ sa.kv = T2(64, 128)
      /\ ff.norm = Norm(64) /\ ff.fc1 = T2(64, 256) /\ ff.fc2 = T2(256, 64)
      /\ sf.norm = Norm(64) /\ sf.fc1 = T2(64, 256) /\ sf.fc2 = T2(256, 64)
  BY PerceiverIs
<1> HIDE DEF ca, sa, ff, sf
<1>4. PerceiverAttention(ca, l, T4(128, m, b, 1), pos) = l
  BY <1>3, PerceiverAttentionOf
<1>5. PerceiverAttention(sa, l, T4(128, n, b, 1), NoMask) = l
  <2>1. PositionsFit(NoMask, n, b)
    BY DEF PositionsFit
  <2> QED BY <1>3, <2>1, PerceiverAttentionOf
<1>6. PerceiverFeedForward(l, ff) = l /\ PerceiverFeedForward(l, sf) = l
  BY <1>3, PerceiverFeedForwardOf
<1> HIDE DEF l, x
<1>7. PerceiverCross(l, x, pos, Perceiver) = l
  BY <1>1, <1>2, <1>3, <1>4, PerceiverIs DEF PerceiverCross, ca
<1>8. LatentsAttended(l, Perceiver) = l
  BY <1>1, <1>2, <1>3, <1>5, PerceiverIs DEF LatentsAttended, PerceiverSelf, sa
<1>9. PerceiverForward(l, x, pos, Perceiver) = l
  BY <1>6, <1>7, <1>8 DEF PerceiverForward, ff, sf
<1> QED BY <1>9 DEF l, x

-----------------------------------------------------------------------------
\* Attention with one head.
LEMMA OneHeadOf ==
  ASSUME NEW p, NEW m, p \in Pos, m \in Pos
  PROVE  OneHead(T4(D, p, 1, 1), T4(D, m, 1, 1), T4(D, m, 1, 1), Linear(D, D)) = T4(D, p, 1, 1)
<1> DEFINE q == T4(D, p, 1, 1)
           k == T4(D, m, 1, 1)
           One(x) == Permute(Reshape(x, D, 1, x.ne[2], 1), 0, 2, 1, 3)
<1>1. \A n \in Pos : /\ Measures(One(T4(D, n, 1, 1)), D, n, 1, 1)
                     /\ Cont(One(T4(D, n, 1, 1))) = T4(D, n, 1, 1)
  <2> SUFFICES ASSUME NEW n \in Pos
               PROVE  /\ Measures(One(T4(D, n, 1, 1)), D, n, 1, 1)
                      /\ Cont(One(T4(D, n, 1, 1))) = T4(D, n, 1, 1)
    OBVIOUS
  <2>1. D * n * 1 * 1 = D * 1 * n * 1
    BY MemoryNumbers DEF Pos
  <2>2. Reshape(T4(D, n, 1, 1), D, 1, n, 1) = T4(D, 1, n, 1)
    BY <2>1, ReshapeOf, MemoryNumbers, Small, PosInt
  <2>3. Measures(Permute(T4(D, 1, n, 1), 0, 2, 1, 3), D, n, 1, 1)
    BY PermuteMeasures0213, MeasuresOf, MemoryNumbers, Small
  <2>4. Permuted(T4(D, 1, n, 1), 0, 2, 1, 3) = T4(D, n, 1, 1)
    BY Permuted0213, MemoryNumbers, Small
  <2> QED BY <2>2, <2>3, <2>4, ExtentOf DEF Permuted
<1>2. Cont(One(q)) = q /\ Cont(One(k)) = k /\ Measures(One(k), D, m, 1, 1)
  BY <1>1
<1> HIDE DEF One
<1>3. AttnExt(q, k, One(k), NoMask) = T4(D, 1, p, 1)
  BY <1>2, AttnOf, NoMaskTakes, MemoryNumbers, Small
<1>4. Reshape(T4(D, 1, p, 1), D, p, 1, 1) = q
  <2>1. D * 1 * p * 1 = D * p * 1 * 1
    BY MemoryNumbers DEF Pos
  <2> QED BY <2>1, ReshapeOf, MemoryNumbers, Small, PosInt
<1>5. Through(Linear(D, D), q) = q
  BY ThroughOf, MemoryNumbers, Small
<1>6. q.ne[2] = p
  BY ExtentOf
<1> HIDE DEF q, k
<1>7. OneHead(q, k, k, Linear(D, D)) = q
  BY <1>2, <1>3, <1>4, <1>5, <1>6 DEF OneHead, One
<1> QED BY <1>7 DEF q, k

\* Rotary embedding of rows,
LEMMA RopedRows ==
  ASSUME NEW n, n \in Pos
  PROVE  ApplyRope(T4(D, n, 1, 1), T3(2, 128, n)) = T4(D, n, 1, 1)
<1>1. Times(D, 2, 128)
  BY MemorySizes DEF Times
<1> QED BY <1>1, ApplyRopeOf, MemoryNumbers, Numbers, Small

\* and of the keys but for the pointers at the end.
LEMMA RotatedKeysOf ==
  ASSUME NEW n, NEW o, n \in Pos, o \in Nat
  PROVE  RotatedKeys(T4(D, n + o, 1, 1), n, o, T3(2, 128, n)) = T4(D, n + o, 1, 1)
<1> DEFINE m == n + o
           k == T4(D, m, 1, 1)
           rope == T3(2, 128, n)
           z == 0
<1>0. m \in Pos /\ z \in Nat /\ z + n <= m /\ z * D = 0 /\ n # 0 /\ n \in Nat
  BY MemorySizes DEF Pos
<1> HIDE DEF m, z
<1>1. Cont(Part(k, <<D, n, 1, 1>>, z * D)) = T4(D, n, 1, 1)
  BY <1>0, RowsOf, MemoryNumbers
<1>2. ApplyRope(T4(D, n, 1, 1), rope) = T4(D, n, 1, 1)
  BY RopedRows
<1>3. k.nb[2] = D
  BY StrideOf
<1>4. CASE o = 0
  <2>1. m = n
    BY <1>4 DEF m, Pos
  <2> HIDE DEF k, rope
  <2>2. RotatedKeys(k, n, o, rope) = T4(D, n, 1, 1)
    BY <1>0, <1>1, <1>2, <1>4 DEF RotatedKeys
  <2> QED BY <2>1, <2>2 DEF k, rope, m
<1>5. CASE o # 0
  <2>1. o \in Pos /\ n + o <= m
    BY <1>0, <1>5 DEF m, Pos
  <2>2. Cont(Part(k, <<D, o, 1, 1>>, n * D)) = T4(D, o, 1, 1)
    BY <1>0, <2>1, RowsOf, MemoryNumbers
  <2>3. Concat(T4(D, n, 1, 1), T4(D, o, 1, 1), 1) = k
    BY <2>1, Concat1, MemoryNumbers, Small DEF m
  <2> HIDE DEF k, rope
  <2>4. RotatedKeys(k, n, o, rope) = k
    BY <1>0, <1>1, <1>2, <1>3, <1>5, <2>2, <2>3 DEF RotatedKeys
  <2> QED BY <2>4 DEF k, rope, m
<1> QED BY <1>4, <1>5

\* The weights of a layer of the memory attention.
LEMMA MemoryAttentionIs ==
    /\ MemoryAttention.sa.q = Linear(D, D) /\ MemoryAttention.sa.k = Linear(D, D)
    /\ MemoryAttention.sa.v = Linear(D, D) /\ MemoryAttention.sa.out = Linear(D, D)
    /\ MemoryAttention.ca.q = Linear(D, D) /\ MemoryAttention.ca.k = Linear(MD, D)
    /\ MemoryAttention.ca.v = Linear(MD, D) /\ MemoryAttention.ca.out = Linear(D, D)
    /\ MemoryAttention.norm1 = Norm(D) /\ MemoryAttention.norm2 = Norm(D) /\ MemoryAttention.norm3 = Norm(D)
    /\ MemoryAttention.fc1 = Linear(D, FFN) /\ MemoryAttention.fc2 = Linear(FFN, D)
BY DEF MemoryAttention, SamAttn

\* A layer keeps the places, with whatever number of memories and pointers
\* (sam3_build_mem_attn_graph).
LEMMA MemoryAttentionForwardOf ==
  ASSUME NEW p, NEW n, NEW o, p \in Pos, n \in Pos, o \in Nat
  PROVE  MemoryAttentionForward(T4(D, p, 1, 1), T4(MD, n + o, 1, 1), T4(MD, n + o, 1, 1),
                                T3(2, 128, p), T3(2, 128, n), o, MemoryAttention) = T4(D, p, 1, 1)
<1> DEFINE m == n + o
           x == T4(D, p, 1, 1)
           prompt == T4(MD, m, 1, 1)
           k == T4(D, m, 1, 1)
           rq == T3(2, 128, p)
           rk == T3(2, 128, n)
           sa == MemoryAttention.sa
           ca == MemoryAttention.ca
<1>0. m \in Pos /\ m - o = n
  BY DEF Pos
<1>1. RotatedKeys(k, n, o, rk) = k
  BY RotatedKeysOf
<1> HIDE DEF m
<1>2. LayerNorm(x, Norm(D)) = x /\ Add(x, x) = x /\ Add(prompt, prompt) = prompt
  BY <1>0, LayerNormOf, AddSame, MemoryNumbers, Small
<1>3. /\ Through(Linear(D, D), x) = x /\ Through(Linear(MD, D), prompt) = k
  BY <1>0, ThroughOf, MemoryNumbers, Small
<1>4. ApplyRope(x, rq) = x
  BY RopedRows
<1>5. OneHead(x, x, x, Linear(D, D)) = x /\ OneHead(x, k, k, Linear(D, D)) = x
  BY <1>0, OneHeadOf
<1>6. FeedForward(x, Norm(D), MemoryAttention) = x
  BY FeedForwardOf, MemoryAttentionIs, HeadNumbers, Small
<1>7. prompt.ne[2] = m
  BY ExtentOf
<1> HIDE DEF x, prompt, k, rq, rk, sa, ca
<1>8. /\ sa.q = Linear(D, D) /\ sa.k = Linear(D, D) /\ sa.v = Linear(D, D) /\ sa.out = Linear(D, D)
      /\ ca.q = Linear(D, D) /\ ca.k = Linear(MD, D) /\ ca.v = Linear(MD, D) /\ ca.out = Linear(D, D)
  BY MemoryAttentionIs DEF sa, ca
<1>9. PlacesAttended(x, x, rq, sa) = x
  BY <1>2, <1>3, <1>4, <1>5, <1>8 DEF PlacesAttended
<1>10. MemoriesAttended(x, Norm(D), prompt, prompt, rq, rk, o, ca) = x
  BY <1>0, <1>1, <1>2, <1>3, <1>4, <1>5, <1>7, <1>8 DEF MemoriesAttended
<1>11. MemoryAttentionForward(x, prompt, prompt, rq, rk, o, MemoryAttention) = x
  BY <1>2, <1>6, <1>9, <1>10, MemoryAttentionIs DEF MemoryAttentionForward, sa, ca
<1> QED BY <1>11 DEF x, prompt, rq, rk, m

-----------------------------------------------------------------------------
(* Hiera. *)

\* sam2_window_partition cuts a map into windows,
LEMMA PartitionOf ==
  ASSUME NEW c, NEW w, NEW v, c \in Pos, w \in Pos, v \in Pos
  PROVE  Partition(T4(c, w, w, 1), v) = T4(c, v, v, Ceil(w, v) * Ceil(w, v))
<1> DEFINE n == Ceil(w, v)
           wp == n * v
           x == T4(c, w, w, 1)
           p == T4(c, wp, wp, 1)
<1>0. n \in Pos /\ wp \in Pos /\ c * v \in Pos /\ n * n \in Pos
  BY CeilOf, PosTimes
<1> HIDE DEF n
<1>1. wp \div v = n
  <2>1. n \in Int /\ v \in Int /\ v > 0
    BY <1>0 DEF Pos
  <2>2. (n * v) \div v = n
    BY <2>1
  <2> QED BY <2>2
<1>2. PadBy(x, 0, wp - w, wp - w, 0) = p
  BY <1>0, PadOf, PosInt, Small
<1>3. Reshape(p, c * v, n, wp, 1) = T4(c * v, n, wp, 1)
  <2>1. c * (n * v) * wp * 1 = (c * v) * n * wp * 1
    BY <1>0 DEF Pos
  <2> HIDE DEF wp
  <2>2. c * wp * wp * 1 = (c * v) * n * wp * 1
    BY <2>1 DEF wp
  <2> QED BY <1>0, <2>2, ReshapeOf, Small, PosInt
<1>4. Permuted(T4(c * v, n, wp, 1), 0, 2, 1, 3) = T4(c * v, wp, n, 1)
  BY <1>0, Permuted0213, Small
<1>5. Reshape(T4(c * v, wp, n, 1), c * v, v, n, n * 1) = T4(c * v, v, n, n * 1)
  <2>1. (c * v) * (n * v) * n * 1 = (c * v) * v * n * (n * 1)
    BY <1>0 DEF Pos
  <2>2. n * 1 \in Int
    BY <1>0 DEF Pos
  <2> QED BY <1>0, <2>1, <2>2, ReshapeOf, Small, PosInt
<1>6. Reshape(T4(c * v, v, n, n * 1), c, v, v, n * n * 1) = T4(c, v, v, n * n)
  <2>1. (c * v) * v * n * n = c * v * v * (n * n) /\ n * 1 = n /\ n * n * 1 = n * n
    BY <1>0 DEF Pos
  <2>2. Reshape(T4(c * v, v, n, n), c, v, v, n * n) = T4(c, v, v, n * n)
    BY <1>0, <2>1, ReshapeOf, Small, PosInt
  <2> QED BY <2>1, <2>2
<1>7. x.ne[1] = c /\ x.ne[2] = w /\ x.ne[3] = w /\ x.ne[4] = 1
  BY ExtentOf
<1>8. Ceil(w, v) * v = wp
  BY DEF n
<1> HIDE DEF x, p, wp
<1>9. Partition(x, v) = T4(c, v, v, n * n)
  BY <1>1, <1>2, <1>3, <1>4, <1>5, <1>6, <1>7, <1>8 DEF Partition
<1> QED BY <1>9 DEF x, n

\* and sam2_window_unpartition puts it together.
LEMMA UnpartitionOf ==
  ASSUME NEW c, NEW w, NEW u, c \in Pos, w \in Pos, u \in Pos
  PROVE  Unpartition(T4(c, u, u, Ceil(w, u) * Ceil(w, u)), u, Ceil(w, u) * u, Ceil(w, u) * u, w, w) = T4(c, w, w, 1)
<1> DEFINE n == Ceil(w, u)
           wp == n * u
           x == T4(c, u, u, n * n)
<1>0. n \in Pos /\ wp \in Pos /\ c * u \in Pos /\ n * n \in Pos /\ w <= wp
  BY CeilOf, PosTimes
<1> HIDE DEF n
<1>1. wp \div u = n
  <2>1. n \in Int /\ u \in Int /\ u > 0
    BY <1>0 DEF Pos
  <2>2. (n * u) \div u = n
    BY <2>1
  <2> QED BY <2>2
<1>2. Reshape(x, c * u, u, n, n) = T4(c * u, u, n, n)
  <2>1. c * u * u * (n * n) = (c * u) * u * n * n
    BY <1>0 DEF Pos
  <2> QED BY <1>0, <2>1, ReshapeOf, PosInt
<1>3. Reshape(T4(c * u, u, n, n), c * u, wp, n, 1) = T4(c * u, wp, n, 1)
  <2>1. (c * u) * u * n * n = (c * u) * (n * u) * n * 1
    BY <1>0 DEF Pos
  <2> QED BY <1>0, <2>1, ReshapeOf, PosInt, Small
<1>4. Permuted(T4(c * u, wp, n, 1), 0, 2, 1, 3) = T4(c * u, n, wp, 1)
  BY <1>0, Permuted0213, Small
<1>5. Reshape(T4(c * u, n, wp, 1), c, wp, wp, 1) = T4(c, wp, wp, 1)
  <2>1. (c * u) * n * wp * 1 = c * (n * u) * wp * 1
    BY <1>0 DEF Pos
  <2> HIDE DEF wp
  <2>2. (c * u) * n * wp * 1 = c * wp * wp * 1
    BY <2>1 DEF wp
  <2> QED BY <1>0, <2>2, ReshapeOf, PosInt, Small
<1>6. Cont(Part(T4(c, wp, wp, 1), <<c, w, w, 1>>, 0)) = T4(c, w, w, 1)
  BY <1>0, CropOf
<1>7. x.ne[1] = c
  BY ExtentOf
<1> HIDE DEF x, wp
<1>8. Unpartition(x, u, wp, wp, w, w) = T4(c, w, w, 1)
  BY <1>1, <1>2, <1>3, <1>4, <1>5, <1>6, <1>7 DEF Unpartition
<1> QED BY <1>8 DEF x, wp, n

\* Pooling of the queries halves a map.
LEMMA MaxPoolOf ==
  ASSUME NEW c, NEW w, NEW u, NEW n, c \in Pos, w \in Pos, u \in Pos, n \in Pos, Times(w, u, 2)
  PROVE  MaxPool(T4(c, w, w, n)) = T4(c, u, u, n)
<1>1. w >= 2 /\ w \div 2 = u
  BY DEF Times, Pos
<1>2. ToPlanes(T4(c, w, w, n)) = T4(w, w, c, n)
  BY ToPlanesOf
<1>3. Pool(T4(w, w, c, n), 2, 2) = T4(u, u, c, n)
  BY <1>1, PoolOf
<1>4. FromPlanes(T4(u, u, c, n)) = T4(c, u, u, n)
  BY FromPlanesOf
<1> QED BY <1>2, <1>3, <1>4 DEF MaxPool

\* A block of Hiera: from c to o channels, with heads of 72.
HieraBlockFits(blk, c, o, h) ==
    /\ blk.dim_in = c /\ blk.dim_out = o /\ blk.heads = h /\ blk.q_stride \in BOOLEAN
    /\ Times(o, 72, h) /\ (c # o <=> blk.q_stride)

\* The extent v becomes u where the block halves the map.
Shrinks(blk, v, u) == IF blk.q_stride THEN Times(v, u, 2) ELSE u = v

\* A block that pools halves its map,
LEMMA HalvedOf ==
  ASSUME NEW blk, NEW c, NEW v, NEW u, NEW n, c \in Pos, v \in Pos, u \in Pos, n \in Pos,
         Shrinks(blk, v, u)
  PROVE  Halved(T4(c, v, v, n), blk) = T4(c, u, u, n)
BY MaxPoolOf DEF Halved, Shrinks

\* as it works out for itself.
LEMMA HalvedExtentOf ==
  ASSUME NEW blk, NEW v, NEW u, v \in Pos, u \in Pos, Shrinks(blk, v, u)
  PROVE  HalvedExtent(v, blk) = u
BY DEF HalvedExtent, Shrinks, Times, Pos

\* A third of the fused projections.
LEMMA HieraThirdOf ==
  ASSUME NEW blk, NEW i, NEW o, NEW e, NEW p, NEW n, o \in Pos, e \in Pos, p \in Pos, n \in Pos,
         i \in 0 .. 2, Times(e, 3, o), blk.dim_out = o
  PROVE  HieraThird(T4(e, p, n, 1), i, blk) = T4(o, p, n, 1)
<1> DEFINE x == T4(e, p, n, 1)
           at == i * o
<1>0. e = 3 * o
  BY DEF Times
<1>1. Inside(<<e, p, n, 1>>, <<o, p, n, 1>>, at)
  <2>1. at \in Nat /\ at <= e - o
    <3>1. i = 0 \/ i = 1 \/ i = 2
      OBVIOUS
    <3> QED BY <1>0, <3>1 DEF Pos
  <2>2. 1 + (o - 1) * 1 + (p - 1) * e + (n - 1) * (e * p) + (1 - 1) * (e * p * n) = e * p * n - (e - o)
    BY DEF Pos
  <2> HIDE DEF at
  <2>3. e * p * n * 1 = e * p * n /\ e * p * n \in Int /\ e - o \in Int /\ at \in Int
    BY <1>0, <2>1 DEF Pos
  <2>4. at + (1 + (o - 1) * 1 + (p - 1) * e + (n - 1) * (e * p) + (1 - 1) * (e * p * n)) <= e * p * n * 1
    BY <2>1, <2>2, <2>3
  <2> QED BY <2>1, <2>4 DEF Inside
<1> HIDE DEF at
<1>2. Part(x, <<o, p, n, 1>>, at) = Cut(o, p, n, 1, <<1, e, e * p, e * p * n>>)
  BY <1>1, PartOf, Small
<1>3. Cont(Cut(o, p, n, 1, <<1, e, e * p, e * p * n>>)) = T4(o, p, n, 1)
  BY CutIsThere, Small
<1>4. x.ne[2] = p /\ x.ne[3] = n
  BY ExtentOf
<1> HIDE DEF x
<1>5. HieraThird(x, i, blk) = T4(o, p, n, 1)
  BY <1>2, <1>3, <1>4 DEF HieraThird, at
<1> QED BY <1>5 DEF x

\* Attention inside a block of Hiera.
LEMMA HieraAttentionOf ==
  ASSUME NEW blk, NEW c, NEW o, NEW h, NEW u, NEW e, NEW p, NEW n,
         o \in Pos, h \in Pos, u \in Pos, e \in Pos, p \in Pos, n \in Pos,
         Times(e, 3, o), HieraBlockFits(blk, c, o, h)
  PROVE  HieraAttention(T4(o, u, u, n), T4(e, p, n, 1), blk, Linear(o, o)) = T4(o, u, u, n)
<1> DEFINE q == T4(o, u, u, n)
           qkv == T4(e, p, n, 1)
           m == u * u
           k == T4(o, p, n, 1)
           hd == 72
<1>0. m \in Pos /\ hd \in Pos /\ Times(o, hd, h) /\ blk.dim_out = o /\ blk.heads = h
  BY PosTimes DEF HieraBlockFits, Pos
<1>1. o \div h = hd
  <2>1. h \in Int /\ h > 0 /\ o = 72 * h
    BY <1>0 DEF Times, Pos
  <2>2. (72 * h) \div h = 72
    BY <2>1
  <2> QED BY <2>1, <2>2
<1> HIDE DEF hd
<1>2. HieraThird(qkv, 1, blk) = k /\ HieraThird(qkv, 2, blk) = k
  <2>1. 1 \in 0 .. 2 /\ 2 \in 0 .. 2
    OBVIOUS
  <2> QED BY <1>0, <2>1, HieraThirdOf
<1>3. Reshape(q, o, m, n, 1) = T4(o, m, n, 1) /\ Reshape(T4(o, m, n, 1), o, u, u, n) = q
  <2>1. o * u * u * n = o * m * n * 1
    BY DEF Pos
  <2> HIDE DEF m
  <2> QED BY <1>0, <2>1, ReshapeOf, PosInt, Small
<1> HIDE DEF m
<1>4. Cont(Heads(T4(o, m, n, 1), hd, h)) = T4(hd, m, h, n)
  BY <1>0, HeadsOf
<1>5. Cont(Heads(k, hd, h)) = T4(hd, p, h, n) /\ Measures(Heads(k, hd, h), hd, p, h, n)
  BY <1>0, HeadsOf
<1> HIDE DEF k
<1>6. AttnExt(T4(hd, m, h, n), T4(hd, p, h, n), Heads(k, hd, h), NoMask) = T4(hd, h, m, n)
  BY <1>0, <1>5, AttnOf, NoMaskTakes
<1>7. Reshape(T4(hd, h, m, n), o, m, n, 1) = T4(o, m, n, 1)
  <2>1. hd * h * m * n = o * m * n * 1
    <3>1. o = hd * h
      BY <1>0 DEF Times
    <3> QED BY <1>0, <3>1 DEF Pos
  <2> QED BY <1>0, <2>1, ReshapeOf, PosInt, Small
<1>8. Through(Linear(o, o), T4(o, m, n, 1)) = T4(o, m, n, 1)
  BY <1>0, ThroughOf, Small
<1>9. q.ne[2] = u /\ q.ne[3] = u /\ q.ne[4] = n /\ u * u = m
  BY ExtentOf DEF m
<1> HIDE DEF q, qkv
<1>10. HieraAttention(q, qkv, blk, Linear(o, o)) = q
  BY <1>0, <1>1, <1>2, <1>3, <1>4, <1>5, <1>6, <1>7, <1>8, <1>9 DEF HieraAttention
<1> QED BY <1>10 DEF q, qkv

\* The weights of a block.
LEMMA HieraWeightsAre == \A c, o :
    /\ HieraWeights(c, o).norm1 = Norm(c) /\ HieraWeights(c, o).qkv = Linear(c, 3 * o)
    /\ HieraWeights(c, o).proj = Linear(o, o) /\ HieraWeights(c, o).norm2 = Norm(o)
    /\ HieraWeights(c, o).fc1 = Linear(o, 4 * o) /\ HieraWeights(c, o).fc2 = Linear(4 * o, o)
    /\ HieraWeights(c, o).dim_proj = Linear(c, o)
BY DEF HieraWeights

\* Attention with its projections and pooling.
LEMMA HieraAttendedOf ==
  ASSUME NEW blk, NEW c, NEW o, NEW h, NEW v, NEW u, NEW n,
         c \in Pos, o \in Pos, h \in Pos, v \in Pos, u \in Pos, n \in Pos,
         HieraBlockFits(blk, c, o, h), Shrinks(blk, v, u)
  PROVE  HieraAttended(T4(c, v, v, n), blk, HieraWeights(c, o)) = T4(o, u, u, n)
<1> DEFINE x == T4(c, v, v, n)
           p == v * v
           e == 3 * o
           qkv == T4(e, p, n, 1)
           W == HieraWeights(c, o)
<1>0. p \in Pos /\ e \in Pos /\ Times(e, 3, o) /\ blk.dim_in = c /\ blk.dim_out = o
  BY PosTimes, Small DEF HieraBlockFits, Times
<1>1. Reshape(x, c, p, n, 1) = T4(c, p, n, 1) /\ Reshape(T4(o, p, n, 1), o, v, v, n) = T4(o, v, v, n)
  <2>1. c * v * v * n = c * p * n * 1 /\ o * p * n * 1 = o * v * v * n
    BY DEF Pos
  <2> HIDE DEF p
  <2> QED BY <1>0, <2>1, ReshapeOf, PosInt, Small
<1>9. x.ne[2] = v /\ x.ne[3] = v /\ x.ne[4] = n /\ v * v = p
  BY ExtentOf
<1> HIDE DEF p, e
<1>2. Through(Linear(c, e), T4(c, p, n, 1)) = qkv
  BY <1>0, ThroughOf, Small
<1>3. HieraThird(qkv, 0, blk) = T4(o, p, n, 1)
  <2>1. 0 \in 0 .. 2
    OBVIOUS
  <2> QED BY <1>0, <2>1, HieraThirdOf
<1>4. Halved(T4(o, v, v, n), blk) = T4(o, u, u, n)
  BY HalvedOf
<1>5. HieraAttention(T4(o, u, u, n), qkv, blk, Linear(o, o)) = T4(o, u, u, n)
  BY <1>0, HieraAttentionOf
<1>6. W.qkv = Linear(c, e) /\ W.proj = Linear(o, o)
  BY HieraWeightsAre DEF e
<1> HIDE DEF x, qkv, W
<1>7. HieraWindows(x, qkv, blk, Linear(o, o)) = T4(o, u, u, n)
  BY <1>0, <1>1, <1>3, <1>4, <1>5, <1>9 DEF HieraWindows
<1>8. HieraAttended(x, blk, W) = T4(o, u, u, n)
  BY <1>0, <1>1, <1>2, <1>6, <1>7, <1>9 DEF HieraAttended
<1> QED BY <1>8 DEF x, W

\* Half the map has as many windows of half the size.
LEMMA CeilHalves ==
  ASSUME NEW a, NEW b, NEW w, NEW v, a \in Pos, b \in Pos, w \in Pos, v \in Pos, Times(w, a, 2), Times(v, b, 2)
  PROVE  Ceil(w, v) = Ceil(a, b)
<1> DEFINE m == a + b - 1
           q == m \div b
           r == (w + v - 1) \div v
<1>1. a \in Int /\ b \in Int /\ b > 0 /\ a > 0 /\ w = a * 2 /\ v = b * 2
  BY DEF Times, Pos
<1>2. q \in Int /\ q * b <= m /\ m < q * b + b
  BY <1>1
<1>3. r \in Int /\ r * (2 * b) <= 2 * m + 1 /\ 2 * m + 1 < r * (2 * b) + 2 * b
  BY <1>1
<1> DEFINE x == q * b
           y == r * b
<1>4. /\ x <= m /\ m < x + b /\ 2 * y <= 2 * m + 1 /\ 2 * m + 1 < 2 * y + 2 * b
      /\ x \in Int /\ y \in Int /\ m \in Int
  BY <1>1, <1>2, <1>3
<1>5. x - y < b /\ y - x < b
  BY <1>1, <1>4
<1>6. (q - r) * b < b /\ (r - q) * b < b
  BY <1>1, <1>2, <1>3, <1>5
<1>7. q - r < 1 /\ r - q < 1
  <2> DEFINE d1 == q - r
             d2 == r - q
  <2>1. d1 \in Int /\ d2 \in Int
    BY <1>2, <1>3
  <2> HIDE DEF d1, d2, q, r
  <2>2. d1 * b < b /\ d2 * b < b
    BY <1>6 DEF d1, d2
  <2>3. d1 < 1 /\ d2 < 1
    BY <1>1, <2>1, <2>2
  <2> QED BY <2>3 DEF d1, d2
<1>8. q = r
  BY <1>2, <1>3, <1>7
<1> QED BY <1>8 DEF Ceil

\* The map through windows and back: where a block pools, the windows are of half the
\* size after it.
LEMMA HieraSpatialOf ==
  ASSUME NEW blk, NEW c, NEW o, NEW h, NEW w, NEW a,
         c \in Pos, o \in Pos, h \in Pos, w \in Pos, a \in Pos,
         HieraBlockFits(blk, c, o, h), Shrinks(blk, w, a),
         blk.window = 0 \/ (blk.window \in Pos /\ \E u \in Pos : Shrinks(blk, blk.window, u))
  PROVE  HieraSpatial(T4(c, w, w, 1), a, a, blk, HieraWeights(c, o)) = T4(o, a, a, 1)
<1>1. CASE blk.window = 0
  <2>1. HieraAttended(T4(c, w, w, 1), blk, HieraWeights(c, o)) = T4(o, a, a, 1)
    BY HieraAttendedOf, Small
  <2> QED BY <1>1, <2>1 DEF HieraSpatial
<1>2. CASE blk.window # 0
  <2> PICK u \in Pos : Shrinks(blk, blk.window, u)
    BY <1>2
  <2> DEFINE v == blk.window
             n == Ceil(w, v) * Ceil(w, v)
             m == Ceil(a, u)
             x == T4(c, w, w, 1)
             W == HieraWeights(c, o)
  <2>1. v \in Pos /\ v # 0
    BY <1>2
  <2>2. HalvedExtent(v, blk) = u
    BY <2>1, HalvedExtentOf
  <2>3. Partition(x, v) = T4(c, v, v, n)
    BY <2>1, PartitionOf
  <2>4. Ceil(w, v) = m
    <3>1. CASE blk.q_stride
      BY <2>1, <3>1, CeilHalves DEF Shrinks
    <3>2. CASE ~blk.q_stride
      BY <3>2 DEF Shrinks
    <3> QED BY <3>1, <3>2
  <2>5. n \in Pos
    BY <2>1, CeilOf, PosTimes
  <2>6. HieraAttended(T4(c, v, v, n), blk, W) = T4(o, u, u, n)
    BY <2>1, <2>5, HieraAttendedOf
  <2>7. Unpartition(T4(o, u, u, n), u, m * u, m * u, a, a) = T4(o, a, a, 1)
    BY <2>4, UnpartitionOf
  <2> HIDE DEF x, W, n, m
  <2>8. HieraSpatial(x, a, a, blk, W) = T4(o, a, a, 1)
    BY <2>1, <2>2, <2>3, <2>6, <2>7 DEF HieraSpatial, m
  <2> QED BY <2>8 DEF x, W
<1> QED BY <1>1, <1>2

\* A block of Hiera (sam2_hiera_block_forward).
LEMMA HieraBlockForwardOf ==
  ASSUME NEW blk, NEW c, NEW o, NEW h, NEW w, NEW a,
         c \in Pos, o \in Pos, h \in Pos, w \in Pos, a \in Pos,
         HieraBlockFits(blk, c, o, h), Shrinks(blk, w, a),
         blk.window = 0 \/ (blk.window \in Pos /\ \E u \in Pos : Shrinks(blk, blk.window, u))
  PROVE  HieraBlockForward(T4(c, w, w, 1), blk, HieraWeights(c, o)) = T4(o, a, a, 1)
<1> DEFINE x == T4(c, w, w, 1)
           y == T4(o, a, a, 1)
           W == HieraWeights(c, o)
           p == w * w
           q == a * a
<1>0. /\ p \in Pos /\ q \in Pos /\ 4 * o \in Pos
      /\ blk.dim_in = c /\ blk.dim_out = o /\ (c # o <=> blk.q_stride)
  BY PosTimes, Small DEF HieraBlockFits
<1>1. W.norm1 = Norm(c) /\ W.norm2 = Norm(o) /\ W.fc1 = Linear(o, 4 * o) /\ W.fc2 = Linear(4 * o, o)
      /\ W.dim_proj = Linear(c, o)
  BY HieraWeightsAre
<1>2. LayerNorm(x, Norm(c)) = x /\ LayerNorm(y, Norm(o)) = y /\ Add(y, y) = y
  BY LayerNormOf, AddSame, Small
<1>3. HieraSpatial(x, a, a, blk, W) = y
  BY HieraSpatialOf
<1>4. HalvedExtent(w, blk) = a
  BY HalvedExtentOf
<1>5. Halved(x, blk) = T4(c, a, a, 1) /\ Halved(T4(o, w, w, 1), blk) = y
  BY HalvedOf, Small
<1>6. Reshape(x, c, p, 1, 1) = T4(c, p, 1, 1) /\ Reshape(T4(o, p, 1, 1), o, w, w, 1) = T4(o, w, w, 1)
  <2>1. c * w * w * 1 = c * p * 1 * 1 /\ o * p * 1 * 1 = o * w * w * 1
    BY DEF Pos
  <2> HIDE DEF p
  <2> QED BY <1>0, <2>1, ReshapeOf, PosInt, Small
<1>7. Through(Linear(c, o), T4(c, p, 1, 1)) = T4(o, p, 1, 1)
  BY <1>0, ThroughOf, Small
<1>8. Reshape(y, o, q, 1, 1) = T4(o, q, 1, 1) /\ Reshape(T4(o, q, 1, 1), o, a, a, 1) = y
  <2>1. o * a * a * 1 = o * q * 1 * 1
    BY DEF Pos
  <2> HIDE DEF q
  <2> QED BY <1>0, <2>1, ReshapeOf, PosInt, Small
<1>9. Through2(T4(o, q, 1, 1), Linear(o, 4 * o), Linear(4 * o, o)) = T4(o, q, 1, 1)
  BY <1>0, Through2Of, Small
<1>10. /\ x.ne[2] = w /\ x.ne[3] = w /\ w * w = p
       /\ y.ne[1] = o /\ y.ne[2] = a /\ y.ne[3] = a /\ a * a = q
  BY ExtentOf
<1>11. c = o => T4(c, a, a, 1) = y
  OBVIOUS
<1> HIDE DEF x, y, W, p, q
<1>12. HieraShortcut(x, x, blk, W) = y
  BY <1>0, <1>1, <1>5, <1>6, <1>7, <1>10, <1>11 DEF HieraShortcut
<1>13. HieraResidual(x, x, blk, W) = y
  BY <1>2, <1>3, <1>4, <1>10, <1>12 DEF HieraResidual
<1>14. HieraMlp(y, W) = y
  BY <1>1, <1>2, <1>8, <1>9, <1>10 DEF HieraMlp
<1>15. HieraBlockForward(x, blk, W) = y
  BY <1>1, <1>2, <1>13, <1>14 DEF HieraBlockForward
<1> QED BY <1>15 DEF x, y, W

\* The hyperparameters of Hiera.
LEMMA HieraSizes == /\ hp.hiera_embed_dim = 144 /\ hp.hiera_num_heads = 2 /\ hp.hiera_stages = <<2, 6, 36, 4>>
                    /\ hp.hiera_q_pool = 3 /\ hp.hiera_window_spec = <<8, 4, 16, 8>>
                    /\ hp.hiera_global_idx = {23, 33, 43} /\ hp.fpn_top_down_levels = {2, 3} /\ hp.scalp = 1
BY DEF hp

\* The blocks at which its stages end,
LEMMA HieraEnds == StageEnd(0) = 1 /\ StageEnd(1) = 7 /\ StageEnd(2) = 43 /\ StageEnd(3) = 47 /\ TotalBlocks = 48
<1>1. StageEnd(0) = 1
  BY HieraSizes DEF StageEnd
<1>2. StageEnd(1) = 7
  BY HieraSizes DEF StageEnd
<1>3. StageEnd(2) = 43
  BY HieraSizes DEF StageEnd
<1>4. StageEnd(3) = 47
  BY HieraSizes DEF StageEnd
<1> QED BY <1>1, <1>2, <1>3, <1>4 DEF TotalBlocks

\* the channels of the stages,
LEMMA StageDims == StageDim(0) = 144 /\ StageDim(1) = 288 /\ StageDim(2) = 576 /\ StageDim(3) = 1152
BY HieraSizes DEF StageDim, Doublings

\* and the stage of a block,
StageOf(i) == IF i <= 1 THEN 0 ELSE IF i <= 7 THEN 1 ELSE IF i <= 43 THEN 2 ELSE 3

\* as the code counts it.
LEMMA StageIs == ASSUME NEW i, i \in 0 .. 47 PROVE Stage(i) = StageOf(i)
<1> DEFINE Within(s) == i <= StageEnd(s) /\ (s = 0 \/ i > StageEnd(s - 1))
<1>1. /\ Within(0) <=> i <= 1
      /\ Within(1) <=> i <= 7 /\ i > 1
      /\ Within(2) <=> i <= 43 /\ i > 7
      /\ Within(3) <=> i <= 47 /\ i > 43
  <2>1. 1 - 1 = 0 /\ 2 - 1 = 1 /\ 3 - 1 = 2
    OBVIOUS
  <2> QED BY <2>1, HieraEnds
<1> HIDE DEF Within
<1>2. \A s \in 0 .. 3 : Within(s) <=> s = StageOf(i)
  <2>1. 0 .. 3 = {0, 1, 2, 3}
    OBVIOUS
  <2> QED BY <1>1, <2>1 DEF StageOf
<1>3. StageOf(i) \in 0 .. 3
  BY DEF StageOf
<1>4. (CHOOSE s \in 0 .. 3 : Within(s)) = StageOf(i)
  BY <1>2, <1>3
<1> QED BY <1>4 DEF Stage, Within

\* A block that keeps the channels, and one that halves the map.
Keeps(i, w, c, h) ==
    LET blk == HieraBlock(i)
    IN  HieraBlockFits(blk, c, c, h) /\ blk.q_stride = FALSE /\ blk.window = w

\* A block that pools.
Halves(i, w, c, o, h) ==
    LET blk == HieraBlock(i)
    IN  HieraBlockFits(blk, c, o, h) /\ blk.q_stride = TRUE /\ blk.window = w

\* The channels double,
LEMMA DoublingIs == Doublings[1] = 1 /\ Doublings[2] = 2 /\ Doublings[3] = 4 /\ Doublings[4] = 8
BY DEF Doublings

\* so that these are the blocks of each stage,
LEMMA Blocks0 == ASSUME NEW i, i \in 0 .. 1 PROVE Keeps(i, 8, 144, 2)
<1> DEFINE s == 0
           blk == HieraBlock(i)
<1>1. Stage(i) = s /\ s \in Nat /\ (s > 0 /\ i = StageEnd(s - 1) + 1) = FALSE
  <2>1. Stage(i) = s
    BY StageIs DEF StageOf
  <2> QED BY <2>1, HieraEnds
<1> HIDE DEF s
<1>2. /\ blk.window = (IF i \in {23, 33, 43} THEN 0 ELSE hp.hiera_window_spec[s + 1])
      /\ blk.dim_in = StageDim(s) /\ blk.dim_out = StageDim(s)
      /\ blk.heads = hp.hiera_num_heads * Doublings[s + 1] /\ blk.q_stride = FALSE
  BY <1>1, HieraSizes DEF HieraBlock
<1>3. hp.hiera_window_spec[s + 1] = 8 /\ StageDim(s) = 144 /\ hp.hiera_num_heads * Doublings[s + 1] = 2
  BY HieraSizes, StageDims, DoublingIs DEF s
<1> HIDE DEF blk
<1>4. HieraBlockFits(blk, 144, 144, 2)
  <2>1. blk.q_stride \in BOOLEAN /\ ~blk.q_stride
    BY <1>2
  <2>2. Times(144, 72, 2) /\ 144 = 144
    BY DEF Times
  <2> QED BY <1>2, <1>3, <2>1, <2>2 DEF HieraBlockFits
<1>5. blk.window = (8)
  BY <1>2, <1>3
<1> QED BY <1>2, <1>4, <1>5 DEF Keeps, blk

\* of the second,
LEMMA Blocks1 == ASSUME NEW i, i \in 3 .. 7 PROVE Keeps(i, 4, 288, 4)
<1> DEFINE s == 1
           blk == HieraBlock(i)
<1>1. Stage(i) = s /\ s \in Nat /\ (s > 0 /\ i = StageEnd(s - 1) + 1) = FALSE
  <2>1. Stage(i) = s
    BY StageIs DEF StageOf
  <2> QED BY <2>1, HieraEnds
<1> HIDE DEF s
<1>2. /\ blk.window = (IF i \in {23, 33, 43} THEN 0 ELSE hp.hiera_window_spec[s + 1])
      /\ blk.dim_in = StageDim(s) /\ blk.dim_out = StageDim(s)
      /\ blk.heads = hp.hiera_num_heads * Doublings[s + 1] /\ blk.q_stride = FALSE
  BY <1>1, HieraSizes DEF HieraBlock
<1>3. hp.hiera_window_spec[s + 1] = 4 /\ StageDim(s) = 288 /\ hp.hiera_num_heads * Doublings[s + 1] = 4
  BY HieraSizes, StageDims, DoublingIs DEF s
<1> HIDE DEF blk
<1>4. HieraBlockFits(blk, 288, 288, 4)
  <2>1. blk.q_stride \in BOOLEAN /\ ~blk.q_stride
    BY <1>2
  <2>2. Times(288, 72, 4) /\ 288 = 288
    BY DEF Times
  <2> QED BY <1>2, <1>3, <2>1, <2>2 DEF HieraBlockFits
<1>5. blk.window = (4)
  BY <1>2, <1>3
<1> QED BY <1>2, <1>4, <1>5 DEF Keeps, blk

\* of the third, with its global blocks,
LEMMA Blocks2 == ASSUME NEW i, i \in 9 .. 43 PROVE Keeps(i, IF i \in {23, 33, 43} THEN 0 ELSE 16, 576, 8)
<1> DEFINE s == 2
           blk == HieraBlock(i)
<1>1. Stage(i) = s /\ s \in Nat /\ (s > 0 /\ i = StageEnd(s - 1) + 1) = FALSE
  <2>1. Stage(i) = s
    BY StageIs DEF StageOf
  <2> QED BY <2>1, HieraEnds
<1> HIDE DEF s
<1>2. /\ blk.window = (IF i \in {23, 33, 43} THEN 0 ELSE hp.hiera_window_spec[s + 1])
      /\ blk.dim_in = StageDim(s) /\ blk.dim_out = StageDim(s)
      /\ blk.heads = hp.hiera_num_heads * Doublings[s + 1] /\ blk.q_stride = FALSE
  BY <1>1, HieraSizes DEF HieraBlock
<1>3. hp.hiera_window_spec[s + 1] = 16 /\ StageDim(s) = 576 /\ hp.hiera_num_heads * Doublings[s + 1] = 8
  BY HieraSizes, StageDims, DoublingIs DEF s
<1> HIDE DEF blk
<1>4. HieraBlockFits(blk, 576, 576, 8)
  <2>1. blk.q_stride \in BOOLEAN /\ ~blk.q_stride
    BY <1>2
  <2>2. Times(576, 72, 8) /\ 576 = 576
    BY DEF Times
  <2> QED BY <1>2, <1>3, <2>1, <2>2 DEF HieraBlockFits
<1>5. blk.window = (IF i \in {23, 33, 43} THEN 0 ELSE 16)
  BY <1>2, <1>3
<1> QED BY <1>2, <1>4, <1>5 DEF Keeps, blk

\* and of the last,
LEMMA Blocks3 == ASSUME NEW i, i \in 45 .. 47 PROVE Keeps(i, 8, 1152, 16)
<1> DEFINE s == 3
           blk == HieraBlock(i)
<1>1. Stage(i) = s /\ s \in Nat /\ (s > 0 /\ i = StageEnd(s - 1) + 1) = FALSE
  <2>1. Stage(i) = s
    BY StageIs DEF StageOf
  <2> QED BY <2>1, HieraEnds
<1> HIDE DEF s
<1>2. /\ blk.window = (IF i \in {23, 33, 43} THEN 0 ELSE hp.hiera_window_spec[s + 1])
      /\ blk.dim_in = StageDim(s) /\ blk.dim_out = StageDim(s)
      /\ blk.heads = hp.hiera_num_heads * Doublings[s + 1] /\ blk.q_stride = FALSE
  BY <1>1, HieraSizes DEF HieraBlock
<1>3. hp.hiera_window_spec[s + 1] = 8 /\ StageDim(s) = 1152 /\ hp.hiera_num_heads * Doublings[s + 1] = 16
  BY HieraSizes, StageDims, DoublingIs DEF s
<1> HIDE DEF blk
<1>4. HieraBlockFits(blk, 1152, 1152, 16)
  <2>1. blk.q_stride \in BOOLEAN /\ ~blk.q_stride
    BY <1>2
  <2>2. Times(1152, 72, 16) /\ 1152 = 1152
    BY DEF Times
  <2> QED BY <1>2, <1>3, <2>1, <2>2 DEF HieraBlockFits
<1>5. blk.window = (8)
  BY <1>2, <1>3
<1> QED BY <1>2, <1>4, <1>5 DEF Keeps, blk

\* and these the ones between them.
LEMMA Block2 == Halves(2, 8, 144, 288, 4)
<1> DEFINE i == 2
           s == 1
           f == 0
           blk == HieraBlock(i)
<1>1. Stage(i) = s /\ s - 1 = f /\ i \notin {23, 33, 43} /\ (s > 0 /\ i = StageEnd(f) + 1) = TRUE /\ (s <= 3) = TRUE
  <2>1. Stage(i) = s
    BY StageIs DEF StageOf
  <2> QED BY <2>1, HieraEnds
<1> HIDE DEF s, f, i
<1>2. /\ blk.window = hp.hiera_window_spec[f + 1]
      /\ blk.dim_in = StageDim(f) /\ blk.dim_out = StageDim(s)
      /\ blk.heads = hp.hiera_num_heads * Doublings[s + 1] /\ blk.q_stride = TRUE
  BY <1>1, HieraSizes DEF HieraBlock
<1>3. hp.hiera_window_spec[f + 1] = 8 /\ StageDim(f) = 144
  BY HieraSizes, StageDims DEF f
<1>4. StageDim(s) = 288 /\ hp.hiera_num_heads * Doublings[s + 1] = 4
  BY HieraSizes, StageDims, DoublingIs DEF s
<1> HIDE DEF blk
<1>5. HieraBlockFits(blk, 144, 288, 4)
  <2>1. blk.q_stride \in BOOLEAN /\ blk.q_stride
    BY <1>2
  <2>2. Times(288, 72, 4) /\ 144 # 288
    BY DEF Times
  <2> QED BY <1>2, <1>3, <1>4, <2>1, <2>2 DEF HieraBlockFits
<1> QED BY <1>2, <1>3, <1>5 DEF Halves, blk, i

LEMMA Block8 == Halves(8, 4, 288, 576, 8)
<1> DEFINE i == 8
           s == 2
           f == 1
           blk == HieraBlock(i)
<1>1. Stage(i) = s /\ s - 1 = f /\ i \notin {23, 33, 43} /\ (s > 0 /\ i = StageEnd(f) + 1) = TRUE /\ (s <= 3) = TRUE
  <2>1. Stage(i) = s
    BY StageIs DEF StageOf
  <2> QED BY <2>1, HieraEnds
<1> HIDE DEF s, f, i
<1>2. /\ blk.window = hp.hiera_window_spec[f + 1]
      /\ blk.dim_in = StageDim(f) /\ blk.dim_out = StageDim(s)
      /\ blk.heads = hp.hiera_num_heads * Doublings[s + 1] /\ blk.q_stride = TRUE
  BY <1>1, HieraSizes DEF HieraBlock
<1>3. hp.hiera_window_spec[f + 1] = 4 /\ StageDim(f) = 288
  BY HieraSizes, StageDims DEF f
<1>4. StageDim(s) = 576 /\ hp.hiera_num_heads * Doublings[s + 1] = 8
  BY HieraSizes, StageDims, DoublingIs DEF s
<1> HIDE DEF blk
<1>5. HieraBlockFits(blk, 288, 576, 8)
  <2>1. blk.q_stride \in BOOLEAN /\ blk.q_stride
    BY <1>2
  <2>2. Times(576, 72, 8) /\ 288 # 576
    BY DEF Times
  <2> QED BY <1>2, <1>3, <1>4, <2>1, <2>2 DEF HieraBlockFits
<1> QED BY <1>2, <1>3, <1>5 DEF Halves, blk, i

LEMMA Block44 == Halves(44, 16, 576, 1152, 16)
<1> DEFINE i == 44
           s == 3
           f == 2
           blk == HieraBlock(i)
<1>1. Stage(i) = s /\ s - 1 = f /\ i \notin {23, 33, 43} /\ (s > 0 /\ i = StageEnd(f) + 1) = TRUE /\ (s <= 3) = TRUE
  <2>1. Stage(i) = s
    BY StageIs DEF StageOf
  <2> QED BY <2>1, HieraEnds
<1> HIDE DEF s, f, i
<1>2. /\ blk.window = hp.hiera_window_spec[f + 1]
      /\ blk.dim_in = StageDim(f) /\ blk.dim_out = StageDim(s)
      /\ blk.heads = hp.hiera_num_heads * Doublings[s + 1] /\ blk.q_stride = TRUE
  BY <1>1, HieraSizes DEF HieraBlock
<1>3. hp.hiera_window_spec[f + 1] = 16 /\ StageDim(f) = 576
  BY HieraSizes, StageDims DEF f
<1>4. StageDim(s) = 1152 /\ hp.hiera_num_heads * Doublings[s + 1] = 16
  BY HieraSizes, StageDims, DoublingIs DEF s
<1> HIDE DEF blk
<1>5. HieraBlockFits(blk, 576, 1152, 16)
  <2>1. blk.q_stride \in BOOLEAN /\ blk.q_stride
    BY <1>2
  <2>2. Times(1152, 72, 16) /\ 576 # 1152
    BY DEF Times
  <2> QED BY <1>2, <1>3, <1>4, <2>1, <2>2 DEF HieraBlockFits
<1> QED BY <1>2, <1>3, <1>5 DEF Halves, blk, i

\* A block with the weights that go with it.
HieraTold(x, i) == HieraBlockForward(x, HieraBlock(i), HieraWeights(HieraBlock(i).dim_in, HieraBlock(i).dim_out))

\* A block of a stage keeps the map,
LEMMA KeepsOf ==
  ASSUME NEW i, NEW v, NEW c, NEW h, NEW w, c \in Pos, h \in Pos, w \in Pos, v = 0 \/ v \in Pos, Keeps(i, v, c, h)
  PROVE  HieraTold(T4(c, w, w, 1), i) = T4(c, w, w, 1)
<1> DEFINE blk == HieraBlock(i)
<1>1. HieraBlockFits(blk, c, c, h) /\ blk.q_stride = FALSE /\ blk.window = v /\ blk.dim_in = c /\ blk.dim_out = c
  BY DEF Keeps, HieraBlockFits
<1> HIDE DEF blk
<1>2. Shrinks(blk, w, w) /\ (blk.window = 0 \/ (blk.window \in Pos /\ \E u \in Pos : Shrinks(blk, blk.window, u)))
  BY <1>1 DEF Shrinks
<1>3. HieraBlockForward(T4(c, w, w, 1), blk, HieraWeights(c, c)) = T4(c, w, w, 1)
  BY <1>1, <1>2, HieraBlockForwardOf
<1>4. HieraTold(T4(c, w, w, 1), i) = HieraBlockForward(T4(c, w, w, 1), blk, HieraWeights(blk.dim_in, blk.dim_out))
  BY DEF HieraTold, blk
<1> QED BY <1>1, <1>3, <1>4

\* and one between two stages halves it.
LEMMA HalvesOf ==
  ASSUME NEW i, NEW v, NEW u, NEW c, NEW o, NEW h, NEW w, NEW a,
         c \in Pos, o \in Pos, h \in Pos, w \in Pos, a \in Pos, v \in Pos, u \in Pos,
         Times(v, u, 2), Times(w, a, 2), Halves(i, v, c, o, h)
  PROVE  HieraTold(T4(c, w, w, 1), i) = T4(o, a, a, 1)
<1> DEFINE blk == HieraBlock(i)
<1>1. HieraBlockFits(blk, c, o, h) /\ blk.q_stride = TRUE /\ blk.window = v /\ blk.dim_in = c /\ blk.dim_out = o
  BY DEF Halves, HieraBlockFits
<1> HIDE DEF blk
<1>2. Shrinks(blk, w, a) /\ (blk.window = 0 \/ (blk.window \in Pos /\ \E x \in Pos : Shrinks(blk, blk.window, x)))
  BY <1>1 DEF Shrinks
<1>3. HieraBlockForward(T4(c, w, w, 1), blk, HieraWeights(c, o)) = T4(o, a, a, 1)
  BY <1>1, <1>2, HieraBlockForwardOf
<1>4. HieraTold(T4(c, w, w, 1), i) = HieraBlockForward(T4(c, w, w, 1), blk, HieraWeights(blk.dim_in, blk.dim_out))
  BY DEF HieraTold, blk
<1> QED BY <1>1, <1>3, <1>4

\* The sides of the four maps of an encoder.
Sides(a, b, c, d) ==
    /\ a \in Pos /\ b \in Pos /\ c \in Pos /\ d \in Pos
    /\ Times(a, b, 2) /\ Times(b, c, 2) /\ Times(c, d, 2)

\* The map after n blocks, from sides a, b, c and d of the stages.
HieraMap(n, a, b, c, d) ==
    IF n <= 2 THEN T4(144, a, a, 1) ELSE IF n <= 8 THEN T4(288, b, b, 1)
    ELSE IF n <= 44 THEN T4(576, c, c, 1) ELSE T4(1152, d, d, 1)

\* Every block leads from one map to the next.
LEMMA HieraMapOf ==
  ASSUME NEW i, NEW a, NEW b, NEW c, NEW d, i \in 0 .. 47, Sides(a, b, c, d)
  PROVE  HieraTold(HieraMap(i, a, b, c, d), i) = HieraMap(i + 1, a, b, c, d)
<1> DEFINE x0 == T4(144, a, a, 1)
           x1 == T4(288, b, b, 1)
           x2 == T4(576, c, c, 1)
           x3 == T4(1152, d, d, 1)
<1>0. /\ a \in Pos /\ b \in Pos /\ c \in Pos /\ d \in Pos /\ Times(a, b, 2) /\ Times(b, c, 2) /\ Times(c, d, 2)
      /\ 144 \in Pos /\ 288 \in Pos /\ 576 \in Pos /\ 1152 \in Pos /\ 2 \in Pos /\ 4 \in Pos /\ 8 \in Pos /\
         16 \in Pos
      /\ Times(8, 4, 2) /\ Times(4, 2, 2) /\ Times(16, 8, 2)
  BY DEF Sides, Times, Pos
<1>1. CASE i \in 0 .. 1
  <2>1. HieraTold(x0, i) = x0
    BY <1>0, <1>1, Blocks0, KeepsOf
  <2> QED BY <1>1, <2>1 DEF HieraMap
<1>2. CASE i = 2
  <2>1. HieraTold(x0, 2) = x1
    BY <1>0, Block2, HalvesOf
  <2> QED BY <1>2, <2>1 DEF HieraMap
<1>3. CASE i \in 3 .. 7
  <2>1. HieraTold(x1, i) = x1
    BY <1>0, <1>3, Blocks1, KeepsOf
  <2> QED BY <1>3, <2>1 DEF HieraMap
<1>4. CASE i = 8
  <2>1. HieraTold(x1, 8) = x2
    BY <1>0, Block8, HalvesOf
  <2> QED BY <1>4, <2>1 DEF HieraMap
<1>5. CASE i \in 9 .. 43
  <2> DEFINE v == IF i \in {23, 33, 43} THEN 0 ELSE 16
  <2>1. v = 0 \/ v \in Pos
    BY <1>0
  <2>2. Keeps(i, v, 576, 8)
    BY <1>5, Blocks2
  <2> HIDE DEF v
  <2>3. HieraTold(x2, i) = x2
    BY <1>0, <2>1, <2>2, KeepsOf
  <2> QED BY <1>5, <2>3 DEF HieraMap
<1>6. CASE i = 44
  <2>1. HieraTold(x2, 44) = x3
    BY <1>0, Block44, HalvesOf
  <2> QED BY <1>6, <2>1 DEF HieraMap
<1>7. CASE i \in 45 .. 47
  <2>1. HieraTold(x3, i) = x3
    BY <1>0, <1>7, Blocks3, KeepsOf
  <2> QED BY <1>7, <2>1 DEF HieraMap
<1>8. i \in 0 .. 1 \/ i = 2 \/ i \in 3 .. 7 \/ i = 8 \/ i \in 9 .. 43 \/ i = 44 \/ i \in 45 .. 47
  OBVIOUS
<1> QED BY <1>1, <1>2, <1>3, <1>4, <1>5, <1>6, <1>7, <1>8

\* The patches of an image and their positions (sam2_hiera_pos_embed).
LEMMA HieraPatchesOf ==
  ASSUME NEW s, NEW a, s \in Pos, a \in Pos, Times(s, 4, a)
  PROVE  /\ HieraPatches(T4(s, s, 3, 1)) = T4(144, a, a, 1)
         /\ HieraPositions(T4(144, a, a, 1)) = T4(144, a, a, 1) /\ HieraPe(s) = T4(144, a, a, 1)
<1>0. 144 \in Pos /\ 7 \in Pos
  BY DEF Pos
<1>1. Out(s, 7, 4, 3) = a /\ s \div 4 = a
  <2>1. s = 4 * a /\ a \in Int
    BY DEF Times, Pos
  <2>2. (4 * a + 2 * 3 - 7) \div 4 + 1 = a /\ (4 * a) \div 4 = a
    BY <2>1
  <2> QED BY <2>1, <2>2 DEF Out
<1>2. HieraPatchEmbed.w = T4(7, 7, 3, 144) /\ HieraPatchEmbed.b = T1(144)
  BY HieraSizes, FilterIs DEF HieraPatchEmbed
<1>3. Conv(T4(7, 7, 3, 144), T4(s, s, 3, 1), 4, 3) = T4(a, a, 144, 1)
  BY <1>0, <1>1, ConvOf, Small
<1>4. AddBias(T4(a, a, 144, 1), T1(144)) = T4(a, a, 144, 1) /\ T1(144).ne[1] = 144
  BY <1>0, AddBiasOf, Small, T1Is, ExtentOf
<1>5. FromPlanes(T4(a, a, 144, 1)) = T4(144, a, a, 1)
  BY <1>0, FromPlanesOf, Small
<1>6. HieraPatches(T4(s, s, 3, 1)) = T4(144, a, a, 1)
  <2> DEFINE image == T4(s, s, 3, 1)
             x == T4(a, a, 144, 1)
             y == T4(144, a, a, 1)
  <2>1. FromPlanes(Add(x, Reshape(T1(144), 1, 1, 144, 1))) = y
    <3> HIDE DEF x, y
    <3>1. AddBias(x, T1(144)) = x
      BY <1>4 DEF x
    <3> QED BY <3>1, <1>4, <1>5 DEF AddBias, x, y
  <2>2. Conv(HieraPatchEmbed.w, image, 4, 3) = x
    BY <1>2, <1>3
  <2> HIDE DEF x, y, image
  <2>3. HieraPatches(image) = y
    BY <1>2, <2>1, <2>2, HieraSizes DEF HieraPatches
  <2> QED BY <2>3 DEF image, y
<1>7. HieraPositions(T4(144, a, a, 1)) = T4(144, a, a, 1)
  BY HieraSizes, ExtentOf DEF HieraPositions
<1>8. HieraPe(s) = T4(144, a, a, 1)
  BY <1>1, HieraSizes DEF HieraPe
<1> QED BY <1>6, <1>7, <1>8

\* The filters of the neck,
LEMMA HieraFpnIs == ASSUME NEW i, i \in 0 .. 3 PROVE HieraFpn[3 - i] = Filter(1, StageDim(i), D)
<1>1. 3 - i \in 0 .. 3 /\ 3 - (3 - i) = i
  OBVIOUS
<1> QED BY <1>1 DEF HieraFpn

\* one of them,
LEMMA LateralOf ==
  ASSUME NEW i, NEW c, NEW w, i \in 0 .. 3, c \in Pos, w \in Pos, StageDim(i) = c
  PROVE  FromPlanes(AddBias(ConvPatches(HieraFpn[3 - i].w, ToPlanes(T4(c, w, w, 1))), HieraFpn[3 - i].b)) = T4(D, w, w, 1)
<1>1. HieraFpn[3 - i] = Filter(1, c, D) /\ D \in Pos
  BY HieraFpnIs, Numbers, HeadSizes
<1>2. ToPlanes(T4(c, w, w, 1)) = T4(w, w, c, 1)
  BY ToPlanesOf, Small
<1>3. AddBias(ConvPatches(Filter(1, c, D).w, T4(w, w, c, 1)), Filter(1, c, D).b) = T4(w, w, D, 1)
  BY <1>1, Filtered1, Small
<1>4. FromPlanes(T4(w, w, D, 1)) = T4(D, w, w, 1)
  BY <1>1, FromPlanesOf, Small
<1> QED BY <1>1, <1>2, <1>3, <1>4

\* and the neck (sam2_build_fpn_neck_graph).
LEMMA FpnNeckOf ==
  ASSUME NEW a, NEW b, NEW c, NEW d, NEW st, Sides(a, b, c, d),
         st = [s \in 0 .. 3 |-> <<T4(144, a, a, 1), T4(288, b, b, 1), T4(576, c, c, 1), T4(1152, d, d, 1)>>[s + 1]]
  PROVE  /\ FpnNeck(st)[0] = T4(D, a, a, 1) /\ FpnNeck(st)[1] = T4(D, b, b, 1) /\ FpnNeck(st)[2] = T4(D, c, c, 1)
<1> DEFINE Lateral(i) == FromPlanes(AddBias(ConvPatches(HieraFpn[3 - i].w, ToPlanes(st[i])), HieraFpn[3 - i].b))
           Double(x)  == FromPlanes(Upscale(ToPlanes(x), 2))
<1>0. /\ a \in Pos /\ b \in Pos /\ c \in Pos /\ d \in Pos /\ Times(c, d, 2) /\ D \in Pos
      /\ 144 \in Pos /\ 288 \in Pos /\ 576 \in Pos /\ 1152 \in Pos
  BY Numbers, HeadSizes DEF Sides, Pos
<1>1. st[0] = T4(144, a, a, 1) /\ st[1] = T4(288, b, b, 1) /\ st[2] = T4(576, c, c, 1) /\ st[3] = T4(1152, d, d, 1)
  OBVIOUS
<1>2. Lateral(0) = T4(D, a, a, 1) /\ Lateral(1) = T4(D, b, b, 1) /\ Lateral(2) = T4(D, c, c, 1) /\
      Lateral(3) = T4(D, d, d, 1)
  <2>1. Lateral(0) = T4(D, a, a, 1)
    BY <1>0, <1>1, StageDims, LateralOf
  <2>2. Lateral(1) = T4(D, b, b, 1)
    BY <1>0, <1>1, StageDims, LateralOf
  <2>3. Lateral(2) = T4(D, c, c, 1)
    BY <1>0, <1>1, StageDims, LateralOf
  <2>4. Lateral(3) = T4(D, d, d, 1)
    BY <1>0, <1>1, StageDims, LateralOf
  <2> QED BY <2>1, <2>2, <2>3, <2>4
<1>3. Double(T4(D, d, d, 1)) = T4(D, c, c, 1)
  <2>1. d * 2 = c
    BY <1>0 DEF Times, Pos
  <2>2. ToPlanes(T4(D, d, d, 1)) = T4(d, d, D, 1) /\ FromPlanes(T4(c, c, D, 1)) = T4(D, c, c, 1)
    BY <1>0, ToPlanesOf, FromPlanesOf, Small
  <2>3. Upscale(T4(d, d, D, 1), 2) = T4(d * 2, d * 2, D, 1)
    BY <1>0, UpscaleOf, Small
  <2> QED BY <2>1, <2>2, <2>3
<1>4. Add(T4(D, c, c, 1), T4(D, c, c, 1)) = T4(D, c, c, 1)
  BY <1>0, AddSame, Small
<1> HIDE DEF Lateral, Double
<1>5. FpnNeck(st) = [i \in 0 .. (3 - hp.scalp) |->
            IF i \in hp.fpn_top_down_levels THEN Add(Lateral(i), Double(Lateral(i + 1))) ELSE Lateral(i)]
  BY DEF FpnNeck, Lateral, Double
<1>6. 0 \in 0 .. 2 /\ 1 \in 0 .. 2 /\ 2 \in 0 .. 2 /\ 3 - 1 = 2 /\ 2 + 1 = 3
  OBVIOUS
<1> QED BY <1>2, <1>3, <1>4, <1>5, <1>6, HieraSizes

-----------------------------------------------------------------------------
(* RepViT. *)

\* The squeezed channels are some.
LEMMA DivisiblePos == ASSUME NEW v, v \in Nat PROVE MakeDivisible(v) \in Pos
<1> DEFINE rounded == ((v + 4) \div 8) * 8
           up == IF rounded < 8 THEN 8 ELSE rounded
<1>1. rounded \in Int
  OBVIOUS
<1> HIDE DEF rounded
<1>2. up \in Int /\ up >= 8
  BY <1>1
<1> HIDE DEF up
<1>3. MakeDivisible(v) = IF up < (9 * v) \div 10 THEN up + 8 ELSE up
  BY DEF MakeDivisible, up, rounded
<1> QED BY <1>2, <1>3 DEF Pos

\* A filter of one pixel.
LEMMA Conv1x1Of ==
  ASSUME NEW w, NEW ci, NEW co, w \in Pos, ci \in Pos, co \in Pos
  PROVE  Conv1x1(T4(w, w, ci, 1), Filter(1, ci, co)) = T4(w, w, co, 1)
<1> DEFINE x == T4(w, w, ci, 1)
           y == T4(w, w, co, 1)
           n == w * w
           c == Filter(1, ci, co)
           k == T4(1, 1, ci, co)
<1>0. n \in Pos
  BY PosTimes
<1>1. Reshape(k, ci, co, 1, 1) = T4(ci, co, 1, 1)
  <2>1. 1 * 1 * ci * co = ci * co * 1 * 1
    BY DEF Pos
  <2> QED BY <2>1, ReshapeOf, PosInt, Small
<1>2. FromPlanes(x) = T4(ci, w, w, 1)
  BY FromPlanesOf, Small
<1>3. Reshape(T4(ci, w, w, 1), ci, n, 1, 1) = T4(ci, n, 1, 1) /\
      Reshape(T4(co, n, 1, 1), co, w, w, 1) = T4(co, w, w, 1)
  <2>1. ci * w * w * 1 = ci * n * 1 * 1 /\ co * n * 1 * 1 = co * w * w * 1
    BY DEF Pos
  <2> HIDE DEF n
  <2> QED BY <1>0, <2>1, ReshapeOf, PosInt, Small
<1>4. x.ne[1] = w /\ x.ne[2] = w /\ x.ne[3] = ci /\ c.w.ne[4] = co /\ c.w = k /\ c.b = T1(co) /\ w * w = n
  BY ExtentOf, FilterIs
<1> HIDE DEF n
<1>5. MulMat(T4(ci, co, 1, 1), T4(ci, n, 1, 1)) = T4(co, n, 1, 1)
  BY <1>0, MulMatOf, T2Is, Small
<1>6. ToPlanes(T4(co, w, w, 1)) = y /\ AddBias(y, T1(co)) = y
  BY ToPlanesOf, AddBiasOf, Small
<1> HIDE DEF x, y, c, k
<1>7. Conv1x1(x, c) = y
  BY <1>1, <1>2, <1>3, <1>4, <1>5, <1>6 DEF Conv1x1
<1> QED BY <1>7 DEF x, y, c

\* Pooling of a whole map.
LEMMA PoolAllOf ==
  ASSUME NEW w, NEW c, w \in Pos, c \in Pos
  PROVE  Pool(T4(w, w, c, 1), w, w) = T4(1, 1, c, 1)
<1> DEFINE x == T4(w, w, c, 1)
           r == <<Out(x.ne[1], w, w, 0), Out(x.ne[2], w, w, 0), x.ne[3], x.ne[4]>>
<1>1. Out(w, w, w, 0) = 1
  <2>1. w + 2 * 0 - w = 0 /\ 0 \div w = 0
    BY DEF Pos
  <2> QED BY <2>1 DEF Out
<1>2. r = <<1, 1, c, 1>> /\ Exists(x)
  BY <1>1, ExtentOf, IsThere, Small
<1>3. Tensor(<<1, 1, c, 1>>) = T4(1, 1, c, 1) /\ Exists(T4(1, 1, c, 1))
  BY TensorOf, IsThere, Small
<1>4. Pool(x, w, w) = Asserted(Exists(x) /\ Exists(Tensor(r)), Tensor(r))
  BY DEF Pool
<1> HIDE DEF r, x
<1>5. Pool(x, w, w) = T4(1, 1, c, 1)
  BY <1>2, <1>3, <1>4 DEF Asserted
<1> QED BY <1>5 DEF x

\* What a block of RepViT is made of.
RepVitIs(blk, c, r) ==
    /\ blk.tm = Filter(3, 1, c) /\ blk.se \in BOOLEAN
    /\ blk.se_fc1 = Filter(1, c, r) /\ blk.se_fc2 = Filter(1, r, c)
    /\ blk.cm1 = Filter(1, c, 2 * c) /\ blk.cm2 = Filter(1, 2 * c, c)

\* Every block of the network is one.
LEMMA RepVitBlockIs ==
  ASSUME NEW c, NEW se, c \in Pos, se \in BOOLEAN
  PROVE  \E r : r \in Pos /\ RepVitIs(RepVitBlock(c, se), c, r)
<1> DEFINE v == (c * hp.repvit_se_ratio_x100) \div 100
           r == MakeDivisible(v)
<1>1. v \in Nat
  <2>1. hp.repvit_se_ratio_x100 = 25
    BY DEF hp
  <2>2. (c * 25) \div 100 \in Nat
    BY DEF Pos
  <2> QED BY <2>1, <2>2
<1> HIDE DEF v
<1>2. r \in Pos
  BY <1>1, DivisiblePos
<1> HIDE DEF r
<1>3. RepVitIs(RepVitBlock(c, se), c, r)
  BY DEF RepVitIs, RepVitBlock, r, v
<1> QED BY <1>2, <1>3

\* A filter for each channel keeps the map.
LEMMA DwOf ==
  ASSUME NEW w, NEW c, w \in Pos, c \in Pos
  PROVE  AddBias(ConvDw(Filter(3, 1, c).w, T4(w, w, c, 1), 1, 1), Filter(3, 1, c).b) = T4(w, w, c, 1)
<1>1. Out(w, 3, 1, 1) = w
  BY OutSame
<1>2. ConvDw(T4(3, 3, 1, c), T4(w, w, c, 1), 1, 1) = T4(w, w, c, 1)
  BY <1>1, ConvDwOf, Small
<1>3. AddBias(T4(w, w, c, 1), T1(c)) = T4(w, w, c, 1)
  BY AddBiasOf, Small
<1> QED BY <1>2, <1>3, FilterIs

\* A filter of a map of one pixel.
LEMMA SqueezedOf ==
  ASSUME NEW a, NEW b, a \in Pos, b \in Pos
  PROVE  AddBias(Conv(Filter(1, a, b).w, T4(1, 1, a, 1), 1, 0), Filter(1, a, b).b) = T4(1, 1, b, 1)
<1>1. Out(1, 1, 1, 0) = 1
  BY OutSame, Small
<1>2. Conv(T4(1, 1, a, b), T4(1, 1, a, 1), 1, 0) = T4(1, 1, b, 1)
  BY <1>1, ConvOf, Small
<1>3. AddBias(T4(1, 1, b, 1), T1(b)) = T4(1, 1, b, 1)
  BY AddBiasOf, Small
<1> QED BY <1>2, <1>3, FilterIs

\* A block keeps its map (edgetam_repvit_block_forward),
LEMMA RepVitForwardOf ==
  ASSUME NEW blk, NEW w, NEW c, NEW r, w \in Pos, c \in Pos, r \in Pos, RepVitIs(blk, c, r)
  PROVE  RepVitForward(T4(w, w, c, 1), blk) = T4(w, w, c, 1)
<1> DEFINE x == T4(w, w, c, 1)
           e == 2 * c
           s == T4(1, 1, c, 1)
           i == T4(1, 1, r, 1)
           y == T4(w, w, e, 1)
<1>0. e \in Pos
  BY PosTimes, Small
<1>1. /\ blk.tm = Filter(3, 1, c) /\ blk.se \in BOOLEAN
      /\ blk.se_fc1 = Filter(1, c, r) /\ blk.se_fc2 = Filter(1, r, c)
      /\ blk.cm1 = Filter(1, c, e) /\ blk.cm2 = Filter(1, e, c)
  BY DEF RepVitIs
<1> HIDE DEF e
<1>2. AddBias(ConvDw(blk.tm.w, x, 1, 1), blk.tm.b) = x
  BY <1>1, DwOf
<1>3. Pool(x, w, w) = s /\ x.ne[1] = w /\ x.ne[2] = w
  BY PoolAllOf, ExtentOf
<1>4. AddBias(Conv(blk.se_fc1.w, s, 1, 0), blk.se_fc1.b) = i /\ AddBias(Conv(blk.se_fc2.w, i, 1, 0), blk.se_fc2.b) = s
  BY <1>1, SqueezedOf
<1>5. Add(x, s) = x
  BY AddOf, GoesAll, Small
<1>6. Add(x, x) = x /\ Exists(x)
  BY AddSame, IsThere, Small
<1>7. Conv1x1(x, blk.cm1) = y /\ Conv1x1(y, blk.cm2) = x
  BY <1>0, <1>1, Conv1x1Of
<1> HIDE DEF x, y, s, i
<1>8. RepVitForward(x, blk) = x
  BY <1>2, <1>3, <1>4, <1>5, <1>6, <1>7 DEF RepVitForward
<1> QED BY <1>8 DEF x

\* each of them.
LEMMA RepVitBlockOf ==
  ASSUME NEW w, NEW c, NEW se, w \in Pos, c \in Pos, se \in BOOLEAN
  PROVE  RepVitForward(T4(w, w, c, 1), RepVitBlock(c, se)) = T4(w, w, c, 1)
<1>1. PICK r : r \in Pos /\ RepVitIs(RepVitBlock(c, se), c, r)
  BY RepVitBlockIs
<1> QED BY <1>1, RepVitForwardOf

\* The convolution that halves a map,
LEMMA OutHalf ==
  ASSUME NEW w, NEW a, w \in Pos, a \in Pos, Times(w, a, 2)
  PROVE  Out(w, 3, 2, 1) = a
<1>1. a \in Int /\ w = 2 * a
  BY DEF Times, Pos
<1>2. (2 * a + 2 * 1 - 3) \div 2 + 1 = a
  BY <1>1
<1> QED BY <1>1, <1>2 DEF Out

\* as between two stages,
LEMMA DownsampleOf ==
  ASSUME NEW w, NEW a, NEW c, NEW o, w \in Pos, a \in Pos, c \in Pos, o \in Pos, Times(w, a, 2)
  PROVE  DownsampleForward(T4(w, w, c, 1), RepVitDownsample(c, o)) = T4(a, a, o, 1)
<1> DEFINE x == T4(w, w, c, 1)
           z == T4(a, a, c, 1)
           y == T4(a, a, o, 1)
           e == 2 * o
           f == T4(a, a, e, 1)
           ds == RepVitDownsample(c, o)
<1>0. e \in Pos
  BY PosTimes, Small
<1>1. /\ ds.pre = RepVitBlock(c, FALSE) /\ ds.spatial = Filter(3, 1, c) /\ ds.channel = Filter(1, c, o)
      /\ ds.ffn1 = Filter(1, o, e) /\ ds.ffn2 = Filter(1, e, o)
  BY DEF RepVitDownsample
<1> HIDE DEF e, ds
<1>2. RepVitForward(x, ds.pre) = x
  <2>1. FALSE \in BOOLEAN
    OBVIOUS
  <2> QED BY <1>1, <2>1, RepVitBlockOf
<1>3. AddBias(ConvDw(ds.spatial.w, x, 2, 1), ds.spatial.b) = z
  <2>1. Out(w, 3, 2, 1) = a
    BY OutHalf
  <2>2. ConvDw(T4(3, 3, 1, c), x, 2, 1) = z
    BY <2>1, ConvDwOf, Small
  <2>3. AddBias(z, T1(c)) = z
    BY AddBiasOf, Small
  <2> QED BY <1>1, <2>2, <2>3, FilterIs
<1>4. Conv1x1(z, ds.channel) = y /\ Conv1x1(y, ds.ffn1) = f /\ Conv1x1(f, ds.ffn2) = y
  BY <1>0, <1>1, Conv1x1Of
<1>5. Add(y, y) = y
  BY AddSame, Small
<1> HIDE DEF x, y, z, f
<1>6. DownsampleForward(x, ds) = y
  BY <1>2, <1>3, <1>4, <1>5 DEF DownsampleForward
<1> QED BY <1>6 DEF x, y, ds

\* and in the stem,
LEMMA StemOf ==
  ASSUME NEW w, NEW a, NEW c, NEW o, w \in Pos, a \in Pos, c \in Pos, o \in Pos, Times(w, a, 2)
  PROVE  AddBias(Conv(Filter(3, c, o).w, T4(w, w, c, 1), 2, 1), Filter(3, c, o).b) = T4(a, a, o, 1)
<1>1. Out(w, 3, 2, 1) = a
  BY OutHalf
<1>2. Conv(T4(3, 3, c, o), T4(w, w, c, 1), 2, 1) = T4(a, a, o, 1)
  BY <1>1, ConvOf, Small
<1>3. AddBias(T4(a, a, o, 1), T1(o)) = T4(a, a, o, 1)
  BY AddBiasOf, Small
<1> QED BY <1>2, <1>3, FilterIs

\* which leaves a quarter of the image.
LEMMA RepVitStartOf ==
  ASSUME NEW s, NEW h, NEW a, s \in Pos, h \in Pos, a \in Pos, Times(s, h, 2), Times(h, a, 2)
  PROVE  RepVitStart(T4(s, s, 3, 1)) = T4(a, a, 48, 1)
<1> DEFINE image == T4(s, s, 3, 1)
           half == T4(h, h, 24, 1)
           y == T4(a, a, 48, 1)
<1>1. 24 \in Pos /\ 48 \in Pos /\ 3 \in Pos
  BY DEF Pos
<1>2. RepVitStem[1] = Filter(3, 3, 24) /\ RepVitStem[2] = Filter(3, 24, 48)
  BY DEF RepVitStem
<1>3. AddBias(Conv(RepVitStem[1].w, image, 2, 1), RepVitStem[1].b) = half
  BY <1>1, <1>2, StemOf
<1>4. AddBias(Conv(RepVitStem[2].w, half, 2, 1), RepVitStem[2].b) = y
  BY <1>1, <1>2, StemOf
<1> HIDE DEF image, half, y
<1>5. RepVitStart(image) = y
  BY <1>3, <1>4 DEF RepVitStart
<1> QED BY <1>5 DEF image, y

\* The hyperparameters of RepViT.
LEMMA RepVitSizes == hp.repvit_stages = <<2, 2, 14, 2>> /\ hp.repvit_channels = <<48, 96, 192, 384>>
BY DEF hp

\* The filters of its neck,
LEMMA RepVitFpnIs == /\ RepVitFpn[3] = Filter(1, 48, D) /\ RepVitFpn[2] = Filter(1, 96, D)
                     /\ RepVitFpn[1] = Filter(1, 192, D) /\ RepVitFpn[0] = Filter(1, 384, D)
<1>1. \A i \in 0 .. 3 : RepVitFpn[i] = Filter(1, hp.repvit_channels[4 - i], D)
  BY DEF RepVitFpn
<1>2. 0 \in 0 .. 3 /\ 1 \in 0 .. 3 /\ 2 \in 0 .. 3 /\ 3 \in 0 .. 3 /\ 4 - 0 = 4 /\ 4 - 1 = 3 /\ 4 - 2 = 2 /\ 4 - 3 = 1
  OBVIOUS
<1>3. hp.repvit_channels[4] = 384 /\ hp.repvit_channels[3] = 192 /\ hp.repvit_channels[2] = 96 /\
      hp.repvit_channels[1] = 48
  BY RepVitSizes
<1> QED BY <1>1, <1>2, <1>3

\* and the neck.
LEMMA EdgeTamNeckOf ==
  ASSUME NEW a, NEW b, NEW c, NEW d, NEW st, Sides(a, b, c, d),
         st = [s \in 0 .. 3 |-> <<T4(a, a, 48, 1), T4(b, b, 96, 1), T4(c, c, 192, 1), T4(d, d, 384, 1)>>[s + 1]]
  PROVE  /\ EdgeTamNeck(st)[0] = T4(D, a, a, 1) /\ EdgeTamNeck(st)[1] = T4(D, b, b, 1)
         /\ EdgeTamNeck(st)[2] = T4(D, c, c, 1)
<1> DEFINE Lateral(i) == Conv1x1(st[i], RepVitFpn[3 - i])
<1>0. /\ a \in Pos /\ b \in Pos /\ c \in Pos /\ d \in Pos /\ Times(c, d, 2) /\ D \in Pos
      /\ 48 \in Pos /\ 96 \in Pos /\ 192 \in Pos /\ 384 \in Pos
  BY Numbers, HeadSizes DEF Sides, Pos
<1>1. st[0] = T4(a, a, 48, 1) /\ st[1] = T4(b, b, 96, 1) /\ st[2] = T4(c, c, 192, 1) /\ st[3] = T4(d, d, 384, 1)
  OBVIOUS
<1>2. 3 - 0 = 3 /\ 3 - 1 = 2 /\ 3 - 2 = 1 /\ 3 - 3 = 0
  OBVIOUS
<1>3. Lateral(0) = T4(a, a, D, 1) /\ Lateral(1) = T4(b, b, D, 1) /\ Lateral(2) = T4(c, c, D, 1) /\
      Lateral(3) = T4(d, d, D, 1)
  <2>1. Conv1x1(T4(a, a, 48, 1), Filter(1, 48, D)) = T4(a, a, D, 1)
    BY <1>0, Conv1x1Of
  <2>2. Conv1x1(T4(b, b, 96, 1), Filter(1, 96, D)) = T4(b, b, D, 1)
    BY <1>0, Conv1x1Of
  <2>3. Conv1x1(T4(c, c, 192, 1), Filter(1, 192, D)) = T4(c, c, D, 1)
    BY <1>0, Conv1x1Of
  <2>4. Conv1x1(T4(d, d, 384, 1), Filter(1, 384, D)) = T4(d, d, D, 1)
    BY <1>0, Conv1x1Of
  <2> QED BY <1>1, <1>2, <2>1, <2>2, <2>3, <2>4, RepVitFpnIs
<1>4. Upscale(T4(d, d, D, 1), 2) = T4(c, c, D, 1)
  <2>1. d * 2 = c
    BY <1>0 DEF Times, Pos
  <2> QED BY <1>0, <2>1, UpscaleOf, Small
<1>5. Add(T4(c, c, D, 1), T4(c, c, D, 1)) = T4(c, c, D, 1)
  BY <1>0, AddSame, Small
<1>6. /\ FromPlanes(T4(a, a, D, 1)) = T4(D, a, a, 1) /\ FromPlanes(T4(b, b, D, 1)) = T4(D, b, b, 1)
      /\ FromPlanes(T4(c, c, D, 1)) = T4(D, c, c, 1)
  BY <1>0, FromPlanesOf, Small
<1> HIDE DEF Lateral
<1>7. EdgeTamNeck(st) = [i \in 0 .. (3 - hp.scalp) |->
            FromPlanes(IF i \in hp.fpn_top_down_levels THEN Add(Lateral(i), Upscale(Lateral(i + 1), 2)) ELSE Lateral(i))]
  BY DEF EdgeTamNeck, Lateral
<1>8. 0 \in 0 .. 2 /\ 1 \in 0 .. 2 /\ 2 \in 0 .. 2 /\ 3 - 1 = 2 /\ 2 + 1 = 3
  OBVIOUS
<1> QED BY <1>3, <1>4, <1>5, <1>6, <1>7, <1>8, HieraSizes

-----------------------------------------------------------------------------
(* The inductive invariant. *)

\* A job whose image the grid divides.
JobSet == [model : {"sam3", "sam2", "edgetam"}, size : Nat, flash : BOOLEAN, scored : BOOLEAN,
           boxes : Nat, tokens : Nat, slots : Nat, pointers : Nat]

\* What the size of an image has to do with its grid.
GridFits(model, size, g) ==
    /\ g \in Nat /\ g >= 2
    /\ model = "sam3" => size \div 14 = g
    /\ model # "sam3" => \E k : k \in Pos /\ size = 32 * k /\ g = 2 * k
    /\ model = "edgetam" /\ PerceiverTakes(g) => PerceiverWindows(g) = NumLatents

JobFits(j, g) == j \in JobSet /\ GridFits(j.model, j.size, g)

\* The features that the state keeps.
Level(g, scale) == T4(D, g * scale, g * scale, 1)

\* Three levels or four.
FeatsFit(f, g) ==
    \/ f = <<Level(g, 4), Level(g, 2), Level(g, 1)>>
    \/ f = <<Level(g, 4), Level(g, 2), Level(g, 1), T4(D, g \div 2, g \div 2, 1)>>

\* No tensor under construction has failed an assertion.
Intact(x) == \A name \in DOMAIN x \ {"stages"} : Exists(x[name])

\* The inputs have different names, and each has been sent.
Told(ins, snt) ==
    /\ \A i, k \in DOMAIN ins : ins[i].name = ins[k].name => i = k
    /\ \A i \in DOMAIN ins : Send(ins[i].name, Elements(ins[i].of)) \in snt

\* Every buffer is as large as the tensor that is read into it.
Sized(rd) == \A r \in rd : r.size = Elements(r.of)

\* A graph that ran had all its inputs. The decoder's are left out: it makes inputs of
\* its own under one name.
Transferred(gr, rn, ins, snt, rd) ==
    /\ rn /\ gr # "decoder" => (\E n \in Nat : DOMAIN ins = 1 .. n) /\ Told(ins, snt)
    /\ Sized(rd)

-----------------------------------------------------------------------------
\* The graphs under construction: their layers, tensors and inputs.
VitBuilds(j, g, l, x, ins) ==
    /\ j.model = "sam3" /\ l \in 0 .. 32
    /\ x = [x |-> T4(E, g, g, 1)]
    /\ ins = <<In("input_image", T4(j.size, j.size, 3, 1))>>

\* The stages that a number of blocks has finished.
Stages(n, a, b, c, d) ==
    IF n <= 1 THEN <<>> ELSE IF n <= 7 THEN <<T4(144, a, a, 1)>>
    ELSE IF n <= 43 THEN <<T4(144, a, a, 1), T4(288, b, b, 1)>>
    ELSE IF n <= 47 THEN <<T4(144, a, a, 1), T4(288, b, b, 1), T4(576, c, c, 1)>>
    ELSE <<T4(144, a, a, 1), T4(288, b, b, 1), T4(576, c, c, 1), T4(1152, d, d, 1)>>

HieraBuilds(j, g, l, x, ins) ==
    /\ j.model = "sam2" /\ l \in 0 .. 48
    /\ \E a, b, d : /\ Sides(a, b, g, d) /\ Times(j.size, 4, a)
                    /\ x = [x |-> HieraMap(l, a, b, g, d), stages |-> Stages(l, a, b, g, d)]
                    /\ ins = <<In("input_image", T4(j.size, j.size, 3, 1)),
                               In("hiera_pos_embed", T4(144, a, a, 1))>>

\* The stages that are finished,
RepVitStages(n, a, b, c, d) ==
    CASE n = 0 -> <<>> [] n = 1 -> <<T4(a, a, 48, 1)>> [] n = 2 -> <<T4(a, a, 48, 1), T4(b, b, 96, 1)>>
      [] n = 3 -> <<T4(a, a, 48, 1), T4(b, b, 96, 1), T4(c, c, 192, 1)>>
      [] n = 4 -> <<T4(a, a, 48, 1), T4(b, b, 96, 1), T4(c, c, 192, 1), T4(d, d, 384, 1)>>

\* and the map that the next one starts from.
RepVitMap(n, a, b, c, d) ==
    CASE n = 0 -> T4(a, a, 48, 1) [] n = 1 -> T4(b, b, 96, 1) [] n = 2 -> T4(c, c, 192, 1)
      [] n \in {3, 4} -> T4(d, d, 384, 1)

RepVitBuilds(j, g, l, x, ins) ==
    /\ j.model = "edgetam" /\ l \in 0 .. 14
    /\ ins = <<In("input_image", T4(j.size, j.size, 3, 1))>>
    /\ \E a, b, d, n : /\ Sides(a, b, g, d) /\ n \in 0 .. 4 /\ (n = 4 => l = 0)
                       /\ x = [x |-> RepVitMap(n, a, b, g, d), stages |-> RepVitStages(n, a, b, g, d)]

TextBuilds(l, x, ins) ==
    /\ l \in 0 .. 24 /\ x = [x |-> T4(1024, 32, 1, 1)]
    /\ ins = <<In("text_token_ids", T4(32, 1, 1, 1)), In("causal_mask", T4(32, 32, 1, 1))>>

\* So many rows of D numbers.
Row(n) == T4(D, n, 1, 1)

\* The rows of the prompt of a job.
PromptOf(j) == 32 + j.boxes + 1

GeometryBuilds(j, g, l, x, ins) ==
    /\ l \in 0 .. 3 /\ x = [x |-> Row(j.boxes + 1), img |-> Row(g * g)]
    /\ ins = <<In("geo_img", Row(g * g)), In("geo_pe", Row(g * g)), In("geom_post_final_proj", Row(j.boxes + 1))>>

FusionBuilds(j, g, l, x, ins) ==
    LET n == PromptOf(j)
    IN  /\ l \in 0 .. 6
        /\ x = [x |-> Row(g * g), prompt |-> Row(n), pos |-> Row(g * g), bias |-> T4(n, 1, 1, 1)]
        /\ ins = <<In("fenc_img", Row(g * g)), In("fenc_pe", Row(g * g)), In("fenc_prompt", Row(n)),
                   In("fenc_bias", T4(n, 1, 1, 1))>>

DecoderBuilds(j, g, l, x) ==
    LET n == PromptOf(j)
    IN  /\ l \in 0 .. 6
        /\ x = [x |-> Row(201), boxes |-> T4(4, 200, 1, 1), enc |-> Row(g * g), text |-> Row(n),
                bias |-> T4(n, 1, 1, 1), dim_t |-> T2(1, 64), coords |-> T1(g)]

MasksBuilds(j, g, l, x, ins) ==
    LET n == PromptOf(j)
    IN  /\ l = 0
        /\ x = [enc |-> Row(g * g), fpn0 |-> Level(g, 4), fpn1 |-> Level(g, 2), queries |-> Row(200),
                text |-> Row(n), bias |-> T4(n, 1, 1, 1)]
        /\ ins = <<In("seg_enc", Row(g * g)), In("seg_fpn0", Level(g, 4)), In("seg_fpn1", Level(g, 2)),
                   In("seg_queries", Row(200)), In("seg_text", Row(n)), In("seg_bias", T4(n, 1, 1, 1))>>

\* The tokens and the places that the mask decoder works on.
Decodes(scored, n, g) ==
    LET q == Row(OwnTokens(scored) + n)
    IN  [queries |-> q, keys |-> Row(g * g), tokens |-> q, key_pe |-> Row(g * g)]

\* The inputs of the decoder.
DecodeIns(scored, n, g) ==
    <<In("sparse", Row(n)), In("image_pe", Level(g, 1)), In("dense", Level(g, 1)),
      In("feat_s0", Level(g, 4)), In("feat_s1", Level(g, 2))>>
        \o (IF scored THEN <<>> ELSE <<In("sam_dec_obj_score", T2(1, 1))>>)

PvsBuilds(j, g, l, x, ins) ==
    /\ j.tokens \in Pos /\ l \in 0 .. 2 /\ x = Decodes(j.scored, j.tokens, g)
    /\ ins = DecodeIns(j.scored, j.tokens, g) \o <<In("sam_dec_image_feats", Level(g, 1))>>

MemoryBuilds(g, l, x, ins) ==
    /\ l \in 0 .. 4 /\ x = [x |-> T4(Widths[l + 1] * g, Widths[l + 1] * g, Channels[l + 1], 1)]
    /\ ins = <<In("mem_mask", T4(16 * g, 16 * g, 1, 1)), In("mem_pix_feat", Level(g, 1))>>

LatentsBuilds(g, l, x, ins) ==
    /\ l \in 0 .. 2 /\ x = [x |-> T4(64, 256, 1, 1), feats |-> T4(64, g * g, 1, 1)]
    /\ ins = <<In("lat_1d_in", T4(64, 256, 1, 1)), In("feat_1d_in", T4(64, g * g, 1, 1)),
               In("pos_1d_in", T4(64, g * g, 1, 1))>>

WindowsBuilds(g, l, x, ins) ==
    LET p == WindowSize(g) * WindowSize(g)
    IN  /\ l \in 0 .. 2 /\ x = [x |-> T4(64, 1, 256, 1), feats |-> T4(64, p, 256, 1)]
        /\ ins = <<In("feat_2d_in", T4(64, p, 256, 1)), In("lat_2d_in", T4(64, 1, 256, 1))>>

\* How many tokens the memories of a job make, and its pointers.
Spatial(j, g) == j.slots * SlotTokens(g, j.model = "edgetam")

Pointed(j) == j.pointers * PointerTokens

\* The inputs of a propagation.
PropagateIns(j, g) ==
    LET n == Spatial(j, g)
        m == n + Pointed(j)
    IN  <<In("prop_curr", Row(g * g)), In("src_pos", Row(g * g)), In("prompt", T4(MD, m, 1, 1)),
          In("prompt_pos", T4(MD, m, 1, 1)), In("rope_q", T3(2, 128, g * g)), In("rope_k", T3(2, 128, n))>>

PropagateBuilds(j, g, l, x, ins) ==
    LET n == Spatial(j, g)
        m == n + Pointed(j)
    IN  /\ j.slots \in Pos /\ l \in 0 .. 4
        /\ x = [x |-> Row(g * g), prompt |-> T4(MD, m, 1, 1), rope_q |-> T3(2, 128, g * g), rope_k |-> T3(2, 128, n)]
        /\ ins = PropagateIns(j, g)

FrameBuilds(j, g, l, x, ins) ==
    /\ j.slots \in Pos /\ l \in 0 .. 2 /\ x = Decodes(j.scored, 1, g)
    /\ ins = PropagateIns(j, g) \o DecodeIns(j.scored, 1, g)

Builds(gr, j, g, l, x, ins) ==
    \/ gr = "vit" /\ VitBuilds(j, g, l, x, ins)
    \/ gr = "hiera" /\ HieraBuilds(j, g, l, x, ins)
    \/ gr = "repvit" /\ RepVitBuilds(j, g, l, x, ins)
    \/ gr = "text" /\ TextBuilds(l, x, ins)
    \/ gr = "geometry" /\ GeometryBuilds(j, g, l, x, ins)
    \/ gr = "fusion" /\ FusionBuilds(j, g, l, x, ins)
    \/ gr = "decoder" /\ DecoderBuilds(j, g, l, x)
    \/ gr = "masks" /\ MasksBuilds(j, g, l, x, ins)
    \/ gr = "pvs" /\ PvsBuilds(j, g, l, x, ins)
    \/ gr = "memory" /\ MemoryBuilds(g, l, x, ins)
    \/ gr = "latents" /\ LatentsBuilds(g, l, x, ins)
    \/ gr = "windows" /\ WindowsBuilds(g, l, x, ins)
    \/ gr = "propagate" /\ PropagateBuilds(j, g, l, x, ins)
    \/ gr = "frame" /\ FrameBuilds(j, g, l, x, ins)

\* The graphs before which there are no features yet.
Encoders == {"none", "vit", "hiera", "repvit"}

\* Which features there are, and which graphs a job comes to.
Stands(gr, rn, f, j, g) ==
    /\ gr \in Graphs /\ rn \in BOOLEAN
    /\ gr = "none" => rn
    /\ f = <<>> \/ FeatsFit(f, g)
    /\ gr \notin Encoders \/ (rn /\ gr # "none") => FeatsFit(f, g)
    /\ gr \in {"latents", "windows"} => j.model = "edgetam" /\ PerceiverTakes(g)

\* The inductive invariant: the job fits its grid; the features, once there, have the
\* extents of the grid; the graph under construction has exactly the tensors and inputs
\* that its layers say.
IInv ==
    /\ JobFits(job, Grid)
    /\ Stands(graph, ran, feats, job, Grid)
    /\ layer \in 0 .. 48
    /\ ran \/ Builds(graph, job, Grid, layer, t, inputs)
    /\ Intact(t)
    /\ Transferred(graph, ran, inputs, sent, read)
    /\ ~ran => sent = {} /\ read = {}

-----------------------------------------------------------------------------
\* The grid depends on the model and the size of the image.
LEMMA GridIs == job' \in JobSet /\ job'.model = job.model /\ job'.size = job.size => Grid' = Grid
BY DEF Grid

\* A layer that leaves the graph as it should be keeps the invariant,
LEMMA LayerKeeps ==
  ASSUME IInv, UNCHANGED <<job, graph, ran, sent, read, feats>>, ~ran, layer' \in 0 .. 48,
         Builds(graph, job, Grid, layer', t', inputs'), Intact(t')
  PROVE  IInv'
<1>1. Grid' = Grid
  BY DEF Grid
<1>2. Transferred(graph, ran, inputs', sent, read)
  BY DEF IInv, Transferred
<1> QED BY <1>1, <1>2 DEF IInv

\* so does a run that sends and reads what there is,
LEMMA RunKeeps ==
  ASSUME IInv, UNCHANGED <<job, graph, layer, inputs>>, ran' = TRUE, graph # "none",
         FeatsFit(feats', Grid), Intact(t'), Transferred(graph, TRUE, inputs, sent', read')
  PROVE  IInv'
<1>1. Grid' = Grid
  BY DEF Grid
<1>2. Stands(graph, TRUE, feats', job, Grid)
  BY DEF IInv, Stands
<1> QED BY <1>1, <1>2 DEF IInv

\* and a graph that starts as it should.
LEMMA StartKeeps ==
  ASSUME IInv, NEW name, NEW tensors, NEW ins, Start(name, tensors, ins), job' \in JobSet,
         job'.model = job.model, job'.size = job.size,
         name \in Graphs \ {"none"}, name \in {"latents", "windows"} => job.model = "edgetam" /\ PerceiverTakes(Grid),
         name \notin Encoders => FeatsFit(feats, Grid),
         Builds(name, job', Grid, 0, tensors, ins), Intact(tensors)
  PROVE  IInv'
<1>1. Grid' = Grid
  BY GridIs
<1>2. /\ graph' = name /\ ran' = FALSE /\ layer' = 0 /\ t' = tensors /\ inputs' = ins
      /\ sent' = {} /\ read' = {} /\ feats' = feats
  BY DEF Start
<1>3. JobFits(job', Grid)
  BY DEF IInv, JobFits
<1>4. Stands(graph', ran', feats', job', Grid)
  BY <1>2 DEF IInv, Stands
<1>5. Transferred(graph', ran', inputs', sent', read')
  BY <1>2 DEF Transferred, Sized
<1>6. Builds(graph', job', Grid, layer', t', inputs')
  BY <1>2
<1>7. layer' \in 0 .. 48 /\ Intact(t')
  BY <1>2
<1> QED BY <1>1, <1>2, <1>3, <1>4, <1>5, <1>6, <1>7 DEF IInv

\* The sizes of SAM 3 fit,
LEMMA FitsSam3 ==
  ASSUME NEW s, s \in Sam3Sizes PROVE s \in Nat /\ GridFits("sam3", s, Sam3FeatSize(s))
<1>1. s \in Nat /\ Sam3FeatSize(s) >= 2
  BY SizesAssumption DEF SizesFit
<1>2. Sam3FeatSize(s) = s \div 14
  BY VitSizes DEF Sam3FeatSize
<1> QED BY <1>1, <1>2 DEF GridFits

\* a multiple of 32 has an even grid,
LEMMA Halves32 ==
  ASSUME NEW s, s \in Nat, s % 32 = 0
  PROVE  \E k : k \in Nat /\ s = 32 * k /\ Sam2FeatSize(s) = 2 * k /\ EdgeTamFeatSize(s) = 2 * k
<1> DEFINE k == s \div 32
<1>1. k \in Nat /\ s = 32 * k
  OBVIOUS
<1> HIDE DEF k
<1>2. (32 * k) \div 4 = 8 * k /\ (8 * k) \div 2 = 4 * k /\ (4 * k) \div 2 = 2 * k /\ (2 * k) \div 2 = k /\
      k * 2 = 2 * k
      /\ (32 * k) \div 16 = 2 * k
  BY <1>1
<1>3. Sam2FeatSize(s) = 2 * k /\ EdgeTamFeatSize(s) = 2 * k
  BY <1>1, <1>2 DEF Sam2FeatSize, EdgeTamFeatSize
<1> QED BY <1>1, <1>3

\* and those of SAM 2,
LEMMA FitsSam2 ==
  ASSUME NEW s, s \in Sam2Sizes PROVE s \in Nat /\ GridFits("sam2", s, Sam2FeatSize(s))
<1>1. s \in Nat /\ s % 32 = 0 /\ Sam2FeatSize(s) >= 2
  BY SizesAssumption DEF SizesFit
<1>2. PICK k : k \in Nat /\ s = 32 * k /\ Sam2FeatSize(s) = 2 * k
  BY <1>1, Halves32
<1>3. k \in Pos
  BY <1>1, <1>2 DEF Pos
<1> QED BY <1>1, <1>2, <1>3 DEF GridFits

\* and of EdgeTAM.
LEMMA FitsEdgeTam ==
  ASSUME NEW s, s \in EdgeTamSizes PROVE s \in Nat /\ GridFits("edgetam", s, EdgeTamFeatSize(s))
<1> DEFINE g == EdgeTamFeatSize(s)
<1>1. s \in Nat /\ s % 32 = 0 /\ g >= 2 /\ (PerceiverTakes(g) => PerceiverWindows(g) = NumLatents)
  BY SizesAssumption DEF SizesFit
<1>2. PICK k : k \in Nat /\ s = 32 * k /\ g = 2 * k
  BY <1>1, Halves32
<1> HIDE DEF g
<1>3. k \in Pos
  BY <1>1, <1>2 DEF Pos
<1>4. GridFits("edgetam", s, g)
  BY <1>1, <1>2, <1>3 DEF GridFits
<1> QED BY <1>1, <1>4 DEF g

\* A job at the start fits.
LEMMA InitFits == ASSUME Init PROVE JobFits(job, Grid)
<1>1. job \in JobSet
  <2>1. CASE job \in Jobs("sam3", Sam3Sizes, {TRUE})
    <3>1. PICK s \in Sam3Sizes, f \in BOOLEAN, b \in {TRUE} :
            job = [model |-> "sam3", size |-> s, flash |-> f, scored |-> b, boxes |-> 0, tokens |-> 0,
                   slots |-> 0, pointers |-> 0]
      BY <2>1 DEF Jobs
    <3> QED BY <3>1, FitsSam3 DEF JobSet
  <2>2. CASE job \in Jobs("sam2", Sam2Sizes, BOOLEAN)
    <3>1. PICK s \in Sam2Sizes, f \in BOOLEAN, b \in BOOLEAN :
            job = [model |-> "sam2", size |-> s, flash |-> f, scored |-> b, boxes |-> 0, tokens |-> 0,
                   slots |-> 0, pointers |-> 0]
      BY <2>2 DEF Jobs
    <3> QED BY <3>1, FitsSam2 DEF JobSet
  <2>3. CASE job \in Jobs("edgetam", EdgeTamSizes, BOOLEAN)
    <3>1. PICK s \in EdgeTamSizes, f \in BOOLEAN, b \in BOOLEAN :
            job = [model |-> "edgetam", size |-> s, flash |-> f, scored |-> b, boxes |-> 0, tokens |-> 0,
                   slots |-> 0, pointers |-> 0]
      BY <2>3 DEF Jobs
    <3> QED BY <3>1, FitsEdgeTam DEF JobSet
  <2> QED BY <2>1, <2>2, <2>3 DEF Init
<1>2. \/ job.model = "sam3" /\ job.size \in Sam3Sizes
      \/ job.model = "sam2" /\ job.size \in Sam2Sizes
      \/ job.model = "edgetam" /\ job.size \in EdgeTamSizes
  BY DEF Init, Jobs
<1>3. GridFits(job.model, job.size, Grid)
  <2>1. CASE job.model = "sam3" /\ job.size \in Sam3Sizes
    BY <2>1, FitsSam3 DEF Grid
  <2>2. CASE job.model = "sam2" /\ job.size \in Sam2Sizes
    BY <2>2, FitsSam2 DEF Grid
  <2>3. CASE job.model = "edgetam" /\ job.size \in EdgeTamSizes
    BY <2>3, FitsEdgeTam DEF Grid
  <2> QED BY <1>2, <2>1, <2>2, <2>3
<1> QED BY <1>1, <1>3 DEF JobFits

\* What is known of a job and its grid.
LEMMA JobFacts ==
  ASSUME NEW j, NEW g, JobFits(j, g)
  PROVE  /\ g \in Pos /\ g >= 2 /\ g * g \in Pos /\ j.size \in Pos
         /\ j.boxes \in Nat /\ j.boxes + 1 \in Pos /\ PromptOf(j) \in Pos /\ j.scored \in BOOLEAN
         /\ j.tokens \in Nat /\ j.slots \in Nat /\ j.pointers \in Nat
<1>1. g \in Pos /\ g >= 2
  BY DEF JobFits, GridFits, Pos
<1>2. g * g \in Pos
  BY <1>1, PosTimes
<1>3. j.size \in Nat /\ j.boxes \in Nat /\ j.scored \in BOOLEAN /\ j.tokens \in Nat /\ j.slots \in Nat /\
      j.pointers \in Nat
  BY DEF JobFits, JobSet
<1>4. j.boxes + 1 \in Pos /\ PromptOf(j) \in Pos
  BY <1>3 DEF Pos, PromptOf
<1>5. j.size \in Pos
  <2>1. CASE j.model = "sam3"
    <3>1. j.size \div 14 = g
      BY <2>1 DEF JobFits, GridFits
    <3>2. g # 0 /\ 0 \div 14 = 0
      BY <1>1 DEF Pos
    <3> QED BY <1>3, <3>1, <3>2 DEF Pos
  <2>2. CASE j.model # "sam3"
    <3>1. PICK k : k \in Pos /\ j.size = 32 * k
      BY <2>2 DEF JobFits, GridFits
    <3> QED BY <1>3, <3>1 DEF Pos
  <2> QED BY <2>1, <2>2
<1> QED BY <1>1, <1>2, <1>3, <1>4, <1>5

\* The invariant holds at the start.
LEMMA InitKeeps == Init => IInv
<1> SUFFICES ASSUME Init PROVE IInv
  OBVIOUS
<1>1. JobFits(job, Grid)
  BY InitFits
<1>2. graph = "none" /\ ran = TRUE /\ layer = 0 /\ t = [x |-> Image] /\ inputs = <<>> /\ sent = {} /\
      read = {} /\ feats = <<>>
  BY DEF Init
<1>3. Stands(graph, ran, feats, job, Grid)
  BY <1>2 DEF Stands, Encoders, Graphs
<1>4. Intact(t)
  <2>1. Exists(Image)
    BY <1>1, JobFacts, IsThere, Numbers, Small DEF Image
  <2> QED BY <1>2, <2>1 DEF Intact
<1>5. Transferred(graph, ran, inputs, sent, read)
  BY <1>2 DEF Transferred, Told, Sized
<1>6. ran /\ layer \in 0 .. 48
  BY <1>2
<1> QED BY <1>1, <1>3, <1>4, <1>5, <1>6 DEF IInv

-----------------------------------------------------------------------------
\* The features that the state keeps are levels of the grid,
LEMMA FeatureIs ==
  ASSUME NEW i, i \in 0 .. 2
  PROVE  Feature(i) = Level(Grid, Scales[i + 1])
BY DEF Feature, Level

\* one by one,
LEMMA FeaturesAre == Feature(0) = Level(Grid, 4) /\ Feature(1) = Level(Grid, 2) /\ Feature(2) = Level(Grid, 1)
<1>1. 0 + 1 = 1 /\ 1 + 1 = 2 /\ 2 + 1 = 3 /\ Scales[1] = 4 /\ Scales[2] = 2 /\ Scales[3] = 1
  BY DEF Scales
<1> QED BY <1>1, FeatureIs

\* and they exist.
LEMMA LevelIsThere ==
  ASSUME NEW g, g \in Pos
  PROVE  Exists(Level(g, 4)) /\ Exists(Level(g, 2)) /\ Exists(Level(g, 1))
<1>1. g * 4 \in Pos /\ g * 2 \in Pos /\ g * 1 \in Pos
  BY PosTimes, Small
<1> QED BY <1>1, IsThere, HeadNumbers, Small DEF Level

\* The features are the expected ones,
LEMMA FeatsAre ==
  ASSUME JobFits(job, Grid), FeatsFit(feats, Grid)
  PROVE  /\ feats[1] = Feature(0) /\ feats[2] = Feature(1) /\ feats[3] = Feature(2)
         /\ \A i \in 0 .. 2 : feats[i + 1] = Feature(i)
         /\ feats # <<>> /\ Len(feats) \in {3, 4} /\ \A i \in DOMAIN feats : Exists(feats[i])
<1> DEFINE g == Grid
           a == Level(g, 4)
           b == Level(g, 2)
           c == Level(g, 1)
           d == T4(D, g \div 2, g \div 2, 1)
<1>1. Exists(a) /\ Exists(b) /\ Exists(c) /\ Exists(d)
  <2>1. g \in Pos /\ g \div 2 \in Pos
    <3>1. g \in Pos /\ g >= 2
      BY JobFacts
    <3> HIDE DEF g
    <3> QED BY <3>1 DEF Pos
  <2> HIDE DEF g
  <2> QED BY <2>1, LevelIsThere, IsThere, HeadNumbers, Small
<1>2. feats = <<a, b, c>> \/ feats = <<a, b, c, d>>
  BY DEF FeatsFit
<1>3. Feature(0) = a /\ Feature(1) = b /\ Feature(2) = c
  BY FeaturesAre
<1> HIDE DEF a, b, c, d
<1>4. feats[1] = a /\ feats[2] = b /\ feats[3] = c /\ feats # <<>> /\ Len(feats) \in {3, 4}
  BY <1>2
<1>5. \A i \in DOMAIN feats : Exists(feats[i])
  <2>1. CASE feats = <<a, b, c>>
    BY <1>1, <2>1
  <2>2. CASE feats = <<a, b, c, d>>
    BY <1>1, <2>2
  <2> QED BY <1>2, <2>1, <2>2
<1>6. \A i \in 0 .. 2 : feats[i + 1] = Feature(i)
  <2>1. \A i \in 0 .. 2 : i = 0 \/ i = 1 \/ i = 2
    OBVIOUS
  <2> QED BY <1>3, <1>4, <2>1
<1> QED BY <1>3, <1>4, <1>5, <1>6

\* so that they are read into buffers of their size.
LEMMA ReadsFit ==
  ASSUME NEW levels, levels \subseteq 0 .. 2, JobFits(job, Grid), FeatsFit(feats, Grid)
  PROVE  Sized(ReadFeatures(levels))
BY FeatsAre DEF Sized, ReadFeatures, Read

-----------------------------------------------------------------------------
\* The invariants of the model.
LEMMA WrittenIs ==
  ASSUME Transferred(graph, ran, inputs, sent, read) PROVE TransfersFit
<1>1. ASSUME ran, graph # "decoder" PROVE \A i \in DOMAIN inputs : Written(i)
  <2> SUFFICES ASSUME NEW i \in DOMAIN inputs PROVE Written(i)
    OBVIOUS
  <2>1. (\E n \in Nat : DOMAIN inputs = 1 .. n) /\ Told(inputs, sent)
    BY <1>1 DEF Transferred
  <2>2. FirstOf(inputs[i].name) = i
    <3> DEFINE name == inputs[i].name
               P(k) == inputs[k].name = name /\ \A j \in 1 .. (k - 1) : inputs[j].name # name
    <3>1. \A k \in DOMAIN inputs : P(k) => k = i
      BY <2>1 DEF Told
    <3>2. P(i)
      <4> SUFFICES ASSUME NEW j \in 1 .. (i - 1), inputs[j].name = name PROVE FALSE
        OBVIOUS
      <4>1. j \in DOMAIN inputs
        BY <2>1
      <4> QED BY <2>1, <4>1 DEF Told
    <3> HIDE DEF P
    <3>3. (CHOOSE k \in DOMAIN inputs : P(k)) = i
      BY <3>1, <3>2
    <3> QED BY <3>3 DEF P, FirstOf
  <2>3. Send(inputs[i].name, Elements(inputs[i].of)) \in sent
    BY <2>1 DEF Told
  <2> QED BY <2>2, <2>3 DEF Written, Send
<1>2. InputsAreWritten
  BY <1>1 DEF InputsAreWritten
<1>3. BuffersFit
  BY DEF Transferred, Sized, BuffersFit
<1> QED BY <1>2, <1>3 DEF TransfersFit

\* The invariant implies everything that is checked.
LEMMA Implied == IInv => TypeOK /\ NothingAborts /\ FeaturesFitTheState /\ TransfersFit
<1> SUFFICES ASSUME IInv PROVE TypeOK /\ NothingAborts /\ FeaturesFitTheState /\ TransfersFit
  OBVIOUS
<1>1. JobFits(job, Grid) /\ (feats = <<>> \/ FeatsFit(feats, Grid))
  BY DEF IInv, Stands
<1>2. Len(feats) \in {0, 3, 4} /\ (\A i \in DOMAIN feats : Exists(feats[i]))
      /\ (feats # <<>> => \A i \in 0 .. 2 : feats[i + 1] = Feature(i))
  <2>1. CASE feats = <<>>
    BY <2>1
  <2>2. CASE FeatsFit(feats, Grid)
    BY <1>1, <2>2, FeatsAre
  <2> QED BY <1>1, <2>1, <2>2
<1>3. TypeOK
  <2>1. job.model \in {"sam3", "sam2", "edgetam"}
    BY <1>1 DEF JobFits, JobSet
  <2>2. graph \in Graphs /\ layer \in 0 .. TotalBlocks /\ (~ran => sent = {} /\ read = {})
    BY HieraEnds DEF IInv, Stands
  <2> QED BY <1>2, <2>1, <2>2 DEF TypeOK
<1>4. NothingAborts
  BY <1>2 DEF IInv, Intact, NothingAborts
<1>5. FeaturesFitTheState
  BY <1>2 DEF FeaturesFitTheState
<1>6. TransfersFit
  BY WrittenIs DEF IInv
<1> QED BY <1>3, <1>4, <1>5, <1>6

-----------------------------------------------------------------------------
\* What a graph under construction is.
LEMMA BuiltIs ==
  ASSUME IInv, ~ran
  PROVE  /\ Builds(graph, job, Grid, layer, t, inputs) /\ JobFits(job, Grid)
         /\ graph \notin Encoders => FeatsFit(feats, Grid)
         /\ graph \in {"latents", "windows"} => job.model = "edgetam" /\ PerceiverTakes(Grid)
BY DEF IInv, Stands

\* A graph that ran leaves the features.
LEMMA EncodedIs ==
  ASSUME IInv, Encoded
  PROVE  JobFits(job, Grid) /\ FeatsFit(feats, Grid)
BY DEF IInv, Stands, Encoded

\* A job that stays the same fits still.
LEMMA SameJob == ASSUME IInv, UNCHANGED job PROVE job' \in JobSet /\ job'.model = job.model /\ job'.size = job.size
BY DEF IInv, JobFits

\* Records of tensors that exist: with one tensor,
LEMMA IntactOne == ASSUME NEW a, Exists(a) PROVE Intact([x |-> a])
BY DEF Intact

\* or one and the stages.
LEMMA IntactStages == ASSUME NEW a, NEW b, Exists(a) PROVE Intact([x |-> a, stages |-> b])
<1> DEFINE r == [x |-> a, stages |-> b]
<1>1. DOMAIN r = {"x", "stages"} /\ r.x = a
  OBVIOUS
<1> HIDE DEF r
<1>2. \A name \in DOMAIN r \ {"stages"} : Exists(r[name])
  BY <1>1
<1> QED BY <1>2 DEF Intact, r

\* One input, all of it sent.
LEMMA ToldOne ==
  ASSUME NEW name, NEW x, NEW snt, Send(name, Elements(x)) \in snt
  PROVE  /\ Told(<<In(name, x)>>, snt) /\ \E n \in Nat : DOMAIN <<In(name, x)>> = 1 .. n
<1> DEFINE s == <<In(name, x)>>
<1>1. DOMAIN s = 1 .. 1 /\ s[1].name = name /\ s[1].of = x
  BY DEF In
<1> HIDE DEF s
<1>2. Told(s, snt)
  BY <1>1 DEF Told
<1>3. \E n \in Nat : DOMAIN s = 1 .. n
  BY <1>1
<1> QED BY <1>2, <1>3 DEF s

\* Two inputs.
LEMMA ToldTwo ==
  ASSUME NEW n1, NEW x1, NEW n2, NEW x2, NEW snt, n1 # n2,
         Send(n1, Elements(x1)) \in snt, Send(n2, Elements(x2)) \in snt
  PROVE  /\ Told(<<In(n1, x1), In(n2, x2)>>, snt) /\ \E n \in Nat : DOMAIN <<In(n1, x1), In(n2, x2)>> = 1 .. n
<1> DEFINE s == <<In(n1, x1), In(n2, x2)>>
<1>1. DOMAIN s = 1 .. 2 /\ s[1].name = n1 /\ s[1].of = x1 /\ s[2].name = n2 /\ s[2].of = x2
  BY DEF In
<1> HIDE DEF s
<1>2. \A i \in DOMAIN s : i = 1 \/ i = 2
  BY <1>1
<1>3. Told(s, snt)
  BY <1>1, <1>2 DEF Told
<1>4. \E n \in Nat : DOMAIN s = 1 .. n
  BY <1>1
<1> QED BY <1>3, <1>4 DEF s

\* The image is sent as a whole.
LEMMA ImageOf ==
  ASSUME JobFits(job, Grid)
  PROVE  Image = T4(job.size, job.size, 3, 1) /\ SendImage = Send("input_image", Elements(Image))
<1>1. job.size \in Int
  BY DEF JobFits, JobSet
<1>2. Elements(T4(job.size, job.size, 3, 1)) = job.size * job.size * 3 * 1
  BY <1>1, ElementsOf
<1>3. job.size * job.size * 3 * 1 = job.size * job.size * 3
  BY <1>1
<1> QED BY <1>2, <1>3 DEF Image, SendImage

-----------------------------------------------------------------------------
(* The encoders. *)

\* sam3_encode_image keeps the invariant: the start,
LEMMA EncodeSam3Keeps == ASSUME IInv, EncodeSam3 PROVE IInv'
<1> DEFINE tensors == [x |-> VitPrefix(Image)]
           ins == <<In("input_image", Image)>>
<1>1. job.model = "sam3" /\ graph = "none" /\ UNCHANGED job /\ Start("vit", tensors, ins)
  BY DEF EncodeSam3
<1>2. JobFits(job, Grid)
  BY DEF IInv
<1>3. VitPrefix(Image) = T4(E, Grid, Grid, 1)
  <2>1. job.size \in Pos /\ Grid \in Pos /\ job.size \div 14 = Grid
    BY <1>1, <1>2, JobFacts DEF JobFits, GridFits
  <2> QED BY <1>2, <2>1, VitPrefixOf, ImageOf
<1>4. Exists(T4(E, Grid, Grid, 1))
  BY <1>2, JobFacts, IsThere, VitSizes, Numbers, Small
<1>5. Intact(tensors)
  BY <1>3, <1>4, IntactOne
<1>6. ins = <<In("input_image", T4(job'.size, job'.size, 3, 1))>> /\ job'.model = "sam3"
  BY <1>1, <1>2, ImageOf
<1>7. Builds("vit", job', Grid, 0, tensors, ins)
  <2>1. 0 \in 0 .. 32
    OBVIOUS
  <2>2. tensors = [x |-> T4(E, Grid, Grid, 1)]
    BY <1>3
  <2> HIDE DEF tensors, ins
  <2>3. VitBuilds(job', Grid, 0, tensors, ins)
    BY <1>6, <2>1, <2>2 DEF VitBuilds
  <2> QED BY <2>3 DEF Builds
<1>8. "vit" \in Graphs \ {"none"} /\ "vit" \notin {"latents", "windows"} /\ "vit" \in Encoders
  BY DEF Graphs, Encoders
<1>9. job' \in JobSet /\ job'.model = job.model /\ job'.size = job.size
  BY <1>1, SameJob
<1> HIDE DEF tensors, ins
<1> QED BY <1>1, <1>5, <1>7, <1>8, <1>9, StartKeeps

\* each layer,
LEMMA VitLayerKeeps == ASSUME IInv, VitLayer PROVE IInv'
<1>1. /\ graph = "vit" /\ ~ran /\ layer < 32 /\ layer' = layer + 1
      /\ UNCHANGED <<job, graph, ran, sent, read, feats>> /\ inputs' = inputs
      /\ t' = [x |-> VitBlockForward(t.x, [VitBlock(layer) EXCEPT !.freqs_cis = RopeOf(layer, Grid)], IsGlobal(layer))]
  BY VitSizes DEF VitLayer, Layer
<1>2. VitBuilds(job, Grid, layer, t, inputs) /\ JobFits(job, Grid)
  BY <1>1, BuiltIs DEF Builds
<1>3. layer \in 0 .. 31 /\ Grid \in Pos /\ t.x = T4(E, Grid, Grid, 1) /\ layer + 1 \in 0 .. 32 /\
      layer + 1 \in 0 .. 48
  BY <1>1, <1>2, JobFacts DEF VitBuilds
<1>4. VitBlockForward(T4(E, Grid, Grid, 1), [VitBlock(layer) EXCEPT !.freqs_cis = RopeOf(layer, Grid)], IsGlobal(layer))
        = T4(E, Grid, Grid, 1)
  BY <1>3, VitLayerOf
<1>5. t' = t
  BY <1>1, <1>2, <1>3, <1>4 DEF VitBuilds
<1>6. Builds(graph, job, Grid, layer', t', inputs')
  BY <1>1, <1>2, <1>3, <1>5 DEF VitBuilds, Builds
<1>7. Intact(t')
  BY <1>5 DEF IInv
<1> QED BY <1>1, <1>3, <1>6, <1>7, LayerKeeps

\* and the run.
LEMMA RunVitKeeps == ASSUME IInv, RunVit PROVE IInv'
<1>1. /\ graph = "vit" /\ ~ran /\ ran' = TRUE /\ t' = t /\ sent' = {SendImage} /\ read' = {}
      /\ UNCHANGED <<job, graph, layer, inputs>> /\ feats' = NeckGraph(t.x)
  BY DEF RunVit, Run
<1>2. VitBuilds(job, Grid, layer, t, inputs) /\ JobFits(job, Grid)
  BY <1>1, BuiltIs DEF Builds
<1>3. FeatsFit(feats', Grid)
  <2> DEFINE g == Grid
  <2>1. t.x = T4(E, g, g, 1) /\ g \in Pos /\ g >= 2
    BY <1>2, JobFacts DEF VitBuilds
  <2>2. 2 * (2 * g) = g * 4 /\ 2 * g = g * 2 /\ g = g * 1
    BY <2>1 DEF Pos
  <2> HIDE DEF g
  <2>3. feats' = <<T4(D, 2 * (2 * g), 2 * (2 * g), 1), T4(D, 2 * g, 2 * g, 1), T4(D, g, g, 1), T4(D, g \div 2, g \div 2, 1)>>
    BY <1>1, <2>1, NeckOf
  <2>4. T4(D, 2 * (2 * g), 2 * (2 * g), 1) = Level(g, 4) /\ T4(D, 2 * g, 2 * g, 1) = Level(g, 2) /\
        T4(D, g, g, 1) = Level(g, 1)
    BY <2>2 DEF Level
  <2>5. FeatsFit(feats', g)
    BY <2>3, <2>4 DEF FeatsFit
  <2> QED BY <2>5 DEF g
<1>4. Intact(t')
  BY <1>1 DEF IInv
<1>5. Transferred(graph, TRUE, inputs, sent', read')
  <2>1. inputs = <<In("input_image", Image)>> /\ Send("input_image", Elements(Image)) \in sent'
    BY <1>1, <1>2, ImageOf DEF VitBuilds
  <2>2. Told(inputs, sent') /\ \E n \in Nat : DOMAIN inputs = 1 .. n
    BY <2>1, ToldOne
  <2>3. Sized(read')
    BY <1>1 DEF Sized
  <2> QED BY <2>2, <2>3 DEF Transferred
<1>6. graph # "none"
  BY <1>1
<1> QED BY <1>1, <1>3, <1>4, <1>5, <1>6, RunKeeps

\* The sides of the maps for an image that fits,
LEMMA SidesOf ==
  ASSUME NEW m, NEW s, NEW g, GridFits(m, s, g), m # "sam3"
  PROVE  \E a, b, d : Sides(a, b, g, d) /\ Times(s, 4, a)
<1>1. PICK k : k \in Pos /\ s = 32 * k /\ g = 2 * k
  BY DEF GridFits
<1>2. 8 * k \in Pos /\ 4 * k \in Pos /\ 2 * k \in Pos
  BY <1>1, PosTimes, Small
<1>3. 8 * k = (4 * k) * 2 /\ 4 * k = (2 * k) * 2 /\ 2 * k = k * 2 /\ 32 * k = 4 * (8 * k)
  BY <1>1 DEF Pos
<1>4. Sides(8 * k, 4 * k, g, k) /\ Times(s, 4, 8 * k)
  BY <1>1, <1>2, <1>3 DEF Sides, Times
<1> QED BY <1>4

\* and the levels of the features that they make.
LEMMA SidesAre ==
  ASSUME NEW a, NEW b, NEW g, NEW d, Sides(a, b, g, d)
  PROVE  /\ a \in Pos /\ b \in Pos /\ g \in Pos /\ d \in Pos
         /\ T4(D, a, a, 1) = Level(g, 4) /\ T4(D, b, b, 1) = Level(g, 2) /\ T4(D, g, g, 1) = Level(g, 1)
<1>1. a \in Pos /\ b \in Pos /\ g \in Pos /\ d \in Pos /\ a = b * 2 /\ b = g * 2
  BY DEF Sides, Times
<1>2. a = g * 4 /\ b = g * 2 /\ g = g * 1
  BY <1>1 DEF Pos
<1> QED BY <1>1, <1>2 DEF Level

\* Every map exists.
LEMMA HieraMapIsThere ==
  ASSUME NEW n, NEW a, NEW b, NEW c, NEW d, Sides(a, b, c, d)
  PROVE  Exists(HieraMap(n, a, b, c, d))
<1>1. /\ a \in Pos /\ b \in Pos /\ c \in Pos /\ d \in Pos
      /\ 144 \in Pos /\ 288 \in Pos /\ 576 \in Pos /\ 1152 \in Pos
  BY SidesAre DEF Pos
<1>2. Exists(T4(144, a, a, 1)) /\ Exists(T4(288, b, b, 1)) /\ Exists(T4(576, c, c, 1)) /\ Exists(T4(1152, d, d, 1))
  BY <1>1, IsThere, Small
<1> QED BY <1>2 DEF HieraMap

\* sam2_encode_image_hiera keeps the invariant: the start,
LEMMA EncodeSam2Keeps == ASSUME IInv, EncodeSam2 PROVE IInv'
<1> DEFINE patches == HieraPatches(Image)
           pe == HieraPositions(patches)
           tensors == [x |-> Add(patches, pe), stages |-> <<>>]
           ins == <<In("input_image", Image), In("hiera_pos_embed", pe)>>
<1>1. job.model = "sam2" /\ graph = "none" /\ UNCHANGED job /\ Start("hiera", tensors, ins)
  BY DEF EncodeSam2
<1>2. JobFits(job, Grid)
  BY DEF IInv
<1>3. PICK a, b, d : Sides(a, b, Grid, d) /\ Times(job.size, 4, a)
  <2>1. GridFits(job.model, job.size, Grid) /\ job.model # "sam3"
    BY <1>1, <1>2 DEF JobFits
  <2> QED BY <2>1, SidesOf
<1>4. a \in Pos /\ 144 \in Pos
  BY <1>3, SidesAre DEF Pos
<1>5. patches = T4(144, a, a, 1) /\ pe = T4(144, a, a, 1)
  BY <1>2, <1>3, <1>4, HieraPatchesOf, JobFacts, ImageOf
<1>6. Add(patches, pe) = T4(144, a, a, 1)
  BY <1>4, <1>5, AddSame, Small
<1>7. HieraMap(0, a, b, Grid, d) = T4(144, a, a, 1) /\ Stages(0, a, b, Grid, d) = <<>>
  BY DEF HieraMap, Stages
<1>8. Exists(T4(144, a, a, 1))
  BY <1>4, IsThere, Small
<1>9. Intact(tensors)
  BY <1>6, <1>8, IntactStages
<1>10. job' \in JobSet /\ job'.model = job.model /\ job'.size = job.size
  BY <1>1, SameJob
<1>11. tensors = [x |-> HieraMap(0, a, b, Grid, d), stages |-> Stages(0, a, b, Grid, d)]
  BY <1>6, <1>7
<1>12. ins = <<In("input_image", T4(job'.size, job'.size, 3, 1)), In("hiera_pos_embed", T4(144, a, a, 1))>>
  BY <1>2, <1>5, <1>10, ImageOf
<1> HIDE DEF tensors, ins
<1>13. Builds("hiera", job', Grid, 0, tensors, ins)
  <2>1. 0 \in 0 .. 48
    OBVIOUS
  <2>2. HieraBuilds(job', Grid, 0, tensors, ins)
    BY <1>1, <1>3, <1>10, <1>11, <1>12, <2>1 DEF HieraBuilds
  <2> QED BY <2>2 DEF Builds
<1>14. "hiera" \in Graphs \ {"none"} /\ "hiera" \notin {"latents", "windows"} /\ "hiera" \in Encoders
  BY DEF Graphs, Encoders
<1> QED BY <1>1, <1>9, <1>10, <1>13, <1>14, StartKeeps

\* Sequences, one element longer.
LEMMA AppendNone == ASSUME NEW a PROVE Append(<<>>, a) = <<a>>
OBVIOUS

LEMMA AppendOne == ASSUME NEW a, NEW b PROVE Append(<<a>>, b) = <<a, b>>
<1> DEFINE s == <<a>>
<1>1. s \in Seq({a, b}) /\ Len(s) = 1
  OBVIOUS
<1>2. Append(s, b) \in Seq({a, b}) /\ Len(Append(s, b)) = 2 /\ \A i \in 1 .. 2 : Append(s, b)[i] = <<a, b>>[i]
  BY <1>1, AppendProperties
<1>3. <<a, b>> \in Seq({a, b}) /\ Len(<<a, b>>) = 2
  OBVIOUS
<1> QED BY <1>2, <1>3, SeqEqual

LEMMA AppendTwo == ASSUME NEW a, NEW b, NEW c PROVE Append(<<a, b>>, c) = <<a, b, c>>
<1> DEFINE s == <<a, b>>
<1>1. s \in Seq({a, b, c}) /\ Len(s) = 2
  OBVIOUS
<1>2. Append(s, c) \in Seq({a, b, c}) /\ Len(Append(s, c)) = 3 /\ \A i \in 1 .. 3 : Append(s, c)[i] = <<a, b, c>>[i]
  BY <1>1, AppendProperties
<1>3. <<a, b, c>> \in Seq({a, b, c}) /\ Len(<<a, b, c>>) = 3
  OBVIOUS
<1> QED BY <1>2, <1>3, SeqEqual

LEMMA AppendThree == ASSUME NEW a, NEW b, NEW c, NEW d PROVE Append(<<a, b, c>>, d) = <<a, b, c, d>>
<1> DEFINE s == <<a, b, c>>
<1>1. s \in Seq({a, b, c, d}) /\ Len(s) = 3
  OBVIOUS
<1>2. Append(s, d) \in Seq({a, b, c, d}) /\ Len(Append(s, d)) = 4 /\
      \A i \in 1 .. 4 : Append(s, d)[i] = <<a, b, c, d>>[i]
  BY <1>1, AppendProperties
<1>3. <<a, b, c, d>> \in Seq({a, b, c, d}) /\ Len(<<a, b, c, d>>) = 4
  OBVIOUS
<1> QED BY <1>2, <1>3, SeqEqual

\* A block at the end of a stage adds to the stages.
LEMMA StagesOf ==
  ASSUME NEW n, NEW a, NEW b, NEW c, NEW d, n \in 0 .. 47
  PROVE  Stages(n + 1, a, b, c, d)
           = IF \E s \in 0 .. 3 : n = StageEnd(s) THEN Append(Stages(n, a, b, c, d), HieraMap(n + 1, a, b, c, d))
             ELSE Stages(n, a, b, c, d)
<1> DEFINE x0 == T4(144, a, a, 1)
           x1 == T4(288, b, b, 1)
           x2 == T4(576, c, c, 1)
           x3 == T4(1152, d, d, 1)
<1>0. (\E s \in 0 .. 3 : n = StageEnd(s)) <=> n \in {1, 7, 43, 47}
  <2>1. \A s \in 0 .. 3 : s = 0 \/ s = 1 \/ s = 2 \/ s = 3
    OBVIOUS
  <2>2. 0 \in 0 .. 3 /\ 1 \in 0 .. 3 /\ 2 \in 0 .. 3 /\ 3 \in 0 .. 3
    OBVIOUS
  <2> QED BY <2>1, <2>2, HieraEnds
<1>1. CASE n = 1
  <2>1. Stages(1, a, b, c, d) = <<>> /\ Stages(2, a, b, c, d) = <<x0>> /\ HieraMap(2, a, b, c, d) = x0
    BY DEF Stages, HieraMap
  <2>2. n + 1 = 2
    BY <1>1
  <2> DEFINE st == Stages(n, a, b, c, d)
             sn == Stages(n + 1, a, b, c, d)
             hm == HieraMap(n + 1, a, b, c, d)
  <2>3. st = <<>> /\ sn = <<x0>> /\ hm = x0
    BY <1>1, <2>1, <2>2
  <2>4. \E s \in 0 .. 3 : n = StageEnd(s)
    BY <1>0, <1>1
  <2> HIDE DEF x0, x1, x2, x3, st, sn, hm
  <2>5. Append(<<>>, x0) = <<x0>>
    BY AppendNone
  <2>6. sn = Append(st, hm)
    BY <2>3, <2>5
  <2> QED BY <2>4, <2>6 DEF st, sn, hm
<1>2. CASE n = 7
  <2>1. Stages(7, a, b, c, d) = <<x0>> /\ Stages(8, a, b, c, d) = <<x0, x1>> /\ HieraMap(8, a, b, c, d) = x1
    BY DEF Stages, HieraMap
  <2>2. n + 1 = 8
    BY <1>2
  <2> DEFINE st == Stages(n, a, b, c, d)
             sn == Stages(n + 1, a, b, c, d)
             hm == HieraMap(n + 1, a, b, c, d)
  <2>3. st = <<x0>> /\ sn = <<x0, x1>> /\ hm = x1
    BY <1>2, <2>1, <2>2
  <2>4. \E s \in 0 .. 3 : n = StageEnd(s)
    BY <1>0, <1>2
  <2> HIDE DEF x0, x1, x2, x3, st, sn, hm
  <2>5. Append(<<x0>>, x1) = <<x0, x1>>
    BY AppendOne
  <2>6. sn = Append(st, hm)
    BY <2>3, <2>5
  <2> QED BY <2>4, <2>6 DEF st, sn, hm
<1>3. CASE n = 43
  <2>1. Stages(43, a, b, c, d) = <<x0, x1>> /\ Stages(44, a, b, c, d) = <<x0, x1, x2>> /\
        HieraMap(44, a, b, c, d) = x2
    BY DEF Stages, HieraMap
  <2>2. n + 1 = 44
    BY <1>3
  <2> DEFINE st == Stages(n, a, b, c, d)
             sn == Stages(n + 1, a, b, c, d)
             hm == HieraMap(n + 1, a, b, c, d)
  <2>3. st = <<x0, x1>> /\ sn = <<x0, x1, x2>> /\ hm = x2
    BY <1>3, <2>1, <2>2
  <2>4. \E s \in 0 .. 3 : n = StageEnd(s)
    BY <1>0, <1>3
  <2> HIDE DEF x0, x1, x2, x3, st, sn, hm
  <2>5. Append(<<x0, x1>>, x2) = <<x0, x1, x2>>
    BY AppendTwo
  <2>6. sn = Append(st, hm)
    BY <2>3, <2>5
  <2> QED BY <2>4, <2>6 DEF st, sn, hm
<1>4. CASE n = 47
  <2>1. Stages(47, a, b, c, d) = <<x0, x1, x2>> /\ Stages(48, a, b, c, d) = <<x0, x1, x2, x3>> /\
        HieraMap(48, a, b, c, d) = x3
    BY DEF Stages, HieraMap
  <2>2. n + 1 = 48
    BY <1>4
  <2> DEFINE st == Stages(n, a, b, c, d)
             sn == Stages(n + 1, a, b, c, d)
             hm == HieraMap(n + 1, a, b, c, d)
  <2>3. st = <<x0, x1, x2>> /\ sn = <<x0, x1, x2, x3>> /\ hm = x3
    BY <1>4, <2>1, <2>2
  <2>4. \E s \in 0 .. 3 : n = StageEnd(s)
    BY <1>0, <1>4
  <2> HIDE DEF x0, x1, x2, x3, st, sn, hm
  <2>5. Append(<<x0, x1, x2>>, x3) = <<x0, x1, x2, x3>>
    BY AppendThree
  <2>6. sn = Append(st, hm)
    BY <2>3, <2>5
  <2> QED BY <2>4, <2>6 DEF st, sn, hm
<1>5. CASE n \notin {1, 7, 43, 47}
  <2>1. /\ n + 1 <= 1 <=> n <= 1
        /\ n + 1 <= 7 <=> n <= 7
        /\ n + 1 <= 43 <=> n <= 43
        /\ n + 1 <= 47 <=> n <= 47
    BY <1>5
  <2> QED BY <1>0, <1>5, <2>1 DEF Stages
<1> QED BY <1>1, <1>2, <1>3, <1>4, <1>5

\* each layer,
LEMMA HieraLayerKeeps == ASSUME IInv, HieraLayer PROVE IInv'
<1> DEFINE blk == HieraBlock(layer)
           x == HieraBlockForward(t.x, blk, HieraWeights(blk.dim_in, blk.dim_out))
<1>1. /\ graph = "hiera" /\ ~ran /\ layer < 48 /\ layer' = layer + 1
      /\ UNCHANGED <<job, graph, ran, sent, read, feats>> /\ inputs' = inputs
      /\ t' = [x |-> x, stages |-> IF \E s \in 0 .. 3 : layer = StageEnd(s) THEN Append(t.stages, x) ELSE t.stages]
  BY HieraEnds DEF HieraLayer, HieraForward, HieraTo, Layer
<1>2. HieraBuilds(job, Grid, layer, t, inputs) /\ JobFits(job, Grid)
  BY <1>1, BuiltIs DEF Builds
<1>3. PICK a, b, d :
         /\ Sides(a, b, Grid, d) /\ Times(job.size, 4, a)
         /\ t = [x |-> HieraMap(layer, a, b, Grid, d), stages |-> Stages(layer, a, b, Grid, d)]
         /\ inputs = <<In("input_image", T4(job.size, job.size, 3, 1)), In("hiera_pos_embed", T4(144, a, a, 1))>>
  BY <1>2 DEF HieraBuilds
<1>4. layer \in 0 .. 47 /\ layer + 1 \in 0 .. 48 /\ job.model = "sam2"
  BY <1>1, <1>2 DEF HieraBuilds
<1>5. x = HieraMap(layer + 1, a, b, Grid, d)
  <2>1. HieraTold(HieraMap(layer, a, b, Grid, d), layer) = HieraMap(layer + 1, a, b, Grid, d)
    BY <1>3, <1>4, HieraMapOf
  <2> QED BY <1>3, <2>1 DEF HieraTold
<1> HIDE DEF x
<1>6. t' = [x |-> HieraMap(layer + 1, a, b, Grid, d), stages |-> Stages(layer + 1, a, b, Grid, d)]
  <2>1. t.stages = Stages(layer, a, b, Grid, d)
    BY <1>3
  <2>2. Stages(layer + 1, a, b, Grid, d)
          = IF \E s \in 0 .. 3 : layer = StageEnd(s) THEN Append(Stages(layer, a, b, Grid, d), HieraMap(layer + 1, a, b, Grid, d))
            ELSE Stages(layer, a, b, Grid, d)
    BY <1>4, StagesOf
  <2> QED BY <1>1, <1>5, <2>1, <2>2
<1>7. Builds(graph, job, Grid, layer', t', inputs')
  <2>1. HieraBuilds(job, Grid, layer', t', inputs')
    BY <1>1, <1>3, <1>4, <1>6 DEF HieraBuilds
  <2> QED BY <1>1, <2>1 DEF Builds
<1>8. Intact(t')
  BY <1>3, <1>6, HieraMapIsThere, IntactStages
<1> QED BY <1>1, <1>4, <1>7, <1>8, LayerKeeps

\* Features of these sides are the state's.
LEMMA LevelsFit ==
  ASSUME NEW f, NEW g, NEW a, NEW b, NEW d, Sides(a, b, g, d),
         f[0] = T4(D, a, a, 1), f[1] = T4(D, b, b, 1), f[2] = T4(D, g, g, 1)
  PROVE  FeatsFit([i \in 1 .. (4 - hp.scalp) |-> f[i - 1]], g)
<1> DEFINE l0 == Level(g, 4)
           l1 == Level(g, 2)
           l2 == Level(g, 1)
           fs == [i \in 1 .. 3 |-> f[i - 1]]
<1>1. f[0] = l0 /\ f[1] = l1 /\ f[2] = l2
  BY SidesAre
<1> HIDE DEF l0, l1, l2
<1>2. fs[1] = l0 /\ fs[2] = l1 /\ fs[3] = l2
  <2>1. 1 - 1 = 0 /\ 2 - 1 = 1 /\ 3 - 1 = 2 /\ 1 \in 1 .. 3 /\ 2 \in 1 .. 3 /\ 3 \in 1 .. 3
    OBVIOUS
  <2> QED BY <1>1, <2>1
<1>3. fs = <<l0, l1, l2>>
  <2>1. DOMAIN fs = 1 .. 3 /\ DOMAIN <<l0, l1, l2>> = 1 .. 3
    OBVIOUS
  <2>2. \A i \in 1 .. 3 : i = 1 \/ i = 2 \/ i = 3
    OBVIOUS
  <2>3. \A i \in 1 .. 3 : fs[i] = <<l0, l1, l2>>[i]
    <3> HIDE DEF fs
    <3> QED BY <1>2, <2>2
  <2> QED BY <2>1, <2>3
<1>4. FeatsFit(fs, g)
  BY <1>3 DEF FeatsFit, l0, l1, l2
<1>5. 4 - hp.scalp = 3
  BY HieraSizes
<1> QED BY <1>4, <1>5

\* and the run.
LEMMA RunHieraKeeps == ASSUME IInv, RunHiera PROVE IInv'
<1> DEFINE st == [s \in 0 .. 3 |-> t.stages[s + 1]]
           levels == FpnNeck(st)
<1>1. /\ graph = "hiera" /\ ~ran /\ layer = 48 /\ ran' = TRUE /\ t' = t
      /\ sent' = {SendImage, Send("hiera_pos_embed", Elements(HieraPe(job.size)))} /\ read' = {}
      /\ UNCHANGED <<job, graph, layer, inputs>> /\ feats' = [i \in 1 .. (4 - hp.scalp) |-> levels[i - 1]]
  BY HieraEnds DEF RunHiera, Run
<1>2. HieraBuilds(job, Grid, layer, t, inputs) /\ JobFits(job, Grid)
  BY <1>1, BuiltIs DEF Builds
<1>3. PICK a, b, d :
         /\ Sides(a, b, Grid, d) /\ Times(job.size, 4, a)
         /\ t = [x |-> HieraMap(layer, a, b, Grid, d), stages |-> Stages(layer, a, b, Grid, d)]
         /\ inputs = <<In("input_image", T4(job.size, job.size, 3, 1)), In("hiera_pos_embed", T4(144, a, a, 1))>>
  BY <1>2 DEF HieraBuilds
<1>4. FeatsFit(feats', Grid)
  <2> DEFINE all == <<T4(144, a, a, 1), T4(288, b, b, 1), T4(576, Grid, Grid, 1), T4(1152, d, d, 1)>>
  <2>1. t.stages = all
    BY <1>1, <1>3 DEF Stages
  <2>2. st = [s \in 0 .. 3 |-> all[s + 1]]
    BY <2>1
  <2> HIDE DEF st
  <2>3. levels[0] = T4(D, a, a, 1) /\ levels[1] = T4(D, b, b, 1) /\ levels[2] = T4(D, Grid, Grid, 1)
    BY <1>3, <2>2, FpnNeckOf
  <2> HIDE DEF levels
  <2> QED BY <1>1, <1>3, <2>3, LevelsFit
<1>5. Intact(t')
  BY <1>1 DEF IInv
<1>6. Transferred(graph, TRUE, inputs, sent', read')
  <2>1. HieraPe(job.size) = T4(144, a, a, 1)
    BY <1>2, <1>3, HieraPatchesOf, JobFacts, SidesAre
  <2>2. inputs = <<In("input_image", Image), In("hiera_pos_embed", HieraPe(job.size))>>
    BY <1>2, <1>3, <2>1, ImageOf
  <2>3. Send("input_image", Elements(Image)) \in sent' /\
        Send("hiera_pos_embed", Elements(HieraPe(job.size))) \in sent'
    BY <1>1, <1>2, ImageOf
  <2>4. Told(inputs, sent') /\ \E n \in Nat : DOMAIN inputs = 1 .. n
    BY <2>2, <2>3, ToldTwo
  <2>5. Sized(read')
    BY <1>1 DEF Sized
  <2> QED BY <2>4, <2>5 DEF Transferred
<1>7. graph # "none"
  BY <1>1
<1> HIDE DEF levels
<1> QED BY <1>1, <1>4, <1>5, <1>6, <1>7, RunKeeps

\* Every map exists.
LEMMA RepVitMapIsThere ==
  ASSUME NEW n, NEW a, NEW b, NEW c, NEW d, Sides(a, b, c, d), n \in 0 .. 4
  PROVE  Exists(RepVitMap(n, a, b, c, d))
<1>1. /\ a \in Pos /\ b \in Pos /\ c \in Pos /\ d \in Pos
      /\ 48 \in Pos /\ 96 \in Pos /\ 192 \in Pos /\ 384 \in Pos
  BY SidesAre DEF Pos
<1>2. Exists(T4(a, a, 48, 1)) /\ Exists(T4(b, b, 96, 1)) /\ Exists(T4(c, c, 192, 1)) /\ Exists(T4(d, d, 384, 1))
  BY <1>1, IsThere, Small
<1>3. n = 0 \/ n = 1 \/ n = 2 \/ n \in {3, 4}
  OBVIOUS
<1>4. RepVitMap(n, a, b, c, d) \in {T4(a, a, 48, 1), T4(b, b, 96, 1), T4(c, c, 192, 1), T4(d, d, 384, 1)}
  BY <1>3 DEF RepVitMap
<1> QED BY <1>2, <1>4

\* edgetam_encode_image keeps the invariant: the start,
LEMMA EncodeEdgeTamKeeps == ASSUME IInv, EncodeEdgeTam PROVE IInv'
<1> DEFINE tensors == [x |-> RepVitStart(Image), stages |-> <<>>]
           ins == <<In("input_image", Image)>>
<1>1. job.model = "edgetam" /\ graph = "none" /\ UNCHANGED job /\ Start("repvit", tensors, ins)
  BY DEF EncodeEdgeTam
<1>2. JobFits(job, Grid)
  BY DEF IInv
<1>3. PICK a, b, d : Sides(a, b, Grid, d) /\ Times(job.size, 4, a)
  <2>1. GridFits(job.model, job.size, Grid) /\ job.model # "sam3"
    BY <1>1, <1>2 DEF JobFits
  <2> QED BY <2>1, SidesOf
<1>4. a \in Pos /\ 48 \in Pos /\ job.size \in Pos
  BY <1>2, <1>3, SidesAre, JobFacts DEF Pos
<1>5. RepVitStart(Image) = T4(a, a, 48, 1)
  <2> DEFINE h == 2 * a
  <2>1. h \in Pos /\ Times(h, a, 2) /\ Times(job.size, h, 2)
    BY <1>3, <1>4 DEF Times, Pos
  <2> HIDE DEF h
  <2> QED BY <1>2, <1>4, <2>1, ImageOf, RepVitStartOf
<1>6. RepVitMap(0, a, b, Grid, d) = T4(a, a, 48, 1) /\ RepVitStages(0, a, b, Grid, d) = <<>>
  BY DEF RepVitMap, RepVitStages
<1>7. Exists(T4(a, a, 48, 1))
  BY <1>4, IsThere, Small
<1>8. Intact(tensors)
  BY <1>5, <1>7, IntactStages
<1>9. job' \in JobSet /\ job'.model = job.model /\ job'.size = job.size
  BY <1>1, SameJob
<1>10. tensors = [x |-> RepVitMap(0, a, b, Grid, d), stages |-> RepVitStages(0, a, b, Grid, d)]
  BY <1>5, <1>6
<1>11. ins = <<In("input_image", T4(job'.size, job'.size, 3, 1))>>
  BY <1>2, <1>9, ImageOf
<1> HIDE DEF tensors, ins
<1>12. Builds("repvit", job', Grid, 0, tensors, ins)
  <2>1. 0 \in 0 .. 14 /\ 0 \in 0 .. 4
    OBVIOUS
  <2>2. RepVitBuilds(job', Grid, 0, tensors, ins)
    BY <1>1, <1>3, <1>9, <1>10, <1>11, <2>1 DEF RepVitBuilds
  <2> QED BY <2>2 DEF Builds
<1>13. "repvit" \in Graphs \ {"none"} /\ "repvit" \notin {"latents", "windows"} /\ "repvit" \in Encoders
  BY DEF Graphs, Encoders
<1> QED BY <1>1, <1>8, <1>9, <1>12, <1>13, StartKeeps

\* How many stages are done.
LEMMA RepVitLen ==
  ASSUME NEW n, NEW a, NEW b, NEW c, NEW d, n \in 0 .. 4
  PROVE  Len(RepVitStages(n, a, b, c, d)) = n
<1>1. n = 0 \/ n = 1 \/ n = 2 \/ n = 3 \/ n = 4
  OBVIOUS
<1> DEFINE x0 == T4(a, a, 48, 1)
           x1 == T4(b, b, 96, 1)
           x2 == T4(c, c, 192, 1)
           x3 == T4(d, d, 384, 1)
<1>2. /\ RepVitStages(0, a, b, c, d) = <<>> /\ RepVitStages(1, a, b, c, d) = <<x0>>
      /\ RepVitStages(2, a, b, c, d) = <<x0, x1>> /\ RepVitStages(3, a, b, c, d) = <<x0, x1, x2>>
      /\ RepVitStages(4, a, b, c, d) = <<x0, x1, x2, x3>>
  BY DEF RepVitStages
<1> HIDE DEF x0, x1, x2, x3
<1>3. /\ Len(<<x0>>) = 1 /\ Len(<<x0, x1>>) = 2 /\ Len(<<x0, x1, x2>>) = 3 /\ Len(<<x0, x1, x2, x3>>) = 4
      /\ Len(<<>>) = 0
  OBVIOUS
<1>4. CASE n = 0
  BY <1>2, <1>3, <1>4
<1>5. CASE n = 1
  BY <1>2, <1>3, <1>5
<1>6. CASE n = 2
  BY <1>2, <1>3, <1>6
<1>7. CASE n = 3
  BY <1>2, <1>3, <1>7
<1>8. CASE n = 4
  BY <1>2, <1>3, <1>8
<1> QED BY <1>1, <1>4, <1>5, <1>6, <1>7, <1>8

\* The side and the channels of the map of a stage.
LEMMA RepVitStageIs ==
  ASSUME NEW n, NEW a, NEW b, NEW c, NEW d, n \in 0 .. 3, Sides(a, b, c, d)
  PROVE  \E w, ch : /\ w \in Pos /\ ch \in Pos /\ RepVitMap(n, a, b, c, d) = T4(w, w, ch, 1)
                    /\ hp.repvit_channels[n + 1] = ch /\ hp.repvit_stages[n + 1] \in 1 .. 14
<1>1. /\ a \in Pos /\ b \in Pos /\ c \in Pos /\ d \in Pos
      /\ 48 \in Pos /\ 96 \in Pos /\ 192 \in Pos /\ 384 \in Pos
  BY SidesAre DEF Pos
<1>2. CASE n = 0
  BY <1>1, <1>2, RepVitSizes DEF RepVitMap
<1>3. CASE n = 1
  BY <1>1, <1>3, RepVitSizes DEF RepVitMap
<1>4. CASE n = 2
  BY <1>1, <1>4, RepVitSizes DEF RepVitMap
<1>5. CASE n = 3
  BY <1>1, <1>5, RepVitSizes DEF RepVitMap
<1> QED BY <1>2, <1>3, <1>4, <1>5

\* The number of the next block tells whether it squeezes.
LEMMA RepVitLayerKeeps == ASSUME IInv, RepVitLayer PROVE IInv'
<1>1. /\ graph = "repvit" /\ ~ran /\ Len(t.stages) < 4 /\ layer < StageBlocks /\ layer' = layer + 1
      /\ UNCHANGED <<job, graph, ran, sent, read, feats>> /\ inputs' = inputs
      /\ t' = [t EXCEPT !.x = RepVitForward(@, RepVitBlock(StageChannels, layer % 2 = 0))]
  BY DEF RepVitLayer, Layer
<1>2. RepVitBuilds(job, Grid, layer, t, inputs) /\ JobFits(job, Grid)
  BY <1>1, BuiltIs DEF Builds
<1>3. PICK a, b, d, n :
         /\ Sides(a, b, Grid, d) /\ n \in 0 .. 4 /\ (n = 4 => layer = 0)
         /\ t = [x |-> RepVitMap(n, a, b, Grid, d), stages |-> RepVitStages(n, a, b, Grid, d)]
  BY <1>2 DEF RepVitBuilds
<1>4. Len(t.stages) = n /\ n \in 0 .. 3
  BY <1>1, <1>3, RepVitLen
<1>5. PICK w, ch : /\ w \in Pos /\ ch \in Pos /\ RepVitMap(n, a, b, Grid, d) = T4(w, w, ch, 1)
                   /\ hp.repvit_channels[n + 1] = ch /\ hp.repvit_stages[n + 1] \in 1 .. 14
  BY <1>3, <1>4, RepVitStageIs
<1>6. StageChannels = ch /\ layer < hp.repvit_stages[n + 1]
  BY <1>1, <1>4, <1>5 DEF StageChannels, StageBlocks
<1>7. RepVitForward(T4(w, w, ch, 1), RepVitBlock(StageChannels, layer % 2 = 0)) = T4(w, w, ch, 1)
  <2> DEFINE se == layer % 2 = 0
  <2>1. se \in BOOLEAN
    OBVIOUS
  <2> HIDE DEF se
  <2>2. RepVitForward(T4(w, w, ch, 1), RepVitBlock(StageChannels, se)) = T4(w, w, ch, 1)
    BY <1>5, <1>6, <2>1, RepVitBlockOf
  <2> QED BY <2>2 DEF se
<1>8. t' = t
  BY <1>1, <1>3, <1>5, <1>7
<1>9. layer + 1 \in 0 .. 14 /\ layer' \in 0 .. 48 /\ n # 4
  <2>1. layer \in 0 .. 14
    BY <1>2 DEF RepVitBuilds
  <2> DEFINE top == hp.repvit_stages[n + 1]
  <2>2. top \in 1 .. 14 /\ layer < top /\ layer' = layer + 1
    BY <1>1, <1>5, <1>6
  <2> HIDE DEF top
  <2>3. layer + 1 \in 0 .. 14 /\ layer' \in 0 .. 48
    BY <2>1, <2>2
  <2> QED BY <1>4, <2>3
<1>10. RepVitBuilds(job, Grid, layer', t', inputs')
  BY <1>1, <1>2, <1>3, <1>8, <1>9 DEF RepVitBuilds
<1>11. Builds(graph, job, Grid, layer', t', inputs')
  BY <1>1, <1>10 DEF Builds
<1>12. Intact(t')
  BY <1>8 DEF IInv
<1> QED BY <1>1, <1>9, <1>11, <1>12, LayerKeeps

\* The end of a stage adds to the stages, and the next one starts at half the size.
LEMMA RepVitAdds ==
  ASSUME NEW n, NEW a, NEW b, NEW c, NEW d, n \in 0 .. 3
  PROVE  RepVitStages(n + 1, a, b, c, d) = Append(RepVitStages(n, a, b, c, d), RepVitMap(n, a, b, c, d))
<1> DEFINE x0 == T4(a, a, 48, 1)
           x1 == T4(b, b, 96, 1)
           x2 == T4(c, c, 192, 1)
           x3 == T4(d, d, 384, 1)
           st == RepVitStages(n, a, b, c, d)
           sn == RepVitStages(n + 1, a, b, c, d)
           m == RepVitMap(n, a, b, c, d)
<1>1. CASE n = 0
  <2>1. st = <<>> /\ sn = <<x0>> /\ m = x0
    BY <1>1 DEF RepVitStages, RepVitMap
  <2> HIDE DEF st, sn, m, x0
  <2> QED BY <2>1, AppendNone DEF st, sn, m
<1>2. CASE n = 1
  <2>1. st = <<x0>> /\ sn = <<x0, x1>> /\ m = x1
    BY <1>2 DEF RepVitStages, RepVitMap
  <2> HIDE DEF st, sn, m, x0, x1
  <2>2. sn = Append(st, m)
    BY <2>1, AppendOne
  <2> QED BY <2>2 DEF st, sn, m
<1>3. CASE n = 2
  <2>1. st = <<x0, x1>> /\ sn = <<x0, x1, x2>> /\ m = x2
    BY <1>3 DEF RepVitStages, RepVitMap
  <2> HIDE DEF st, sn, m, x0, x1, x2
  <2>2. sn = Append(st, m)
    BY <2>1, AppendTwo
  <2> QED BY <2>2 DEF st, sn, m
<1>4. CASE n = 3
  <2>1. st = <<x0, x1, x2>> /\ sn = <<x0, x1, x2, x3>> /\ m = x3
    BY <1>4 DEF RepVitStages, RepVitMap
  <2> HIDE DEF st, sn, m, x0, x1, x2, x3
  <2>2. sn = Append(st, m)
    BY <2>1, AppendThree
  <2> QED BY <2>2 DEF st, sn, m
<1> QED BY <1>1, <1>2, <1>3, <1>4

\* The downsampling leads from one stage to the next.
LEMMA RepVitHalves ==
  ASSUME NEW n, NEW a, NEW b, NEW c, NEW d, n \in 0 .. 2, Sides(a, b, c, d)
  PROVE  DownsampleForward(RepVitMap(n, a, b, c, d),
                           RepVitDownsample(hp.repvit_channels[n + 1], hp.repvit_channels[n + 2]))
           = RepVitMap(n + 1, a, b, c, d)
<1>1. /\ a \in Pos /\ b \in Pos /\ c \in Pos /\ d \in Pos
      /\ 48 \in Pos /\ 96 \in Pos /\ 192 \in Pos /\ 384 \in Pos
  BY SidesAre DEF Pos
<1>2. Times(a, b, 2) /\ Times(b, c, 2) /\ Times(c, d, 2)
  BY DEF Sides
<1> DEFINE k == hp.repvit_channels[n + 1]
           o == hp.repvit_channels[n + 2]
           m == RepVitMap(n, a, b, c, d)
           mn == RepVitMap(n + 1, a, b, c, d)
<1>3. CASE n = 0
  <2>1. k = 48 /\ o = 96 /\ m = T4(a, a, 48, 1) /\ mn = T4(b, b, 96, 1)
    BY <1>3, RepVitSizes DEF RepVitMap
  <2> HIDE DEF k, o, m, mn
  <2>2. DownsampleForward(m, RepVitDownsample(k, o)) = mn
    BY <1>1, <1>2, <2>1, DownsampleOf
  <2> QED BY <2>2 DEF k, o, m, mn
<1>4. CASE n = 1
  <2>1. k = 96 /\ o = 192 /\ m = T4(b, b, 96, 1) /\ mn = T4(c, c, 192, 1)
    BY <1>4, RepVitSizes DEF RepVitMap
  <2> HIDE DEF k, o, m, mn
  <2>2. DownsampleForward(m, RepVitDownsample(k, o)) = mn
    BY <1>1, <1>2, <2>1, DownsampleOf
  <2> QED BY <2>2 DEF k, o, m, mn
<1>5. CASE n = 2
  <2>1. k = 192 /\ o = 384 /\ m = T4(c, c, 192, 1) /\ mn = T4(d, d, 384, 1)
    BY <1>5, RepVitSizes DEF RepVitMap
  <2> HIDE DEF k, o, m, mn
  <2>2. DownsampleForward(m, RepVitDownsample(k, o)) = mn
    BY <1>1, <1>2, <2>1, DownsampleOf
  <2> QED BY <2>2 DEF k, o, m, mn
<1> QED BY <1>3, <1>4, <1>5

\* the end of a stage,
LEMMA RepVitStageKeeps == ASSUME IInv, RepVitStage PROVE IInv'
<1>1. /\ graph = "repvit" /\ ~ran /\ Len(t.stages) < 4 /\ layer' = 0
      /\ UNCHANGED <<job, graph, ran, sent, read, feats>> /\ inputs' = inputs
      /\ t' = [x |-> IF Len(t.stages) = 3 THEN t.x
                     ELSE DownsampleForward(t.x, RepVitDownsample(StageChannels, hp.repvit_channels[Len(t.stages) + 2])),
               stages |-> Append(t.stages, t.x)]
  BY DEF RepVitStage
<1>2. RepVitBuilds(job, Grid, layer, t, inputs) /\ JobFits(job, Grid)
  BY <1>1, BuiltIs DEF Builds
<1>3. PICK a, b, d, n :
         /\ Sides(a, b, Grid, d) /\ n \in 0 .. 4 /\ (n = 4 => layer = 0)
         /\ t = [x |-> RepVitMap(n, a, b, Grid, d), stages |-> RepVitStages(n, a, b, Grid, d)]
  BY <1>2 DEF RepVitBuilds
<1> DEFINE m == RepVitMap(n, a, b, Grid, d)
           mn == RepVitMap(n + 1, a, b, Grid, d)
           st == RepVitStages(n, a, b, Grid, d)
           sn == RepVitStages(n + 1, a, b, Grid, d)
           down == DownsampleForward(m, RepVitDownsample(hp.repvit_channels[n + 1], hp.repvit_channels[n + 2]))
<1>4. Len(t.stages) = n /\ n \in 0 .. 3 /\ n + 1 \in 0 .. 4 /\ t.x = m /\ t.stages = st
  BY <1>1, <1>3, RepVitLen
<1>5. sn = Append(st, m)
  BY <1>4, RepVitAdds
<1>6. n = 3 => mn = m
  BY DEF RepVitMap
<1>7. n # 3 => down = mn
  <2>1. n # 3 => n \in 0 .. 2
    BY <1>4
  <2> QED BY <1>3, <2>1, RepVitHalves
<1> HIDE DEF m, mn, st, sn
<1>8. t' = [x |-> IF n = 3 THEN m ELSE down, stages |-> Append(st, m)]
  BY <1>1, <1>4 DEF StageChannels
<1> HIDE DEF down
<1>9. t' = [x |-> mn, stages |-> sn]
  BY <1>5, <1>6, <1>7, <1>8
<1>10. RepVitBuilds(job, Grid, 0, t', inputs)
  <2>1. 0 \in 0 .. 14
    OBVIOUS
  <2> QED BY <1>2, <1>3, <1>4, <1>9, <2>1 DEF RepVitBuilds, mn, sn
<1>11. Builds(graph, job, Grid, layer', t', inputs') /\ layer' \in 0 .. 48
  BY <1>1, <1>10 DEF Builds
<1>12. Intact(t')
  BY <1>3, <1>4, <1>9, RepVitMapIsThere, IntactStages DEF mn
<1> QED BY <1>1, <1>11, <1>12, LayerKeeps

\* and the run.
LEMMA RunRepVitKeeps == ASSUME IInv, RunRepVit PROVE IInv'
<1> DEFINE st == [s \in 0 .. 3 |-> t.stages[s + 1]]
           levels == EdgeTamNeck(st)
<1>1. /\ graph = "repvit" /\ ~ran /\ Len(t.stages) = 4 /\ ran' = TRUE /\ t' = t
      /\ sent' = {SendImage} /\ read' = {}
      /\ UNCHANGED <<job, graph, layer, inputs>> /\ feats' = [i \in 1 .. (4 - hp.scalp) |-> levels[i - 1]]
  BY DEF RunRepVit, Run
<1>2. RepVitBuilds(job, Grid, layer, t, inputs) /\ JobFits(job, Grid)
  BY <1>1, BuiltIs DEF Builds
<1>3. PICK a, b, d, n :
         /\ Sides(a, b, Grid, d) /\ n \in 0 .. 4
         /\ t = [x |-> RepVitMap(n, a, b, Grid, d), stages |-> RepVitStages(n, a, b, Grid, d)]
  BY <1>2 DEF RepVitBuilds
<1>4. FeatsFit(feats', Grid)
  <2> DEFINE all == <<T4(a, a, 48, 1), T4(b, b, 96, 1), T4(Grid, Grid, 192, 1), T4(d, d, 384, 1)>>
  <2>1. n = 4
    BY <1>1, <1>3, RepVitLen
  <2>2. t.stages = all
    BY <1>3, <2>1 DEF RepVitStages
  <2>3. st = [s \in 0 .. 3 |-> all[s + 1]]
    BY <2>2
  <2> HIDE DEF st
  <2>4. levels[0] = T4(D, a, a, 1) /\ levels[1] = T4(D, b, b, 1) /\ levels[2] = T4(D, Grid, Grid, 1)
    BY <1>3, <2>3, EdgeTamNeckOf
  <2> HIDE DEF levels
  <2> QED BY <1>1, <1>3, <2>4, LevelsFit
<1>5. Intact(t')
  BY <1>1 DEF IInv
<1>6. Transferred(graph, TRUE, inputs, sent', read')
  <2>1. inputs = <<In("input_image", Image)>> /\ Send("input_image", Elements(Image)) \in sent'
    BY <1>1, <1>2, ImageOf DEF RepVitBuilds
  <2>2. Told(inputs, sent') /\ \E k \in Nat : DOMAIN inputs = 1 .. k
    BY <2>1, ToldOne
  <2>3. Sized(read')
    BY <1>1 DEF Sized
  <2> QED BY <2>2, <2>3 DEF Transferred
<1>7. graph # "none"
  BY <1>1
<1> HIDE DEF levels
<1> QED BY <1>1, <1>4, <1>5, <1>6, <1>7, RunKeeps

-----------------------------------------------------------------------------
(* A prompt in words. *)

\* Three inputs of different names, each sent,
LEMMA ToldThree ==
  ASSUME NEW n1, NEW x1, NEW n2, NEW x2, NEW n3, NEW x3, NEW snt,
         n1 # n2, n1 # n3, n2 # n3,
         Send(n1, Elements(x1)) \in snt, Send(n2, Elements(x2)) \in snt, Send(n3, Elements(x3)) \in snt
  PROVE  Told(<<In(n1, x1), In(n2, x2), In(n3, x3)>>, snt)
         /\ \E n \in Nat : DOMAIN <<In(n1, x1), In(n2, x2), In(n3, x3)>> = 1 .. n
<1> DEFINE s == <<In(n1, x1), In(n2, x2), In(n3, x3)>>
<1>1. DOMAIN s = 1 .. 3 /\ s[1].name = n1 /\ s[1].of = x1 /\ s[2].name = n2 /\ s[2].of = x2 /\
      s[3].name = n3 /\ s[3].of = x3
  BY DEF In
<1> HIDE DEF s
<1>2. \A i \in DOMAIN s : i = 1 \/ i = 2 \/ i = 3
  BY <1>1
<1>3. \A i, j \in DOMAIN s : s[i].name = s[j].name => i = j
  BY <1>1, <1>2
<1>4. \A i \in DOMAIN s : Send(s[i].name, Elements(s[i].of)) \in snt
  BY <1>1, <1>2
<1>5. \E n \in Nat : DOMAIN s = 1 .. n
  BY <1>1
<1>6. Told(s, snt)
  BY <1>3, <1>4 DEF Told
<1> QED BY <1>5, <1>6 DEF s

\* four,
LEMMA ToldFour ==
  ASSUME NEW n1, NEW x1, NEW n2, NEW x2, NEW n3, NEW x3, NEW n4, NEW x4, NEW snt,
         n1 # n2, n1 # n3, n1 # n4, n2 # n3, n2 # n4, n3 # n4,
         Send(n1, Elements(x1)) \in snt, Send(n2, Elements(x2)) \in snt, Send(n3, Elements(x3)) \in snt,
         Send(n4, Elements(x4)) \in snt
  PROVE  Told(<<In(n1, x1), In(n2, x2), In(n3, x3), In(n4, x4)>>, snt)
         /\ \E n \in Nat : DOMAIN <<In(n1, x1), In(n2, x2), In(n3, x3), In(n4, x4)>> = 1 .. n
<1> DEFINE s == <<In(n1, x1), In(n2, x2), In(n3, x3), In(n4, x4)>>
<1>1. DOMAIN s = 1 .. 4 /\ s[1].name = n1 /\ s[1].of = x1 /\ s[2].name = n2 /\ s[2].of = x2 /\
      s[3].name = n3 /\ s[3].of = x3 /\ s[4].name = n4 /\ s[4].of = x4
  BY DEF In
<1> HIDE DEF s
<1>2. \A i \in DOMAIN s : i = 1 \/ i = 2 \/ i = 3 \/ i = 4
  BY <1>1
<1>3. \A i, j \in DOMAIN s : s[i].name = s[j].name => i = j
  BY <1>1, <1>2
<1>4. \A i \in DOMAIN s : Send(s[i].name, Elements(s[i].of)) \in snt
  BY <1>1, <1>2
<1>5. \E n \in Nat : DOMAIN s = 1 .. n
  BY <1>1
<1>6. Told(s, snt)
  BY <1>3, <1>4 DEF Told
<1> QED BY <1>5, <1>6 DEF s

\* five,
LEMMA ToldFive ==
  ASSUME NEW n1, NEW x1, NEW n2, NEW x2, NEW n3, NEW x3, NEW n4, NEW x4, NEW n5, NEW x5, NEW snt,
         n1 # n2, n1 # n3, n1 # n4, n1 # n5, n2 # n3, n2 # n4, n2 # n5, n3 # n4, n3 # n5, n4 # n5,
         Send(n1, Elements(x1)) \in snt, Send(n2, Elements(x2)) \in snt, Send(n3, Elements(x3)) \in snt,
         Send(n4, Elements(x4)) \in snt, Send(n5, Elements(x5)) \in snt
  PROVE  Told(<<In(n1, x1), In(n2, x2), In(n3, x3), In(n4, x4), In(n5, x5)>>, snt)
         /\ \E n \in Nat : DOMAIN <<In(n1, x1), In(n2, x2), In(n3, x3), In(n4, x4), In(n5, x5)>> = 1 .. n
<1> DEFINE s == <<In(n1, x1), In(n2, x2), In(n3, x3), In(n4, x4), In(n5, x5)>>
<1>1. DOMAIN s = 1 .. 5 /\ s[1].name = n1 /\ s[1].of = x1 /\ s[2].name = n2 /\ s[2].of = x2 /\
      s[3].name = n3 /\ s[3].of = x3 /\ s[4].name = n4 /\ s[4].of = x4 /\ s[5].name = n5 /\ s[5].of = x5
  BY DEF In
<1> HIDE DEF s
<1>2. \A i \in DOMAIN s : i = 1 \/ i = 2 \/ i = 3 \/ i = 4 \/ i = 5
  BY <1>1
<1>3. \A i, j \in DOMAIN s : s[i].name = s[j].name => i = j
  BY <1>1, <1>2
<1>4. \A i \in DOMAIN s : Send(s[i].name, Elements(s[i].of)) \in snt
  BY <1>1, <1>2
<1>5. \E n \in Nat : DOMAIN s = 1 .. n
  BY <1>1
<1>6. Told(s, snt)
  BY <1>3, <1>4 DEF Told
<1> QED BY <1>5, <1>6 DEF s

\* and six.
LEMMA ToldSix ==
  ASSUME NEW n1, NEW x1, NEW n2, NEW x2, NEW n3, NEW x3, NEW n4, NEW x4, NEW n5, NEW x5, NEW n6, NEW x6, NEW snt,
         n1 # n2, n1 # n3, n1 # n4, n1 # n5, n1 # n6, n2 # n3, n2 # n4, n2 # n5, n2 # n6, n3 # n4, n3 # n5,
         n3 # n6, n4 # n5, n4 # n6, n5 # n6,
         Send(n1, Elements(x1)) \in snt, Send(n2, Elements(x2)) \in snt, Send(n3, Elements(x3)) \in snt,
         Send(n4, Elements(x4)) \in snt, Send(n5, Elements(x5)) \in snt, Send(n6, Elements(x6)) \in snt
  PROVE  Told(<<In(n1, x1), In(n2, x2), In(n3, x3), In(n4, x4), In(n5, x5), In(n6, x6)>>, snt)
         /\ \E n \in Nat : DOMAIN <<In(n1, x1), In(n2, x2), In(n3, x3), In(n4, x4), In(n5, x5), In(n6, x6)>> = 1 .. n
<1> DEFINE s == <<In(n1, x1), In(n2, x2), In(n3, x3), In(n4, x4), In(n5, x5), In(n6, x6)>>
<1>1. DOMAIN s = 1 .. 6 /\ s[1].name = n1 /\ s[1].of = x1 /\ s[2].name = n2 /\ s[2].of = x2 /\
      s[3].name = n3 /\ s[3].of = x3 /\ s[4].name = n4 /\ s[4].of = x4 /\ s[5].name = n5 /\ s[5].of = x5 /\
      s[6].name = n6 /\ s[6].of = x6
  BY DEF In
<1> HIDE DEF s
<1>2. \A i \in DOMAIN s : i = 1 \/ i = 2 \/ i = 3 \/ i = 4 \/ i = 5 \/ i = 6
  BY <1>1
<1>3. \A i, j \in DOMAIN s : s[i].name = s[j].name => i = j
  BY <1>1, <1>2
<1>4. \A i \in DOMAIN s : Send(s[i].name, Elements(s[i].of)) \in snt
  BY <1>1, <1>2
<1>5. \E n \in Nat : DOMAIN s = 1 .. n
  BY <1>1
<1>6. Told(s, snt)
  BY <1>3, <1>4 DEF Told
<1> QED BY <1>5, <1>6 DEF s

\* A run that sent all its inputs and reads into buffers that fit.
LEMMA TransferredIs ==
  ASSUME NEW gr, NEW ins, NEW snt, NEW rd, Told(ins, snt), \E n \in Nat : DOMAIN ins = 1 .. n, Sized(rd)
  PROVE  Transferred(gr, TRUE, ins, snt, rd)
BY DEF Transferred

\* The size of rows,
LEMMA RowSize == ASSUME NEW n, n \in Pos PROVE Elements(Row(n)) = D * n
<1>1. 256 * n * 1 * 1 = 256 * n /\ n \in Int
  BY DEF Pos
<1> QED BY <1>1, ElementsOf, HeadSizes DEF Row

\* and of a line.
LEMMA LineSize == ASSUME NEW n, n \in Pos PROVE Elements(T4(n, 1, 1, 1)) = n
<1>1. n * 1 * 1 * 1 = n /\ n \in Int
  BY DEF Pos
<1> QED BY <1>1, ElementsOf

\* Rows exist.
LEMMA RowIsThere == ASSUME NEW n, n \in Pos PROVE Exists(Row(n))
BY IsThere, HeadNumbers, Small DEF Row

\* Tensors that are rows.
LEMMA RowIs == \A n : T3(D, n, 1) = Row(n) /\ T4(D, n, 1, 1) = Row(n)
BY T3Is DEF Row

\* Reads that fit, together,
LEMMA SizedTwo ==
  ASSUME NEW a, NEW b, Sized(a), Sized(b) PROVE Sized(a \cup b)
BY DEF Sized

\* and one of them.
LEMMA SizedOne ==
  ASSUME NEW x, NEW n, Elements(x) = n PROVE Sized({Read(x, n)})
BY DEF Sized, Read

-----------------------------------------------------------------------------
\* The five graphs of sam3_segment_pcs keep the invariant: the text encoder's start,
LEMMA BeginTextKeeps == ASSUME IInv, NEW n \in Exemplars, BeginText(n) PROVE IInv'
<1> DEFINE tokens == T1(L)
           tensors == [x |-> TextEmbedding(tokens)]
           ins == <<In("text_token_ids", tokens), In("causal_mask", T2(L, L))>>
<1>1. Encoded /\ job.model = "sam3" /\ job' = [job EXCEPT !.boxes = n] /\ Start("text", tensors, ins)
  BY DEF BeginText
<1>2. JobFits(job, Grid) /\ FeatsFit(feats, Grid)
  BY <1>1, EncodedIs
<1>3. job' \in JobSet /\ job'.model = job.model /\ job'.size = job.size
  <2>1. n \in Nat
    BY SizesAssumption DEF SizesFit
  <2> QED BY <1>1, <1>2, <2>1 DEF JobFits, JobSet
<1>4. tensors = [x |-> T4(1024, 32, 1, 1)]
  BY TextSizes, TextEmbeddingOf
<1>5. ins = <<In("text_token_ids", T4(32, 1, 1, 1)), In("causal_mask", T4(32, 32, 1, 1))>>
  BY TextSizes, T1Is, T2Is
<1>6. Exists(T4(1024, 32, 1, 1))
  BY IsThere, Numbers, Small
<1> HIDE DEF tensors, ins
<1>7. Intact(tensors)
  BY <1>4, <1>6, IntactOne
<1>8. Builds("text", job', Grid, 0, tensors, ins)
  <2>1. 0 \in 0 .. 24
    OBVIOUS
  <2> QED BY <1>4, <1>5, <2>1 DEF TextBuilds, Builds
<1>9. "text" \in Graphs \ {"none"} /\ "text" \notin {"latents", "windows"}
  BY DEF Graphs
<1> QED BY <1>1, <1>2, <1>3, <1>7, <1>8, <1>9, StartKeeps

\* its layers,
LEMMA TextLayerKeeps == ASSUME IInv, TextLayer PROVE IInv'
<1>1. /\ graph = "text" /\ ~ran /\ layer < 24 /\ layer' = layer + 1
      /\ UNCHANGED <<job, graph, ran, sent, read, feats>> /\ inputs' = inputs
      /\ t' = [x |-> TextBlock(t.x, TextEncoder.block)]
  BY TextSizes DEF TextLayer, Layer
<1>2. TextBuilds(layer, t, inputs)
  BY <1>1, BuiltIs DEF Builds
<1>3. t' = t
  BY <1>1, <1>2, TextBlockOf DEF TextBuilds
<1>4. layer + 1 \in 0 .. 24 /\ layer' \in 0 .. 48
  BY <1>1, <1>2 DEF TextBuilds
<1>5. Builds(graph, job, Grid, layer', t', inputs')
  BY <1>1, <1>2, <1>3, <1>4 DEF TextBuilds, Builds
<1>6. Intact(t')
  BY <1>3 DEF IInv
<1> QED BY <1>1, <1>4, <1>5, <1>6, LayerKeeps

\* and its run;
LEMMA RunTextKeeps == ASSUME IInv, RunText PROVE IInv'
<1> DEFINE out == TextFeatures(t.x)
<1>1. /\ graph = "text" /\ ~ran /\ ran' = TRUE /\ t' = [x |-> out]
      /\ sent' = {Send("text_token_ids", L), Send("causal_mask", L * L)}
      /\ read' = {Read(out, D * L)} \cup ReadFeatures({2})
      /\ UNCHANGED <<job, graph, layer, inputs>> /\ feats' = feats
  BY DEF RunText, TextRan, Run
<1>2. TextBuilds(layer, t, inputs) /\ JobFits(job, Grid) /\ FeatsFit(feats, Grid)
  BY <1>1, BuiltIs DEF Builds, Encoders
<1>3. out = T4(256, 32, 1, 1)
  BY <1>2, TextFeaturesOf DEF TextBuilds
<1> HIDE DEF out
<1>4. Intact(t')
  BY <1>1, <1>3, IsThere, Numbers, Small, IntactOne
<1>5. Transferred(graph, TRUE, inputs, sent', read')
  <2>1. Elements(T4(32, 1, 1, 1)) = L /\ Elements(T4(32, 32, 1, 1)) = L * L /\ Elements(out) = D * L
    BY <1>3, ElementsOf, TextSizes, HeadSizes
  <2>2. inputs = <<In("text_token_ids", T4(32, 1, 1, 1)), In("causal_mask", T4(32, 32, 1, 1))>>
    BY <1>2 DEF TextBuilds
  <2>3. Send("text_token_ids", Elements(T4(32, 1, 1, 1))) \in sent' /\
        Send("causal_mask", Elements(T4(32, 32, 1, 1))) \in sent'
    BY <1>1, <2>1
  <2>4. Told(inputs, sent') /\ \E k \in Nat : DOMAIN inputs = 1 .. k
    BY <2>2, <2>3, ToldTwo
  <2>5. Sized({Read(out, D * L)})
    BY <2>1, SizedOne
  <2>6. Sized(ReadFeatures({2}))
    <3>1. {2} \subseteq 0 .. 2
      OBVIOUS
    <3> QED BY <1>2, <3>1, ReadsFit
  <2>7. Sized(read')
    BY <1>1, <2>5, <2>6, SizedTwo
  <2> QED BY <2>4, <2>7, TransferredIs
<1>6. graph # "none"
  BY <1>1
<1> QED BY <1>1, <1>2, <1>4, <1>5, <1>6, RunKeeps

-----------------------------------------------------------------------------
\* Records of tensors that exist.
LEMMA IntactImg == ASSUME NEW a, NEW b, Exists(a), Exists(b) PROVE Intact([x |-> a, img |-> b])
<1> DEFINE r == [x |-> a, img |-> b]
<1>1. DOMAIN r = {"x", "img"} /\ r.x = a /\ r.img = b
  OBVIOUS
<1> HIDE DEF r
<1>2. \A name \in DOMAIN r \ {"stages"} : Exists(r[name])
  BY <1>1
<1> QED BY <1>2 DEF Intact, r

\* the geometry encoder's start,
LEMMA BeginGeometryKeeps == ASSUME IInv, BeginGeometry PROVE IInv'
<1> DEFINE x == T3(D, job.boxes + 1, 1)
           img == T3(D, Places, 1)
           tensors == [x |-> x, img |-> img]
           ins == <<In("geo_img", img), In("geo_pe", img), In("geom_post_final_proj", x)>>
<1>1. Encoded /\ graph = "text" /\ UNCHANGED job /\ Start("geometry", tensors, ins)
  BY DEF BeginGeometry
<1>2. JobFits(job, Grid) /\ FeatsFit(feats, Grid)
  BY <1>1, EncodedIs
<1>3. job' \in JobSet /\ job'.model = job.model /\ job'.size = job.size
  BY <1>1, SameJob
<1>4. x = Row(job.boxes + 1) /\ img = Row(Grid * Grid)
  BY RowIs DEF Places
<1>5. Exists(x) /\ Exists(img)
  BY <1>2, <1>4, JobFacts, RowIsThere
<1> HIDE DEF x, img
<1>6. Intact(tensors)
  BY <1>5, IntactImg
<1>7. Builds("geometry", job', Grid, 0, tensors, ins)
  <2>1. 0 \in 0 .. 3
    OBVIOUS
  <2>2. job' = job
    BY <1>1
  <2>3. GeometryBuilds(job, Grid, 0, tensors, ins)
    BY <1>4, <2>1 DEF GeometryBuilds
  <2> HIDE DEF tensors, ins
  <2> QED BY <2>2, <2>3 DEF Builds
<1>8. "geometry" \in Graphs \ {"none"} /\ "geometry" \notin {"latents", "windows"}
  BY DEF Graphs
<1> HIDE DEF tensors, ins
<1> QED BY <1>1, <1>2, <1>3, <1>6, <1>7, <1>8, StartKeeps

\* its layers,
LEMMA GeometryLayerKeeps == ASSUME IInv, GeometryLayer PROVE IInv'
<1>1. /\ graph = "geometry" /\ ~ran /\ layer < 3 /\ layer' = layer + 1
      /\ UNCHANGED <<job, graph, ran, sent, read, feats>> /\ inputs' = inputs
      /\ t' = [t EXCEPT !.x = GeometryForward(@, t.img, t.img, Geometry.layer)]
  BY HeadSizes DEF GeometryLayer, Layer
<1>2. GeometryBuilds(job, Grid, layer, t, inputs) /\ JobFits(job, Grid)
  BY <1>1, BuiltIs DEF Builds
<1>3. GeometryForward(t.x, t.img, t.img, Geometry.layer) = t.x
  <2>1. t.x = T4(D, job.boxes + 1, 1, 1) /\ t.img = T4(D, Grid * Grid, 1, 1)
    BY <1>2 DEF GeometryBuilds, Row
  <2>2. job.boxes + 1 \in Pos /\ Grid * Grid \in Pos
    BY <1>2, JobFacts
  <2> QED BY <2>1, <2>2, GeometryForwardOf
<1>4. t' = t
  BY <1>1, <1>2, <1>3 DEF GeometryBuilds
<1>5. layer + 1 \in 0 .. 3 /\ layer' \in 0 .. 48
  BY <1>1, <1>2 DEF GeometryBuilds
<1>6. Builds(graph, job, Grid, layer', t', inputs')
  <2>1. GeometryBuilds(job, Grid, layer', t', inputs')
    BY <1>1, <1>2, <1>4, <1>5 DEF GeometryBuilds
  <2> QED BY <1>1, <2>1 DEF Builds
<1>7. Intact(t')
  BY <1>4 DEF IInv
<1> QED BY <1>1, <1>5, <1>6, <1>7, LayerKeeps

\* and its run;
LEMMA RunGeometryKeeps == ASSUME IInv, RunGeometry PROVE IInv'
<1> DEFINE out == LayerNorm(t.x, Geometry.encode_norm)
           b == job.boxes + 1
           p == Grid * Grid
<1>1. /\ graph = "geometry" /\ ~ran /\ ran' = TRUE /\ t' = [x |-> out]
      /\ sent' = {Send("geo_img", D * p), Send("geo_pe", D * p), Send("geom_post_final_proj", D * b)}
      /\ read' = {Read(out, D * b)}
      /\ UNCHANGED <<job, graph, layer, inputs>> /\ feats' = feats
  BY DEF RunGeometry, Run, GeometryInput, Places
<1>2. GeometryBuilds(job, Grid, layer, t, inputs) /\ JobFits(job, Grid) /\ FeatsFit(feats, Grid)
  BY <1>1, BuiltIs DEF Builds, Encoders
<1>3. b \in Pos /\ p \in Pos /\ t.x = Row(b)
      /\ inputs = <<In("geo_img", Row(p)), In("geo_pe", Row(p)), In("geom_post_final_proj", Row(b))>>
  BY <1>2, JobFacts DEF GeometryBuilds
<1> HIDE DEF b, p
<1>4. out = Row(b)
  BY <1>3, LayerNormOf, HeadNumbers, Small, GeometryLayerIs DEF Row
<1> HIDE DEF out
<1>5. Intact(t')
  BY <1>1, <1>3, <1>4, RowIsThere, IntactOne
<1>6. Transferred(graph, TRUE, inputs, sent', read')
  <2>1. Elements(Row(b)) = D * b /\ Elements(Row(p)) = D * p
    BY <1>3, RowSize
  <2>2. /\ Send("geo_img", Elements(Row(p))) \in sent' /\ Send("geo_pe", Elements(Row(p))) \in sent'
        /\ Send("geom_post_final_proj", Elements(Row(b))) \in sent'
    BY <1>1, <2>1
  <2>3. Told(inputs, sent') /\ \E k \in Nat : DOMAIN inputs = 1 .. k
    BY <1>3, <2>2, ToldThree
  <2>4. Sized(read')
    BY <1>1, <1>4, <2>1, SizedOne
  <2> QED BY <2>3, <2>4, TransferredIs
<1>7. graph # "none"
  BY <1>1
<1> QED BY <1>1, <1>2, <1>5, <1>6, <1>7, RunKeeps

\* Records of tensors that exist: the fusion encoder's,
LEMMA IntactFusion ==
  ASSUME NEW a1, NEW a2, NEW a3, NEW a4, Exists(a1), Exists(a2), Exists(a3), Exists(a4)
  PROVE  Intact([x |-> a1, prompt |-> a2, pos |-> a3, bias |-> a4])
<1> DEFINE r == [x |-> a1, prompt |-> a2, pos |-> a3, bias |-> a4]
<1>1. DOMAIN r = {"x", "prompt", "pos", "bias"} /\ r.x = a1 /\ r.prompt = a2 /\ r.pos = a3 /\ r.bias = a4
  OBVIOUS
<1> HIDE DEF r
<1>2. \A name \in DOMAIN r \ {"stages"} : Exists(r[name])
  BY <1>1
<1> QED BY <1>2 DEF Intact, r

\* the decoder's,
LEMMA IntactDecoder ==
  ASSUME NEW a1, NEW a2, NEW a3, NEW a4, NEW a5, NEW a6, NEW a7, Exists(a1), Exists(a2), Exists(a3),
         Exists(a4), Exists(a5), Exists(a6), Exists(a7)
  PROVE  Intact([x |-> a1, boxes |-> a2, enc |-> a3, text |-> a4, bias |-> a5, dim_t |-> a6, coords |-> a7])
<1> DEFINE r == [x |-> a1, boxes |-> a2, enc |-> a3, text |-> a4, bias |-> a5, dim_t |-> a6, coords |-> a7]
<1>1. DOMAIN r = {"x", "boxes", "enc", "text", "bias", "dim_t", "coords"} /\ r.x = a1 /\ r.boxes = a2 /\
      r.enc = a3 /\ r.text = a4 /\ r.bias = a5 /\ r.dim_t = a6 /\ r.coords = a7
  OBVIOUS
<1> HIDE DEF r
<1>2. \A name \in DOMAIN r \ {"stages"} : Exists(r[name])
  BY <1>1
<1> QED BY <1>2 DEF Intact, r

\* what comes out of it,
LEMMA IntactScored ==
  ASSUME NEW a1, NEW a2, NEW a3, NEW a4, Exists(a1), Exists(a2), Exists(a3), Exists(a4)
  PROVE  Intact([x |-> a1, boxes |-> a2, scores |-> a3, presence |-> a4])
<1> DEFINE r == [x |-> a1, boxes |-> a2, scores |-> a3, presence |-> a4]
<1>1. DOMAIN r = {"x", "boxes", "scores", "presence"} /\ r.x = a1 /\ r.boxes = a2 /\ r.scores = a3 /\ r.presence = a4
  OBVIOUS
<1> HIDE DEF r
<1>2. \A name \in DOMAIN r \ {"stages"} : Exists(r[name])
  BY <1>1
<1> QED BY <1>2 DEF Intact, r

\* and the mask head's.
LEMMA IntactMasks ==
  ASSUME NEW a1, NEW a2, NEW a3, NEW a4, NEW a5, NEW a6, Exists(a1), Exists(a2), Exists(a3), Exists(a4),
         Exists(a5), Exists(a6)
  PROVE  Intact([enc |-> a1, fpn0 |-> a2, fpn1 |-> a3, queries |-> a4, text |-> a5, bias |-> a6])
<1> DEFINE r == [enc |-> a1, fpn0 |-> a2, fpn1 |-> a3, queries |-> a4, text |-> a5, bias |-> a6]
<1>1. DOMAIN r = {"enc", "fpn0", "fpn1", "queries", "text", "bias"} /\ r.enc = a1 /\ r.fpn0 = a2 /\
      r.fpn1 = a3 /\ r.queries = a4 /\ r.text = a5 /\ r.bias = a6
  OBVIOUS
<1> HIDE DEF r
<1>2. \A name \in DOMAIN r \ {"stages"} : Exists(r[name])
  BY <1>1
<1> QED BY <1>2 DEF Intact, r

\* the fusion encoder's start,
LEMMA BeginFusionKeeps == ASSUME IInv, BeginFusion PROVE IInv'
<1> DEFINE img == T3(D, Places, 1)
           prompt == T3(D, PromptTokens, 1)
           bias == T3(PromptTokens, 1, 1)
           tensors == [x |-> img, prompt |-> prompt, pos |-> img, bias |-> bias]
           ins == <<In("fenc_img", img), In("fenc_pe", img), In("fenc_prompt", prompt), In("fenc_bias", bias)>>
<1>1. Encoded /\ graph = "geometry" /\ UNCHANGED job /\ Start("fusion", tensors, ins)
  BY DEF BeginFusion
<1>2. JobFits(job, Grid) /\ FeatsFit(feats, Grid)
  BY <1>1, EncodedIs
<1>3. job' \in JobSet /\ job'.model = job.model /\ job'.size = job.size
  BY <1>1, SameJob
<1>4. img = Row(Grid * Grid) /\ prompt = Row(PromptOf(job)) /\ bias = T4(PromptOf(job), 1, 1, 1)
  <2>1. PromptTokens = PromptOf(job)
    BY TextSizes DEF PromptTokens, PromptOf
  <2> QED BY <2>1, RowIs, T3Is DEF Places
<1>5. Exists(img) /\ Exists(prompt) /\ Exists(bias)
  BY <1>2, <1>4, JobFacts, RowIsThere, IsThere, Small
<1> HIDE DEF img, prompt, bias
<1>6. Intact(tensors)
  BY <1>5, IntactFusion
<1>7. Builds("fusion", job', Grid, 0, tensors, ins)
  <2>1. 0 \in 0 .. 6
    OBVIOUS
  <2>2. job' = job
    BY <1>1
  <2>3. FusionBuilds(job, Grid, 0, tensors, ins)
    BY <1>4, <2>1 DEF FusionBuilds
  <2> HIDE DEF tensors, ins
  <2> QED BY <2>2, <2>3 DEF Builds
<1>8. "fusion" \in Graphs \ {"none"} /\ "fusion" \notin {"latents", "windows"}
  BY DEF Graphs
<1> HIDE DEF tensors, ins
<1> QED BY <1>1, <1>2, <1>3, <1>6, <1>7, <1>8, StartKeeps

\* its layers,
LEMMA FusionLayersKeeps == ASSUME IInv, FusionLayers PROVE IInv'
<1>1. /\ graph = "fusion" /\ ~ran /\ layer < 6 /\ layer' = layer + 1
      /\ UNCHANGED <<job, graph, ran, sent, read, feats>> /\ inputs' = inputs
      /\ t' = [t EXCEPT !.x = FusionForward(@, t.prompt, t.pos, t.bias, FusionLayer)]
  BY HeadSizes DEF FusionLayers, Layer
<1>2. FusionBuilds(job, Grid, layer, t, inputs) /\ JobFits(job, Grid)
  BY <1>1, BuiltIs DEF Builds
<1>3. FusionForward(t.x, t.prompt, t.pos, t.bias, FusionLayer) = t.x
  <2> DEFINE n == PromptOf(job)
             p == Grid * Grid
  <2>1. /\ t.x = T4(D, p, 1, 1) /\ t.prompt = T4(D, n, 1, 1) /\ t.pos = T4(D, p, 1, 1)
        /\ t.bias = T4(n, 1, 1, 1)
    BY <1>2 DEF FusionBuilds, Row
  <2>2. n \in Pos /\ p \in Pos
    BY <1>2, JobFacts
  <2> HIDE DEF n, p
  <2> QED BY <2>1, <2>2, FusionForwardOf
<1>4. t' = t
  BY <1>1, <1>2, <1>3 DEF FusionBuilds
<1>5. layer + 1 \in 0 .. 6 /\ layer' \in 0 .. 48
  BY <1>1, <1>2 DEF FusionBuilds
<1>6. Builds(graph, job, Grid, layer', t', inputs')
  <2>1. FusionBuilds(job, Grid, layer', t', inputs')
    BY <1>1, <1>2, <1>4, <1>5 DEF FusionBuilds
  <2> QED BY <1>1, <2>1 DEF Builds
<1>7. Intact(t')
  BY <1>4 DEF IInv
<1> QED BY <1>1, <1>5, <1>6, <1>7, LayerKeeps

\* and its run;
LEMMA RunFusionKeeps == ASSUME IInv, RunFusion PROVE IInv'
<1> DEFINE n == PromptTokens
           p == Grid * Grid
<1>1. /\ graph = "fusion" /\ ~ran /\ ran' = TRUE /\ t' = t
      /\ sent' = {Send("fenc_img", D * p), Send("fenc_pe", D * p), Send("fenc_prompt", D * n), Send("fenc_bias", n)}
      /\ read' = {Read(t.x, D * p)}
      /\ UNCHANGED <<job, graph, layer, inputs>> /\ feats' = feats
  BY DEF RunFusion, Run, Places
<1>2. FusionBuilds(job, Grid, layer, t, inputs) /\ JobFits(job, Grid) /\ FeatsFit(feats, Grid)
  BY <1>1, BuiltIs DEF Builds, Encoders
<1>3. n \in Pos /\ p \in Pos /\ t.x = Row(p)
      /\ inputs = <<In("fenc_img", Row(p)), In("fenc_pe", Row(p)), In("fenc_prompt", Row(n)),
                    In("fenc_bias", T4(n, 1, 1, 1))>>
  <2>1. n = PromptOf(job)
    BY TextSizes DEF PromptTokens, PromptOf
  <2> HIDE DEF n
  <2> QED BY <1>2, <2>1, JobFacts DEF FusionBuilds
<1> HIDE DEF n, p
<1>4. Intact(t')
  BY <1>1 DEF IInv
<1>5. Transferred(graph, TRUE, inputs, sent', read')
  <2>1. Elements(Row(n)) = D * n /\ Elements(Row(p)) = D * p /\ Elements(T4(n, 1, 1, 1)) = n
    BY <1>3, RowSize, LineSize
  <2>2. /\ Send("fenc_img", Elements(Row(p))) \in sent' /\ Send("fenc_pe", Elements(Row(p))) \in sent'
        /\ Send("fenc_prompt", Elements(Row(n))) \in sent' /\ Send("fenc_bias", Elements(T4(n, 1, 1, 1))) \in sent'
    BY <1>1, <2>1
  <2>3. Told(inputs, sent') /\ \E k \in Nat : DOMAIN inputs = 1 .. k
    BY <1>3, <2>2, ToldFour
  <2>4. Sized(read')
    BY <1>1, <1>3, <2>1, SizedOne
  <2> QED BY <2>3, <2>4, TransferredIs
<1>6. graph # "none"
  BY <1>1
<1> QED BY <1>1, <1>2, <1>4, <1>5, <1>6, RunKeeps

-----------------------------------------------------------------------------
\* the decoder's start,
LEMMA BeginDecoderKeeps == ASSUME IInv, BeginDecoder PROVE IInv'
<1> DEFINE enc == T3(D, Places, 1)
           text == T3(D, PromptTokens, 1)
           bias == T3(PromptTokens, 1, 1)
           dim_t == T2(1, 64)
           coords == T1(Grid)
           boxes == Reshape(Decoder.reference_points, 4, NQ, 1, 1)
           tensors == [x |-> DecoderQueries, boxes |-> boxes,
                       enc |-> enc, text |-> text, bias |-> bias, dim_t |-> dim_t, coords |-> coords]
           ins == <<In("ddec_enc", enc), In("ddec_pe", enc), In("ddec_text", text),
                    In("sine_dim_t", dim_t), In("rpb_coords", coords), In("text_attn_bias", bias),
                    In("text_valid_mask", bias)>>
<1>1. Encoded /\ graph = "fusion" /\ UNCHANGED job /\ Start("decoder", tensors, ins)
  BY DEF BeginDecoder
<1>2. JobFits(job, Grid) /\ FeatsFit(feats, Grid)
  BY <1>1, EncodedIs
<1>3. job' \in JobSet /\ job'.model = job.model /\ job'.size = job.size
  BY <1>1, SameJob
<1>4. enc = Row(Grid * Grid) /\ text = Row(PromptOf(job)) /\ bias = T4(PromptOf(job), 1, 1, 1)
  <2>1. PromptTokens = PromptOf(job)
    BY TextSizes DEF PromptTokens, PromptOf
  <2> QED BY <2>1, RowIs, T3Is DEF Places
<1>5. DecoderQueries = Row(201) /\ boxes = T4(4, 200, 1, 1)
  BY DecoderQueriesOf, StartingBoxesOf DEF Row
<1>6. Exists(enc) /\ Exists(text) /\ Exists(bias) /\ Exists(dim_t) /\ Exists(coords) /\ Exists(boxes) /\
      Exists(DecoderQueries)
  <2>1. 201 \in Pos /\ Grid \in Pos
    BY <1>2, JobFacts DEF Pos
  <2>2. dim_t = T4(1, 64, 1, 1) /\ coords = T4(Grid, 1, 1, 1)
    BY T1Is, T2Is
  <2> QED BY <1>2, <1>4, <1>5, <2>1, <2>2, JobFacts, RowIsThere, IsThere, Small, Numbers, HeadNumbers
<1> HIDE DEF enc, text, bias, boxes
<1>7. Intact(tensors)
  BY <1>6, IntactDecoder
<1>8. Builds("decoder", job', Grid, 0, tensors, ins)
  <2>1. 0 \in 0 .. 6
    OBVIOUS
  <2>2. job' = job
    BY <1>1
  <2>3. DecoderBuilds(job, Grid, 0, tensors)
    BY <1>4, <1>5, <2>1 DEF DecoderBuilds
  <2> HIDE DEF tensors, ins
  <2> QED BY <2>2, <2>3 DEF Builds
<1>9. "decoder" \in Graphs \ {"none"} /\ "decoder" \notin {"latents", "windows"}
  BY DEF Graphs
<1> HIDE DEF tensors, ins
<1> QED BY <1>1, <1>2, <1>3, <1>7, <1>8, <1>9, StartKeeps

\* The decoder's tensors.
DecoderShaped(r, a1, a2, a3, a4, a5, a6, a7) ==
    r = [x |-> a1, boxes |-> a2, enc |-> a3, text |-> a4, bias |-> a5, dim_t |-> a6, coords |-> a7]

\* A layer that keeps its queries and boxes keeps them all.
LEMMA DecoderKept ==
  ASSUME NEW r, NEW a1, NEW a2, NEW a3, NEW a4, NEW a5, NEW a6, NEW a7,
         DecoderShaped(r, a1, a2, a3, a4, a5, a6, a7)
  PROVE  [r EXCEPT !.x = r.x, !.boxes = r.boxes] = r
BY DEF DecoderShaped

\* its layers,
LEMMA DecoderStepKeeps == ASSUME IInv, DecoderStep PROVE IInv'
<1> DEFINE rpb == BoxRpb(t.boxes, t.coords, GridFromSpatial(t.enc.ne[2]))
           x == DecoderForward(t.x, QueryPos(t.boxes, t.dim_t), t.enc, t.enc, t.text, t.bias, rpb, DecoderLayer)
<1>1. /\ graph = "decoder" /\ ~ran /\ layer < 6 /\ layer' = layer + 1
      /\ UNCHANGED <<job, graph, ran, sent, read, feats>>
      /\ t' = [t EXCEPT !.x = x, !.boxes = RefinedBoxes(x, t.boxes, Decoder)]
  BY HeadSizes DEF DecoderStep, DecoderTo, Layer
<1>2. DecoderBuilds(job, Grid, layer, t) /\ JobFits(job, Grid)
  BY <1>1, BuiltIs DEF Builds
<1> DEFINE n == PromptOf(job)
           p == Grid * Grid
           nq == 201
<1>3. /\ t.x = T4(D, nq, 1, 1) /\ t.boxes = T4(4, 200, 1, 1) /\ t.enc = T4(D, p, 1, 1) /\ t.text = T4(D, n, 1, 1)
      /\ t.bias = T4(n, 1, 1, 1) /\ t.dim_t = T2(1, 64) /\ t.coords = T1(Grid)
  BY <1>2 DEF DecoderBuilds, Row
<1>4. n \in Pos /\ p \in Pos /\ nq \in Pos /\ Grid \in Pos
  BY <1>2, JobFacts DEF Pos
<1>5. QueryPos(t.boxes, t.dim_t) = T4(D, nq, 1, 1)
  <2>1. QueryPos(T4(4, 200, 1, 1), T2(1, 64)) = T4(D, 1 + 200, 1, 1)
    BY QueryPosOf, HeadNumbers
  <2> QED BY <1>3, <2>1
<1>6. rpb = T4(p, nq, 8, 1)
  <2>1. GridFromSpatial(Grid * Grid) = Grid /\ t.enc.ne[2] = Grid * Grid
    BY <1>3, <1>4, GridFromSpatialOf, ExtentOf
  <2>2. BoxRpb(T4(4, 200, 1, 1), T1(Grid), Grid) = T4(Grid * Grid, 1 + 200, 8, 1)
    BY <1>4, BoxRpbOf, HeadNumbers
  <2> QED BY <1>3, <2>1, <2>2
<1> HIDE DEF n, p, nq, rpb
<1>7. x = T4(D, nq, 1, 1)
  BY <1>3, <1>4, <1>5, <1>6, DecoderForwardOf
<1>8. RefinedBoxes(x, t.boxes, Decoder) = t.boxes
  BY <1>3, <1>7, RefinedBoxesOf DEF nq
<1>9. t' = t
  <2>1. x = t.x
    BY <1>3, <1>7
  <2> HIDE DEF x
  <2>2. t' = [t EXCEPT !.x = t.x, !.boxes = t.boxes]
    BY <1>1, <1>8, <2>1
  <2>3. DecoderShaped(t, Row(201), T4(4, 200, 1, 1), Row(Grid * Grid), Row(n), T4(n, 1, 1, 1), T2(1, 64), T1(Grid))
    BY <1>2 DEF DecoderBuilds, DecoderShaped, n
  <2>4. [t EXCEPT !.x = t.x, !.boxes = t.boxes] = t
    BY <2>3, DecoderKept
  <2> QED BY <2>2, <2>4
<1>10. layer + 1 \in 0 .. 6 /\ layer' \in 0 .. 48
  BY <1>1, <1>2 DEF DecoderBuilds
<1>11. Builds(graph, job, Grid, layer', t', inputs')
  <2>1. DecoderBuilds(job, Grid, layer', t')
    BY <1>1, <1>2, <1>9, <1>10 DEF DecoderBuilds
  <2> QED BY <1>1, <2>1 DEF Builds
<1>12. Intact(t')
  BY <1>9 DEF IInv
<1> QED BY <1>1, <1>10, <1>11, <1>12, LayerKeeps

\* and its run;
LEMMA RunDecoderKeeps == ASSUME IInv, RunDecoder PROVE IInv'
<1> DEFINE r == DecoderResult(t.x, t.boxes, t.text, T3(t.bias.ne[1], 1, 1), Decoder)
           n == PromptOf(job)
<1>1. /\ graph = "decoder" /\ ~ran /\ ran' = TRUE
      /\ t' = [x |-> r.queries, boxes |-> r.pred_boxes, scores |-> r.class_scores, presence |-> r.presence_score]
      /\ read' = {Read(r.class_scores, NQ), Read(r.pred_boxes, 4 * NQ), Read(r.presence_score, 1),
                  Read(r.queries, D * (NQ + 1))}
      /\ UNCHANGED <<job, graph, layer, inputs>> /\ feats' = feats
  BY DEF RunDecoder, DecoderRan, Run
<1>2. DecoderBuilds(job, Grid, layer, t) /\ JobFits(job, Grid) /\ FeatsFit(feats, Grid)
  BY <1>1, BuiltIs DEF Builds, Encoders
<1>3. t.x = T4(D, 201, 1, 1) /\ t.boxes = T4(4, 200, 1, 1) /\ t.text = T4(D, n, 1, 1) /\
      t.bias = T4(n, 1, 1, 1) /\ n \in Pos
  BY <1>2, JobFacts DEF DecoderBuilds, Row
<1>4. /\ r.queries = Row(201) /\ r.pred_boxes = T4(4, 200, 1, 1)
      /\ r.class_scores = T4(200, 1, 1, 1) /\ r.presence_score = T4(1, 1, 1, 1)
  <2>1. T3(t.bias.ne[1], 1, 1) = T4(n, 1, 1, 1)
    BY <1>3, ExtentOf, T3Is
  <2> HIDE DEF n
  <2>2. r = [queries |-> T4(D, 201, 1, 1), pred_boxes |-> T4(4, 200, 1, 1),
             class_scores |-> T4(200, 1, 1, 1), presence_score |-> T4(1, 1, 1, 1)]
    BY <1>3, <2>1, DecoderResultOf
  <2> HIDE DEF r
  <2> QED BY <2>2 DEF Row
<1> HIDE DEF r
<1>5. Exists(Row(201)) /\ Exists(T4(4, 200, 1, 1)) /\ Exists(T4(200, 1, 1, 1)) /\ Exists(T4(1, 1, 1, 1))
  <2>1. 201 \in Pos
    BY DEF Pos
  <2> QED BY <2>1, RowIsThere, IsThere, Small, HeadNumbers
<1>6. Intact(t')
  BY <1>1, <1>4, <1>5, IntactScored
<1>7. Transferred(graph, TRUE, inputs, sent', read')
  <2>1. /\ Elements(Row(201)) = D * (NQ + 1) /\ Elements(T4(4, 200, 1, 1)) = 4 * NQ
        /\ Elements(T4(200, 1, 1, 1)) = NQ /\ Elements(T4(1, 1, 1, 1)) = 1
    BY ElementsOf, HeadSizes DEF Row, NQ
  <2>2. Sized(read')
    BY <1>1, <1>4, <2>1 DEF Sized, Read
  <2> QED BY <1>1, <2>2 DEF Transferred
<1>8. graph # "none"
  BY <1>1
<1> QED BY <1>1, <1>2, <1>6, <1>7, <1>8, RunKeeps

-----------------------------------------------------------------------------
\* the mask head's start,
LEMMA BeginMasksKeeps == ASSUME IInv, BeginMasks PROVE IInv'
<1> DEFINE enc == T3(D, Places, 1)
           queries == T3(D, NQ, 1)
           text == T3(D, PromptTokens, 1)
           bias == T3(PromptTokens, 1, 1)
           f0 == Feature(0)
           f1 == Feature(1)
           tensors == [enc |-> enc, fpn0 |-> f0, fpn1 |-> f1, queries |-> queries, text |-> text, bias |-> bias]
           ins == <<In("seg_enc", enc), In("seg_fpn0", f0), In("seg_fpn1", f1),
                    In("seg_queries", queries), In("seg_text", text), In("seg_bias", bias)>>
<1>1. Encoded /\ graph = "decoder" /\ UNCHANGED job /\ Start("masks", tensors, ins)
  BY DEF BeginMasks
<1>2. JobFits(job, Grid) /\ FeatsFit(feats, Grid)
  BY <1>1, EncodedIs
<1>3. job' \in JobSet /\ job'.model = job.model /\ job'.size = job.size
  BY <1>1, SameJob
<1>4. /\ enc = Row(Grid * Grid) /\ text = Row(PromptOf(job)) /\ bias = T4(PromptOf(job), 1, 1, 1) /\
         queries = Row(200)
      /\ f0 = Level(Grid, 4) /\ f1 = Level(Grid, 2)
  <2>1. PromptTokens = PromptOf(job) /\ NQ = 200
    BY TextSizes, HeadSizes DEF PromptTokens, PromptOf, NQ
  <2> QED BY <2>1, RowIs, T3Is, FeaturesAre DEF Places
<1>5. Exists(enc) /\ Exists(text) /\ Exists(bias) /\ Exists(queries) /\ Exists(f0) /\ Exists(f1)
  BY <1>2, <1>4, JobFacts, RowIsThere, IsThere, LevelIsThere, Small, HeadNumbers
<1> HIDE DEF enc, text, bias, queries, f0, f1
<1>6. Intact(tensors)
  BY <1>5, IntactMasks
<1>7. Builds("masks", job', Grid, 0, tensors, ins)
  <2>2. job' = job
    BY <1>1
  <2>3. MasksBuilds(job, Grid, 0, tensors, ins)
    BY <1>4 DEF MasksBuilds
  <2> HIDE DEF tensors, ins
  <2> QED BY <2>2, <2>3 DEF Builds
<1>8. "masks" \in Graphs \ {"none"} /\ "masks" \notin {"latents", "windows"}
  BY DEF Graphs
<1> HIDE DEF tensors, ins
<1> QED BY <1>1, <1>2, <1>3, <1>6, <1>7, <1>8, StartKeeps

\* A grid doubled and doubled again.
LEMMA TwiceAndAgain == ASSUME NEW g, g \in Pos PROVE /\ g * 2 \in Pos /\ g * 4 \in Pos /\ Times(g * 2, g, 2) /\
                                                        Times(g * 4, g * 2, 2)
BY DEF Pos, Times

\* and its run.
LEMMA RunMasksKeeps == ASSUME IInv, RunMasks PROVE IInv'
<1> DEFINE n == PromptTokens
           p == Grid * Grid
           f0 == Feature(0)
           f1 == Feature(1)
           out == SegHeadMasks(t.enc, t.fpn0, t.fpn1, t.queries, t.text, t.bias, SegHead)
<1>1. /\ graph = "masks" /\ ~ran /\ ran' = TRUE /\ t' = [x |-> out]
      /\ sent' = {Send("seg_enc", D * p), Send("seg_fpn0", Elements(f0)), Send("seg_fpn1", Elements(f1)),
                  Send("seg_queries", D * NQ), Send("seg_text", D * n), Send("seg_bias", n)}
      /\ read' = {Read(out, NQ * (Grid * 4) * (Grid * 4))} \cup ReadFeatures({0, 1})
      /\ UNCHANGED <<job, graph, layer, inputs>> /\ feats' = feats
  BY DEF RunMasks, MasksRan, Run, Places
<1>2. MasksBuilds(job, Grid, layer, t, inputs) /\ JobFits(job, Grid) /\ FeatsFit(feats, Grid)
  BY <1>1, BuiltIs DEF Builds, Encoders
<1>3. /\ n \in Pos /\ p \in Pos /\ Grid \in Pos /\ f0 = Level(Grid, 4) /\ f1 = Level(Grid, 2)
      /\ t = [enc |-> Row(p), fpn0 |-> f0, fpn1 |-> f1, queries |-> Row(200), text |-> Row(n), bias |-> T4(n, 1, 1, 1)]
      /\ inputs = <<In("seg_enc", Row(p)), In("seg_fpn0", f0), In("seg_fpn1", f1),
                    In("seg_queries", Row(200)), In("seg_text", Row(n)), In("seg_bias", T4(n, 1, 1, 1))>>
  <2>1. n = PromptOf(job)
    BY TextSizes DEF PromptTokens, PromptOf
  <2>2. f0 = Level(Grid, 4) /\ f1 = Level(Grid, 2)
    BY FeaturesAre
  <2> HIDE DEF n, f0, f1
  <2> QED BY <1>2, <2>1, <2>2, JobFacts DEF MasksBuilds
<1>4. out = T4((Grid * 4) * (Grid * 4), 200, 1, 1)
  <2> DEFINE g == Grid
             g2 == g * 2
             g4 == g * 4
  <2>1. g2 \in Pos /\ g4 \in Pos /\ Times(g2, g, 2) /\ Times(g4, g2, 2) /\ g \in Pos
    BY <1>3, TwiceAndAgain
  <2>2. /\ t.enc = T4(D, g * g, 1, 1) /\ t.fpn0 = T4(D, g4, g4, 1) /\ t.fpn1 = T4(D, g2, g2, 1)
        /\ t.queries = T4(D, 200, 1, 1) /\ t.text = T4(D, n, 1, 1) /\ t.bias = T4(n, 1, 1, 1)
    <3> HIDE DEF n, f0, f1
    <3> QED BY <1>3 DEF Row, Level, p
  <2> HIDE DEF g, g2, g4, n
  <2>3. out = T4(g4 * g4, 200, 1, 1)
    BY <1>3, <2>1, <2>2, SegHeadMasksOf
  <2> QED BY <2>3 DEF g4, g
<1> HIDE DEF n, p, f0, f1, out
<1> DEFINE side == Grid * 4
<1>5. side \in Pos /\ side * side \in Pos
  BY <1>3, PosTimes, Small
<1>6. Intact(t')
  BY <1>1, <1>4, <1>5, IsThere, HeadNumbers, Small, IntactOne
<1>7. Transferred(graph, TRUE, inputs, sent', read')
  <2>1. Elements(Row(n)) = D * n /\ Elements(Row(p)) = D * p /\ Elements(T4(n, 1, 1, 1)) = n
    BY <1>3, RowSize, LineSize
  <2>2. Elements(Row(200)) = D * NQ /\ NQ = 200
    BY RowSize, HeadSizes, HeadNumbers DEF NQ
  <2>3. /\ Send("seg_enc", Elements(Row(p))) \in sent' /\ Send("seg_fpn0", Elements(f0)) \in sent'
        /\ Send("seg_fpn1", Elements(f1)) \in sent' /\ Send("seg_queries", Elements(Row(200))) \in sent'
        /\ Send("seg_text", Elements(Row(n))) \in sent' /\ Send("seg_bias", Elements(T4(n, 1, 1, 1))) \in sent'
    BY <1>1, <2>1, <2>2
  <2> DEFINE snt == sent'
             q == Row(p)
             r == Row(200)
             w == Row(n)
             v == T4(n, 1, 1, 1)
             tuple == <<In("seg_enc", q), In("seg_fpn0", f0), In("seg_fpn1", f1),
                        In("seg_queries", r), In("seg_text", w), In("seg_bias", v)>>
  <2>4. Told(inputs, sent') /\ \E k \in Nat : DOMAIN inputs = 1 .. k
    <3>1. /\ Send("seg_enc", Elements(q)) \in snt /\ Send("seg_fpn0", Elements(f0)) \in snt
          /\ Send("seg_fpn1", Elements(f1)) \in snt /\ Send("seg_queries", Elements(r)) \in snt
          /\ Send("seg_text", Elements(w)) \in snt /\ Send("seg_bias", Elements(v)) \in snt
      BY <2>3
    <3>2. inputs = tuple
      BY <1>3
    <3> HIDE DEF q, r, w, v, snt
    <3>3. Told(tuple, snt) /\ \E k \in Nat : DOMAIN tuple = 1 .. k
      BY <3>1, ToldSix
    <3> QED BY <3>2, <3>3 DEF snt
  <2>5. Elements(out) = NQ * side * side
    <3>1. out = T4(side * side, 200, 1, 1)
      BY <1>4
    <3> HIDE DEF side
    <3>2. side * side \in Int /\ (side * side) * 200 * 1 * 1 = 200 * side * side
      BY <1>5 DEF Pos
    <3> QED BY <2>2, <3>1, <3>2, ElementsOf
  <2>6. Sized({Read(out, NQ * side * side)})
    BY <2>5, SizedOne
  <2>7. Sized(ReadFeatures({0, 1}))
    <3>1. {0, 1} \subseteq 0 .. 2
      OBVIOUS
    <3> QED BY <1>2, <3>1, ReadsFit
  <2>8. Sized(read')
    BY <1>1, <2>6, <2>7, SizedTwo
  <2> QED BY <2>4, <2>8, TransferredIs
<1>8. graph # "none"
  BY <1>1
<1> QED BY <1>1, <1>2, <1>6, <1>7, <1>8, RunKeeps

-----------------------------------------------------------------------------
(* The mask decoder. *)

\* Inputs with names out of a set, each sent.
Listed(s, snt, names) ==
    (\E S : s \in Seq(S)) /\ Told(s, snt) /\ \A i \in DOMAIN s : s[i].name \in names

\* Listed inputs are told,
LEMMA ListedTold == ASSUME NEW s, NEW snt, NEW names, Listed(s, snt, names)
                    PROVE  Told(s, snt) /\ \E n \in Nat : DOMAIN s = 1 .. n
<1>1. PICK S : s \in Seq(S)
  BY DEF Listed
<1>2. DOMAIN s = 1 .. Len(s) /\ Len(s) \in Nat
  BY <1>1, LenProperties
<1> QED BY <1>2 DEF Listed

\* none of them,
LEMMA ListedNone == ASSUME NEW snt, NEW names PROVE Listed(<<>>, snt, names)
BY DEF Listed, Told

\* two lists with no name in common,
LEMMA ListedConcat ==
  ASSUME NEW p, NEW q, NEW snt, NEW np, NEW nq, Listed(p, snt, np), Listed(q, snt, nq), np \cap nq = {}
  PROVE  Listed(p \o q, snt, np \cup nq)
<1>1. PICK S1 : p \in Seq(S1)
  BY DEF Listed
<1>2. PICK S2 : q \in Seq(S2)
  BY DEF Listed
<1> DEFINE S == S1 \cup S2
           s == p \o q
<1>3. p \in Seq(S) /\ q \in Seq(S)
  BY <1>1, <1>2
<1>4. Len(p) \in Nat /\ Len(q) \in Nat /\ DOMAIN p = 1 .. Len(p) /\ DOMAIN q = 1 .. Len(q)
  BY <1>3, LenProperties
<1>5. /\ s \in Seq(S) /\ Len(s) = Len(p) + Len(q)
      /\ \A i \in 1 .. Len(p) + Len(q) : s[i] = IF i <= Len(p) THEN p[i] ELSE q[i - Len(p)]
  BY <1>3, ConcatProperties
<1>6. DOMAIN s = 1 .. Len(p) + Len(q)
  BY <1>5, LenProperties
<1> HIDE DEF s
<1> DEFINE m == Len(p)
           n == Len(q)
<1>7. /\ \A i \in DOMAIN s : i \in Int
      /\ \A i \in DOMAIN s : i <= m => i \in DOMAIN p /\ s[i] = p[i]
      /\ \A i \in DOMAIN s : ~(i <= m) => i - m \in DOMAIN q /\ s[i] = q[i - m]
  <2>1. m \in Nat /\ n \in Nat /\ DOMAIN p = 1 .. m /\ DOMAIN q = 1 .. n /\ DOMAIN s = 1 .. m + n
        /\ \A i \in 1 .. m + n : s[i] = IF i <= m THEN p[i] ELSE q[i - m]
    BY <1>4, <1>5, <1>6
  <2> HIDE DEF m, n
  <2> QED BY <2>1
<1>8. m \in Int
  BY <1>4
<1> HIDE DEF m, n
<1>9. \A i \in DOMAIN p : p[i].name \in np /\ Send(p[i].name, Elements(p[i].of)) \in snt
  BY DEF Listed, Told
<1>10. \A i \in DOMAIN q : q[i].name \in nq /\ Send(q[i].name, Elements(q[i].of)) \in snt
  BY DEF Listed, Told
<1>11. \A i \in DOMAIN s : s[i].name \in np \cup nq /\ Send(s[i].name, Elements(s[i].of)) \in snt
  BY <1>7, <1>9, <1>10
<1>12. \A i, k \in DOMAIN s : s[i].name = s[k].name => i = k
  <2> SUFFICES ASSUME NEW i \in DOMAIN s, NEW k \in DOMAIN s, s[i].name = s[k].name PROVE i = k
    OBVIOUS
  <2>1. CASE i <= m /\ k <= m
    BY <1>7, <2>1 DEF Listed, Told
  <2>2. CASE ~(i <= m) /\ ~(k <= m)
    <3>1. i - m = k - m
      BY <1>7, <2>2 DEF Listed, Told
    <3> QED BY <1>7, <1>8, <3>1
  <2>3. CASE i <= m /\ ~(k <= m)
    BY <1>7, <1>9, <1>10, <2>3
  <2>4. CASE ~(i <= m) /\ k <= m
    BY <1>7, <1>9, <1>10, <2>4
  <2> QED BY <2>1, <2>2, <2>3, <2>4
<1>13. Told(s, snt)
  BY <1>11, <1>12 DEF Told
<1>14. Listed(s, snt, np \cup nq)
  BY <1>5, <1>11, <1>13 DEF Listed
<1> QED BY <1>14 DEF s

\* and lists of one,
LEMMA ListedOne ==
  ASSUME NEW n1, NEW x1, NEW snt,
         Send(n1, Elements(x1)) \in snt
  PROVE  Listed(<<In(n1, x1)>>, snt, {n1})
<1> DEFINE m1 == In(n1, x1)
           s == <<m1>>
<1>1. s \in Seq({m1}) /\ Len(s) = 1 /\ s[1] = m1
  <2> HIDE DEF m1
  <2> QED OBVIOUS
<1>2. m1.name = n1
  BY DEF In
<1>3. Told(s, snt) /\ \E n \in Nat : DOMAIN s = 1 .. n
  BY ToldOne
<1>4. DOMAIN s = 1 .. 1
  <2> HIDE DEF m1
  <2> QED OBVIOUS
<1> HIDE DEF s, m1
<1>5. \A i \in DOMAIN s : i = 1
  BY <1>4
<1>6. \A i \in DOMAIN s : s[i].name \in {n1}
  BY <1>1, <1>2, <1>5
<1>7. Listed(s, snt, {n1})
  BY <1>1, <1>3, <1>6 DEF Listed
<1> QED BY <1>7 DEF s, m1

\* five
LEMMA ListedFive ==
  ASSUME NEW n1, NEW x1, NEW n2, NEW x2, NEW n3, NEW x3, NEW n4, NEW x4, NEW n5, NEW x5, NEW snt,
         n1 # n2, n1 # n3, n1 # n4, n1 # n5, n2 # n3, n2 # n4, n2 # n5, n3 # n4, n3 # n5, n4 # n5,
         Send(n1, Elements(x1)) \in snt, Send(n2, Elements(x2)) \in snt, Send(n3, Elements(x3)) \in snt,
         Send(n4, Elements(x4)) \in snt, Send(n5, Elements(x5)) \in snt
  PROVE  Listed(<<In(n1, x1), In(n2, x2), In(n3, x3), In(n4, x4), In(n5, x5)>>, snt, {n1, n2, n3, n4, n5})
<1> DEFINE m1 == In(n1, x1)
           m2 == In(n2, x2)
           m3 == In(n3, x3)
           m4 == In(n4, x4)
           m5 == In(n5, x5)
           s == <<m1, m2, m3, m4, m5>>
<1>1. s \in Seq({m1, m2, m3, m4, m5}) /\ Len(s) = 5 /\ s[1] = m1 /\ s[2] = m2 /\ s[3] = m3 /\ s[4] = m4 /\ s[5] = m5
  <2> HIDE DEF m1, m2, m3, m4, m5
  <2> QED OBVIOUS
<1>2. m1.name = n1 /\ m2.name = n2 /\ m3.name = n3 /\ m4.name = n4 /\ m5.name = n5
  BY DEF In
<1>3. Told(s, snt) /\ \E n \in Nat : DOMAIN s = 1 .. n
  BY ToldFive
<1>4. DOMAIN s = 1 .. 5
  <2> HIDE DEF m1, m2, m3, m4, m5
  <2> QED OBVIOUS
<1> HIDE DEF s, m1, m2, m3, m4, m5
<1>5. \A i \in DOMAIN s : i = 1 \/ i = 2 \/ i = 3 \/ i = 4 \/ i = 5
  BY <1>4
<1>6. \A i \in DOMAIN s : s[i].name \in {n1, n2, n3, n4, n5}
  BY <1>1, <1>2, <1>5
<1>7. Listed(s, snt, {n1, n2, n3, n4, n5})
  BY <1>1, <1>3, <1>6 DEF Listed
<1> QED BY <1>7 DEF s, m1, m2, m3, m4, m5

\* and six.
LEMMA ListedSix ==
  ASSUME NEW n1, NEW x1, NEW n2, NEW x2, NEW n3, NEW x3, NEW n4, NEW x4, NEW n5, NEW x5, NEW n6, NEW x6, NEW snt,
         n1 # n2, n1 # n3, n1 # n4, n1 # n5, n1 # n6, n2 # n3, n2 # n4, n2 # n5, n2 # n6, n3 # n4, n3 # n5,
         n3 # n6, n4 # n5, n4 # n6, n5 # n6,
         Send(n1, Elements(x1)) \in snt, Send(n2, Elements(x2)) \in snt, Send(n3, Elements(x3)) \in snt,
         Send(n4, Elements(x4)) \in snt, Send(n5, Elements(x5)) \in snt, Send(n6, Elements(x6)) \in snt
  PROVE  Listed(<<In(n1, x1), In(n2, x2), In(n3, x3), In(n4, x4), In(n5, x5), In(n6, x6)>>, snt, {n1, n2, n3, n4, n5, n6})
<1> DEFINE m1 == In(n1, x1)
           m2 == In(n2, x2)
           m3 == In(n3, x3)
           m4 == In(n4, x4)
           m5 == In(n5, x5)
           m6 == In(n6, x6)
           s == <<m1, m2, m3, m4, m5, m6>>
<1>1. s \in Seq({m1, m2, m3, m4, m5, m6}) /\ Len(s) = 6 /\ s[1] = m1 /\ s[2] = m2 /\ s[3] = m3 /\ s[4] = m4 /\
      s[5] = m5 /\ s[6] = m6
  <2> HIDE DEF m1, m2, m3, m4, m5, m6
  <2> QED OBVIOUS
<1>2. m1.name = n1 /\ m2.name = n2 /\ m3.name = n3 /\ m4.name = n4 /\ m5.name = n5 /\ m6.name = n6
  BY DEF In
<1>3. Told(s, snt) /\ \E n \in Nat : DOMAIN s = 1 .. n
  BY ToldSix
<1>4. DOMAIN s = 1 .. 6
  <2> HIDE DEF m1, m2, m3, m4, m5, m6
  <2> QED OBVIOUS
<1> HIDE DEF s, m1, m2, m3, m4, m5, m6
<1>5. \A i \in DOMAIN s : i = 1 \/ i = 2 \/ i = 3 \/ i = 4 \/ i = 5 \/ i = 6
  BY <1>4
<1>6. \A i \in DOMAIN s : s[i].name \in {n1, n2, n3, n4, n5, n6}
  BY <1>1, <1>2, <1>5
<1>7. Listed(s, snt, {n1, n2, n3, n4, n5, n6})
  BY <1>1, <1>3, <1>6 DEF Listed
<1> QED BY <1>7 DEF s, m1, m2, m3, m4, m5, m6

\* Records of tensors that exist: the mask decoder's,
LEMMA IntactDecodes ==
  ASSUME NEW a1, NEW a2, NEW a3, NEW a4, Exists(a1), Exists(a2), Exists(a3), Exists(a4)
  PROVE  Intact([queries |-> a1, keys |-> a2, tokens |-> a3, key_pe |-> a4])
<1> DEFINE r == [queries |-> a1, keys |-> a2, tokens |-> a3, key_pe |-> a4]
<1>1. DOMAIN r = {"queries", "keys", "tokens", "key_pe"} /\ r.queries = a1 /\ r.keys = a2 /\ r.tokens = a3 /\
      r.key_pe = a4
  OBVIOUS
<1> HIDE DEF r
<1>2. \A name \in DOMAIN r \ {"stages"} : Exists(r[name])
  BY <1>1
<1> QED BY <1>2 DEF Intact, r

\* and what comes out of it.
LEMMA IntactResult ==
  ASSUME NEW a1, NEW a2, NEW a3, NEW a4, Exists(a1), Exists(a2), Exists(a3), Exists(a4)
  PROVE  Intact([masks |-> a1, iou_pred |-> a2, obj_score |-> a3, sam_token |-> a4])
<1> DEFINE r == [masks |-> a1, iou_pred |-> a2, obj_score |-> a3, sam_token |-> a4]
<1>1. DOMAIN r = {"masks", "iou_pred", "obj_score", "sam_token"} /\ r.masks = a1 /\ r.iou_pred = a2 /\
      r.obj_score = a3 /\ r.sam_token = a4
  OBVIOUS
<1> HIDE DEF r
<1>2. \A name \in DOMAIN r \ {"stages"} : Exists(r[name])
  BY <1>1
<1> QED BY <1>2 DEF Intact, r

\* The size of the coarsest level.
LEMMA LevelSize == ASSUME NEW g, g \in Pos PROVE Elements(Level(g, 1)) = D * (g * g)
<1>1. 256 * (g * 1) * (g * 1) * 1 = 256 * (g * g) /\ g * 1 \in Int
  BY DEF Pos
<1> QED BY <1>1, ElementsOf, HeadSizes DEF Level

\* The names of the mask decoder's inputs.
DecodeNames == {"sparse", "image_pe", "dense", "feat_s0", "feat_s1", "sam_dec_obj_score"}

\* What the code sends to the mask decoder reaches each of them, with or without the
\* object's score.
LEMMA DecoderListed ==
  ASSUME JobFits(job, Grid), NEW n, n \in Pos, NEW snt, DecoderSends(n) \subseteq snt
  PROVE  Listed(DecodeIns(job.scored, n, Grid), snt, DecodeNames)
<1> DEFINE g == Grid
           five == <<In("sparse", Row(n)), In("image_pe", Level(g, 1)), In("dense", Level(g, 1)),
                     In("feat_s0", Level(g, 4)), In("feat_s1", Level(g, 2))>>
           six == <<In("sam_dec_obj_score", T2(1, 1))>>
           score == IF job.scored THEN <<>> ELSE six
           names == {"sparse", "image_pe", "dense", "feat_s0", "feat_s1"}
           q == Row(n)
           l == Level(g, 1)
           f0 == Level(g, 4)
           f1 == Level(g, 2)
<1>1. g \in Pos /\ job.scored \in BOOLEAN
  BY JobFacts
<1>2. Elements(q) = n * D /\ Elements(l) = D * Places /\ Feature(0) = f0 /\ Feature(1) = f1
  <2>1. D * n = n * D
    BY HeadSizes DEF Pos
  <2> QED BY <1>1, <2>1, RowSize, LevelSize, FeaturesAre DEF Places
<1>3. /\ Send("sparse", Elements(q)) \in snt /\ Send("image_pe", Elements(l)) \in snt
      /\ Send("dense", Elements(l)) \in snt /\ Send("feat_s0", Elements(f0)) \in snt
      /\ Send("feat_s1", Elements(f1)) \in snt
  <2> HIDE DEF q, l, f0, f1
  <2> QED BY <1>2 DEF DecoderSends
<1>4. Listed(five, snt, names)
  <2> DEFINE tuple == <<In("sparse", q), In("image_pe", l), In("dense", l), In("feat_s0", f0), In("feat_s1", f1)>>
  <2> HIDE DEF q, l, f0, f1
  <2>1. Listed(tuple, snt, {"sparse", "image_pe", "dense", "feat_s0", "feat_s1"})
    BY <1>3, ListedFive
  <2> QED BY <2>1 DEF q, l, f0, f1
<1>5. Listed(score, snt, {"sam_dec_obj_score"})
  <2>1. CASE job.scored
    <3>1. score = <<>>
      BY <2>1
    <3> HIDE DEF score
    <3> QED BY <3>1, ListedNone
  <2>2. CASE ~job.scored
    <3>1. Elements(T2(1, 1)) = 1
      BY ElementsOf, T2Is
    <3>2. Send("sam_dec_obj_score", 1) \in snt
      BY <2>2 DEF DecoderSends
    <3>3. Send("sam_dec_obj_score", Elements(T2(1, 1))) \in snt
      BY <3>1, <3>2
    <3>4. Listed(six, snt, {"sam_dec_obj_score"})
      BY <3>3, ListedOne
    <3>5. score = six
      BY <2>2
    <3> HIDE DEF six, score
    <3> QED BY <3>4, <3>5
  <2> QED BY <2>1, <2>2
<1>6. names \cap {"sam_dec_obj_score"} = {} /\ names \cup {"sam_dec_obj_score"} = DecodeNames
  BY DEF DecodeNames
<1>7. DecodeIns(job.scored, n, g) = five \o score
  BY DEF DecodeIns
<1> HIDE DEF five, score, names
<1>8. Listed(five \o score, snt, names \cup {"sam_dec_obj_score"})
  BY <1>4, <1>5, <1>6, ListedConcat
<1> QED BY <1>6, <1>7, <1>8

\* The inputs that the code makes.
LEMMA DecoderInputsAre ==
  ASSUME NEW n PROVE DecoderInputs(Row(n)) = DecodeIns(job.scored, n, Grid)
BY FeaturesAre DEF DecoderInputs, DecodeIns

\* Where the mask decoder starts.
LEMMA DecodingIs ==
  ASSUME JobFits(job, Grid), NEW n, n \in Pos
  PROVE  Decoding(Level(Grid, 1), Row(n)) = Decodes(job.scored, n, Grid)
<1> DEFINE g == Grid
           p == g * g
           f == Level(g, 1)
           m == OwnTokens(job.scored) + n
<1>1. g \in Pos /\ p \in Pos /\ job.scored \in BOOLEAN /\ g * 1 = g
  BY JobFacts DEF Pos
<1>2. f = T4(D, g, g, 1) /\ f.ne[2] = g /\ Feature(2) = f
  BY <1>1, ExtentOf, FeaturesAre DEF Level
<1>3. DecStart(f, f, Row(n), job.scored) = [queries |-> T4(D, m, 1, 1), keys |-> T4(D, g * g, 1, 1)]
  BY <1>1, <1>2, DecStartOf DEF Row
<1>4. Reshape(f, D, p, 1, 1) = Row(p)
  <2>1. D * g * g * 1 = D * p * 1 * 1
    <3> HIDE DEF g
    <3> QED BY <1>1, HeadSizes DEF Pos
  <2> HIDE DEF p
  <2> QED BY <1>1, <1>2, <2>1, ReshapeOf, PosInt, HeadNumbers, Small DEF Row
<1> DEFINE q == Row(m)
           k == Row(p)
           start == DecStart(f, f, Row(n), job.scored)
<1>5. start = [queries |-> q, keys |-> k]
  BY <1>3 DEF Row
<1>6. Decoding(f, Row(n)) = [queries |-> start.queries, keys |-> start.keys, tokens |-> start.queries,
                             key_pe |-> Reshape(f, D, p, 1, 1)]
  BY <1>2 DEF Decoding, DecodingFrom
<1>7. Decodes(job.scored, n, g) = [queries |-> q, keys |-> k, tokens |-> q, key_pe |-> k]
  BY DEF Decodes
<1> HIDE DEF start, q, k, f
<1> QED BY <1>4, <1>5, <1>6, <1>7 DEF k, f

\* Its tensors exist.
LEMMA DecodesIs ==
  ASSUME JobFits(job, Grid), NEW n, n \in Pos
  PROVE  /\ OwnTokens(job.scored) + n \in Pos /\ job.scored \in BOOLEAN /\ Grid * Grid \in Pos
         /\ Intact(Decodes(job.scored, n, Grid))
<1> DEFINE m == OwnTokens(job.scored) + n
           p == Grid * Grid
           q == Row(m)
           k == Row(p)
<1>1. m \in Pos /\ p \in Pos /\ job.scored \in BOOLEAN
  <2>1. job.scored \in BOOLEAN /\ p \in Pos
    BY JobFacts
  <2>2. OwnTokens(job.scored) \in Pos
    BY <2>1, OwnTokensAre
  <2> QED BY <2>1, <2>2 DEF Pos
<1> HIDE DEF m, p
<1>2. Exists(q) /\ Exists(k)
  BY <1>1, RowIsThere
<1>3. Decodes(job.scored, n, Grid) = [queries |-> q, keys |-> k, tokens |-> q, key_pe |-> k]
  BY DEF Decodes, m, p
<1> HIDE DEF q, k
<1>4. Intact([queries |-> q, keys |-> k, tokens |-> q, key_pe |-> k])
  BY <1>2, IntactDecodes
<1> QED BY <1>1, <1>3, <1>4 DEF m, p

\* A layer keeps the extents.
DecodesShaped(r, q, k) == r = [queries |-> q, keys |-> k, tokens |-> q, key_pe |-> k]

\* A layer that keeps tokens and places keeps all.
LEMMA DecodesShape ==
  ASSUME NEW r, NEW q, NEW k, DecodesShaped(r, q, k)
  PROVE  /\ r.queries = q /\ r.keys = k /\ r.tokens = q /\ r.key_pe = k
         /\ [r EXCEPT !.queries = q, !.keys = k] = r
<1> DEFINE s == [queries |-> q, keys |-> k, tokens |-> q, key_pe |-> k]
<1>1. s.queries = q /\ s.keys = k /\ s.tokens = q /\ s.key_pe = k
  OBVIOUS
<1>2. [s EXCEPT !.queries = s.queries, !.keys = s.keys] = s
  OBVIOUS
<1> HIDE DEF s
<1>3. r = s
  BY DEF DecodesShaped, s
<1> QED BY <1>1, <1>2, <1>3

\* So does a two-way block.
LEMMA TwoWayIs ==
  ASSUME JobFits(job, Grid), NEW n, n \in Pos, t = Decodes(job.scored, n, Grid)
  PROVE  TwoWay = t
<1> DEFINE m == OwnTokens(job.scored) + n
           p == Grid * Grid
           first == layer = 0
           r == TwoWayForward(t, t.tokens, t.key_pe, TwoWayBlock, first)
<1>1. m \in Pos /\ p \in Pos /\ first \in BOOLEAN
  BY DecodesIs
<1>2. DecodesShaped(t, Row(m), Row(p))
  BY DEF Decodes, DecodesShaped
<1> HIDE DEF m, p, first
<1>3. /\ t.queries = T4(D, m, 1, 1) /\ t.keys = T4(D, p, 1, 1) /\ t.tokens = T4(D, m, 1, 1) /\
         t.key_pe = T4(D, p, 1, 1)
  BY <1>2, DecodesShape DEF Row
<1>4. r = [queries |-> T4(D, m, 1, 1), keys |-> T4(D, p, 1, 1)]
  BY <1>1, <1>3, TwoWayForwardOf
<1>5. r.queries = Row(m) /\ r.keys = Row(p)
  <2> HIDE DEF r
  <2> QED BY <1>4 DEF Row
<1>6. TwoWay = [t EXCEPT !.queries = r.queries, !.keys = r.keys]
  BY DEF TwoWay, DecoderLayerTo, first
<1> HIDE DEF r
<1> QED BY <1>2, <1>5, <1>6, DecodesShape

\* What comes out of it.
LEMMA DecodedIs ==
  ASSUME JobFits(job, Grid), NEW n, n \in Pos, t = Decodes(job.scored, n, Grid)
  PROVE  DecodedMasks = [masks |-> T4((Grid * 4) * (Grid * 4), 4, 1, 1), iou_pred |-> T4(4, 1, 1, 1),
                         obj_score |-> T4(1, 1, 1, 1), sam_token |-> T4(D, 1, 1, 1)]
<1> DEFINE g == Grid
           g2 == g * 2
           g4 == g * 4
           m == OwnTokens(job.scored) + n
           p == g * g
<1>1. DecodesShaped(t, Row(m), Row(p))
  BY DEF Decodes, DecodesShaped
<1>2. /\ t.queries = T4(D, m, 1, 1) /\ t.keys = T4(D, p, 1, 1) /\ t.tokens = T4(D, m, 1, 1) /\
         t.key_pe = T4(D, p, 1, 1)
  <2> HIDE DEF m, p
  <2> QED BY <1>1, DecodesShape DEF Row
<1>3. /\ g \in Pos /\ g2 \in Pos /\ g4 \in Pos /\ Times(g2, g, 2) /\ Times(g4, g2, 2) /\ job.scored \in BOOLEAN
  <2>1. g \in Pos /\ job.scored \in BOOLEAN
    BY JobFacts
  <2> HIDE DEF g
  <2> QED BY <2>1, TwiceAndAgain
<1>4. Feature(0) = T4(D, g4, g4, 1) /\ Feature(1) = T4(D, g2, g2, 1)
  BY FeaturesAre DEF Level
<1> HIDE DEF g, g2, g4
<1>5. DecResult(t, t.tokens, t.key_pe, T4(D, g4, g4, 1), T4(D, g2, g2, 1), job.scored, MaskDecoder)
        = [masks |-> T4(g4 * g4, 4, 1, 1), iou_pred |-> T4(4, 1, 1, 1), obj_score |-> T4(1, 1, 1, 1),
           sam_token |-> T4(D, 1, 1, 1)]
  BY <1>2, <1>3, DecResultOf
<1> QED BY <1>4, <1>5 DEF DecodedMasks, g4, g

\* What is read of it.
LEMMA DecodedFits ==
  ASSUME JobFits(job, Grid), FeatsFit(feats, Grid), NEW n, n \in Pos, t = Decodes(job.scored, n, Grid)
  PROVE  Intact(DecodedMasks) /\ Sized(DecoderReads(DecodedMasks))
<1> DEFINE side == Grid * 4
           r == DecodedMasks
           a == T4(side * side, 4, 1, 1)
           b == T4(4, 1, 1, 1)
           c == T4(1, 1, 1, 1)
           d == T4(D, 1, 1, 1)
<1>1. r = [masks |-> a, iou_pred |-> b, obj_score |-> c, sam_token |-> d]
  BY DecodedIs
<1>2. side \in Pos /\ side * side \in Pos
  BY JobFacts, PosTimes, Small
<1> HIDE DEF side
<1>3. Exists(a) /\ Exists(b) /\ Exists(c) /\ Exists(d)
  BY <1>2, IsThere, HeadNumbers, Small
<1>4. Elements(a) = side * side * 4 /\ Elements(b) = 4 /\ Elements(c) = 1 /\ Elements(d) = D
  <2>1. side * side \in Int /\ (side * side) * 4 * 1 * 1 = side * side * 4
    BY <1>2 DEF Pos
  <2> QED BY <2>1, ElementsOf, HeadSizes
<1> HIDE DEF r, a, b, c, d
<1>5. r.masks = a /\ r.iou_pred = b /\ r.obj_score = c /\ r.sam_token = d
  BY <1>1
<1>6. Intact(r)
  BY <1>1, <1>3, IntactResult
<1>7. Sized({Read(r.masks, side * side * 4), Read(r.iou_pred, 4), Read(r.obj_score, 1), Read(r.sam_token, D)})
  BY <1>4, <1>5 DEF Sized, Read
<1>8. Sized(ReadFeatures({0, 1, 2}))
  <2>1. {0, 1, 2} \subseteq 0 .. 2
    OBVIOUS
  <2> QED BY <2>1, ReadsFit
<1>9. DecoderReads(r) = {Read(r.masks, side * side * 4), Read(r.iou_pred, 4), Read(r.obj_score, 1), Read(r.sam_token, D)}
                          \cup ReadFeatures({0, 1, 2})
  BY DEF DecoderReads, side
<1>10. Sized(DecoderReads(r))
  BY <1>7, <1>8, <1>9, SizedTwo
<1> QED BY <1>6, <1>10 DEF r

-----------------------------------------------------------------------------
\* sam3_segment_pvs keeps the invariant: the start,
LEMMA BeginPvsKeeps == ASSUME IInv, NEW n \in SparseTokens, BeginPvs(n) PROVE IInv'
<1> DEFINE sparse == T3(D, n, 1)
           tensors == Decoding(Feature(2), sparse)
           ins == DecoderInputs(sparse) \o <<In("sam_dec_image_feats", Feature(2))>>
<1>1. Encoded /\ job' = [job EXCEPT !.tokens = n] /\ Start("pvs", tensors, ins)
  BY DEF BeginPvs
<1>2. JobFits(job, Grid) /\ FeatsFit(feats, Grid)
  BY <1>1, EncodedIs
<1>3. n \in Pos /\ n \in Nat
  BY SizesAssumption DEF SizesFit, Pos
<1>4. job' \in JobSet /\ job'.model = job.model /\ job'.size = job.size /\ job'.scored = job.scored /\ job'.tokens = n
  BY <1>1, <1>2, <1>3 DEF JobFits, JobSet
<1>5. sparse = Row(n) /\ Feature(2) = Level(Grid, 1)
  BY RowIs, FeaturesAre
<1>6. tensors = Decodes(job.scored, n, Grid)
  BY <1>2, <1>3, <1>5, DecodingIs
<1>7. ins = DecodeIns(job.scored, n, Grid) \o <<In("sam_dec_image_feats", Level(Grid, 1))>>
  BY <1>5, DecoderInputsAre
<1> HIDE DEF tensors, ins
<1>8. Intact(tensors)
  BY <1>2, <1>3, <1>6, DecodesIs
<1>9. Builds("pvs", job', Grid, 0, tensors, ins)
  <2>1. 0 \in 0 .. 2
    OBVIOUS
  <2>2. PvsBuilds(job', Grid, 0, tensors, ins)
    BY <1>3, <1>4, <1>6, <1>7, <2>1 DEF PvsBuilds
  <2> QED BY <2>2 DEF Builds
<1>10. "pvs" \in Graphs \ {"none"} /\ "pvs" \notin {"latents", "windows"}
  BY DEF Graphs
<1> QED BY <1>1, <1>2, <1>4, <1>8, <1>9, <1>10, StartKeeps

\* each layer,
LEMMA PvsLayerKeeps == ASSUME IInv, PvsLayer PROVE IInv'
<1>1. /\ graph = "pvs" /\ ~ran /\ layer < 2 /\ layer' = layer + 1
      /\ UNCHANGED <<job, graph, ran, sent, read, feats>> /\ inputs' = inputs /\ t' = TwoWay
  BY MemorySizes DEF PvsLayer, Layer
<1>2. PvsBuilds(job, Grid, layer, t, inputs) /\ JobFits(job, Grid)
  BY <1>1, BuiltIs DEF Builds
<1>3. t' = t
  BY <1>1, <1>2, TwoWayIs DEF PvsBuilds
<1>4. layer + 1 \in 0 .. 2 /\ layer' \in 0 .. 48
  BY <1>1, <1>2 DEF PvsBuilds
<1>5. Builds(graph, job, Grid, layer', t', inputs')
  <2>1. PvsBuilds(job, Grid, layer', t', inputs')
    BY <1>1, <1>2, <1>3, <1>4 DEF PvsBuilds
  <2> QED BY <1>1, <2>1 DEF Builds
<1>6. Intact(t')
  BY <1>3 DEF IInv
<1> QED BY <1>1, <1>4, <1>5, <1>6, LayerKeeps

\* and the run.
LEMMA RunPvsKeeps == ASSUME IInv, RunPvs PROVE IInv'
<1>1. /\ graph = "pvs" /\ ~ran /\ ran' = TRUE /\ t' = DecodedMasks
      /\ sent' = DecoderSends(job.tokens) \cup {Send("sam_dec_image_feats", D * Places)}
      /\ read' = DecoderReads(DecodedMasks)
      /\ UNCHANGED <<job, graph, layer, inputs>> /\ feats' = feats
  BY DEF RunPvs, PvsRan, Run
<1>2. PvsBuilds(job, Grid, layer, t, inputs) /\ JobFits(job, Grid) /\ FeatsFit(feats, Grid)
  BY <1>1, BuiltIs DEF Builds, Encoders
<1>3. job.tokens \in Pos /\ t = Decodes(job.scored, job.tokens, Grid)
      /\ inputs = DecodeIns(job.scored, job.tokens, Grid) \o <<In("sam_dec_image_feats", Level(Grid, 1))>>
  BY <1>2 DEF PvsBuilds
<1>4. Intact(t') /\ Sized(read')
  BY <1>1, <1>2, <1>3, DecodedFits
<1>5. Transferred(graph, TRUE, inputs, sent', read')
  <2> DEFINE p == DecodeIns(job.scored, job.tokens, Grid)
             l == Level(Grid, 1)
             q == <<In("sam_dec_image_feats", l)>>
             snt == sent'
  <2>1. Listed(p, snt, DecodeNames)
    <3>1. DecoderSends(job.tokens) \subseteq snt
      BY <1>1
    <3> HIDE DEF snt
    <3> QED BY <1>2, <1>3, <3>1, DecoderListed
  <2>2. Listed(q, snt, {"sam_dec_image_feats"})
    <3>1. Elements(l) = D * Places
      BY <1>2, JobFacts, LevelSize DEF Places
    <3>2. Send("sam_dec_image_feats", Elements(l)) \in snt
      BY <1>1, <3>1
    <3> HIDE DEF snt, l
    <3> QED BY <3>2, ListedOne
  <2>3. DecodeNames \cap {"sam_dec_image_feats"} = {}
    BY DEF DecodeNames
  <2>4. inputs = p \o q
    BY <1>3
  <2> HIDE DEF p, q, snt
  <2>5. Listed(inputs, snt, DecodeNames \cup {"sam_dec_image_feats"})
    BY <2>1, <2>2, <2>3, <2>4, ListedConcat
  <2>6. Told(inputs, snt) /\ \E n \in Nat : DOMAIN inputs = 1 .. n
    BY <2>5, ListedTold
  <2> QED BY <1>4, <2>6, TransferredIs DEF snt
<1>6. graph # "none"
  BY <1>1
<1> QED BY <1>1, <1>2, <1>4, <1>5, <1>6, RunKeeps

-----------------------------------------------------------------------------
(* Memories and the perceiver. *)

\* Records of tensors that exist: the perceiver's,
LEMMA IntactFeats ==
  ASSUME NEW a1, NEW a2, Exists(a1), Exists(a2)
  PROVE  Intact([x |-> a1, feats |-> a2])
<1> DEFINE r == [x |-> a1, feats |-> a2]
<1>1. DOMAIN r = {"x", "feats"} /\ r.x = a1 /\ r.feats = a2
  OBVIOUS
<1> HIDE DEF r
<1>2. \A name \in DOMAIN r \ {"stages"} : Exists(r[name])
  BY <1>1
<1> QED BY <1>2 DEF Intact, r

\* and the memory attention's.
LEMMA IntactRopes ==
  ASSUME NEW a1, NEW a2, NEW a3, NEW a4, Exists(a1), Exists(a2), Exists(a3), Exists(a4)
  PROVE  Intact([x |-> a1, prompt |-> a2, rope_q |-> a3, rope_k |-> a4])
<1> DEFINE r == [x |-> a1, prompt |-> a2, rope_q |-> a3, rope_k |-> a4]
<1>1. DOMAIN r = {"x", "prompt", "rope_q", "rope_k"} /\ r.x = a1 /\ r.prompt = a2 /\ r.rope_q = a3 /\ r.rope_k = a4
  OBVIOUS
<1> HIDE DEF r
<1>2. \A name \in DOMAIN r \ {"stages"} : Exists(r[name])
  BY <1>1
<1> QED BY <1>2 DEF Intact, r

\* The mask after so many halvings exists.
LEMMA MemoryIsThere ==
  ASSUME NEW g, g \in Pos, NEW l, l \in 0 .. 4
  PROVE  Exists(T4(Widths[l + 1] * g, Widths[l + 1] * g, Channels[l + 1], 1))
<1>1. Widths[l + 1] \in Pos /\ Channels[l + 1] \in Pos
  <2>1. l = 0 \/ l = 1 \/ l = 2 \/ l = 3 \/ l = 4
    OBVIOUS
  <2> QED BY <2>1 DEF Widths, Channels, Pos
<1> QED BY <1>1, PosTimes, IsThere, Small

\* sam3_encode_memory keeps the invariant: the start,
LEMMA BeginMemoryKeeps == ASSUME IInv, BeginMemory PROVE IInv'
<1> DEFINE mask == T4(16 * Grid, 16 * Grid, 1, 1)
           tensors == [x |-> mask]
           ins == <<In("mem_mask", mask), In("mem_pix_feat", Feature(2))>>
<1>1. Encoded /\ graph = "pvs" /\ UNCHANGED job /\ Start("memory", tensors, ins)
  BY DEF BeginMemory
<1>2. JobFits(job, Grid) /\ FeatsFit(feats, Grid)
  BY <1>1, EncodedIs
<1>3. job' \in JobSet /\ job'.model = job.model /\ job'.size = job.size
  BY <1>1, SameJob
<1>4. mask = T4(Widths[0 + 1] * Grid, Widths[0 + 1] * Grid, Channels[0 + 1], 1)
  BY DEF Widths, Channels
<1>5. Intact(tensors)
  <2>1. Grid \in Pos /\ 0 \in 0 .. 4
    BY <1>2, JobFacts
  <2>2. Exists(mask)
    BY <1>4, <2>1, MemoryIsThere
  <2> HIDE DEF mask
  <2> QED BY <2>2, IntactOne
<1>6. Builds("memory", job', Grid, 0, tensors, ins)
  <2>1. ins = <<In("mem_mask", T4(16 * Grid, 16 * Grid, 1, 1)), In("mem_pix_feat", Level(Grid, 1))>>
    BY FeaturesAre
  <2>2. tensors = [x |-> T4(Widths[0 + 1] * Grid, Widths[0 + 1] * Grid, Channels[0 + 1], 1)]
    BY <1>4
  <2>3. 0 \in 0 .. 4
    OBVIOUS
  <2> HIDE DEF tensors, ins
  <2>4. MemoryBuilds(Grid, 0, tensors, ins)
    BY <2>1, <2>2, <2>3 DEF MemoryBuilds
  <2> QED BY <2>4 DEF Builds
<1>7. "memory" \in Graphs \ {"none"} /\ "memory" \notin {"latents", "windows"}
  BY DEF Graphs
<1> HIDE DEF tensors, ins
<1> QED BY <1>1, <1>2, <1>3, <1>5, <1>6, <1>7, StartKeeps

\* each layer,
LEMMA MemoryLayerKeeps == ASSUME IInv, MemoryLayer PROVE IInv'
<1>1. /\ graph = "memory" /\ ~ran /\ layer < 4 /\ layer' = layer + 1
      /\ UNCHANGED <<job, graph, ran, sent, read, feats>> /\ inputs' = inputs
      /\ t' = [x |-> MaskHalved(t.x, layer + 1, MemoryEncoder)]
  BY DEF MemoryLayer, Layer
<1>2. MemoryBuilds(Grid, layer, t, inputs) /\ JobFits(job, Grid)
  BY <1>1, BuiltIs DEF Builds
<1>3. layer \in 0 .. 3 /\ layer + 1 \in 0 .. 4 /\ layer' \in 0 .. 48 /\ Grid \in Pos /\ (layer + 1) + 1 = layer + 2
  BY <1>1, <1>2, JobFacts DEF MemoryBuilds
<1> DEFINE y == T4(Widths[layer + 2] * Grid, Widths[layer + 2] * Grid, Channels[layer + 2], 1)
<1>4. MaskHalved(t.x, layer + 1, MemoryEncoder) = y
  BY <1>2, <1>3, MaskHalvedOf DEF MemoryBuilds
<1>5. y = T4(Widths[layer' + 1] * Grid, Widths[layer' + 1] * Grid, Channels[layer' + 1], 1)
  BY <1>1, <1>3
<1> HIDE DEF y
<1>6. t' = [x |-> y]
  BY <1>1, <1>4
<1>7. MemoryBuilds(Grid, layer', t', inputs')
  BY <1>1, <1>2, <1>3, <1>5, <1>6 DEF MemoryBuilds
<1>8. Builds(graph, job, Grid, layer', t', inputs')
  BY <1>1, <1>7 DEF Builds
<1>9. Intact(t')
  <2>1. Exists(y)
    BY <1>1, <1>3, <1>5, MemoryIsThere
  <2> QED BY <1>6, <2>1, IntactOne
<1> QED BY <1>1, <1>3, <1>8, <1>9, LayerKeeps

\* and the run.
LEMMA RunMemoryKeeps == ASSUME IInv, RunMemory PROVE IInv'
<1> DEFINE out == MemoryOf(t.x, Feature(2), MemoryEncoder)
           g == Grid
<1>1. /\ graph = "memory" /\ ~ran /\ layer = 4 /\ ran' = TRUE /\ t' = [x |-> out]
      /\ sent' = {Send("mem_mask", (16 * g) * (16 * g)), Send("mem_pix_feat", D * Places)}
      /\ read' = {Read(out, MD * Places)} \cup ReadFeatures({2})
      /\ UNCHANGED <<job, graph, layer, inputs>> /\ feats' = feats
  BY DEF RunMemory, MemoryRan, Run
<1>2. MemoryBuilds(g, layer, t, inputs) /\ JobFits(job, Grid) /\ FeatsFit(feats, Grid)
  BY <1>1, BuiltIs DEF Builds, Encoders
<1>3. g \in Pos /\ Places = g * g /\ Feature(2) = Level(g, 1) /\ g * 1 = g
  BY <1>2, JobFacts, FeaturesAre DEF Places, Pos
<1>4. t.x = T4(g, g, D, 1)
  <2> HIDE DEF g
  <2>1. t.x = T4(Widths[5] * g, Widths[5] * g, Channels[5], 1)
    BY <1>1, <1>2 DEF MemoryBuilds
  <2>2. Widths[5] * g = g /\ Channels[5] = D
    BY <1>3, HeadSizes DEF Widths, Channels, Pos
  <2> QED BY <2>1, <2>2
<1> HIDE DEF g
<1>5. out = T4(MD, g, g, 1)
  BY <1>3, <1>4, MemoryOfOf DEF Level
<1> HIDE DEF out
<1>6. Intact(t')
  BY <1>1, <1>3, <1>5, IsThere, MemoryNumbers, Small, IntactOne
<1>7. Transferred(graph, TRUE, inputs, sent', read')
  <2> DEFINE mask == T4(16 * g, 16 * g, 1, 1)
             l == Level(g, 1)
             snt == sent'
  <2>1. Elements(mask) = (16 * g) * (16 * g) /\ Elements(l) = D * Places /\ Elements(out) = MD * Places
    <3>1. g \in Int /\ 16 * g \in Int
      BY <1>3 DEF Pos
    <3>2. (16 * g) * (16 * g) * 1 * 1 = (16 * g) * (16 * g) /\ 64 * g * g * 1 = 64 * (g * g)
      BY <3>1
    <3>3. Elements(mask) = (16 * g) * (16 * g)
      BY <3>1, <3>2, ElementsOf
    <3>4. Elements(l) = D * (g * g)
      BY <1>3, LevelSize
    <3>5. Elements(out) = 64 * (g * g)
      BY <1>5, <3>1, <3>2, ElementsOf, MemorySizes
    <3> QED BY <1>3, <3>3, <3>4, <3>5, MemorySizes
  <2>2. Send("mem_mask", Elements(mask)) \in snt /\ Send("mem_pix_feat", Elements(l)) \in snt
    BY <1>1, <2>1
  <2>3. inputs = <<In("mem_mask", mask), In("mem_pix_feat", l)>>
    BY <1>2 DEF MemoryBuilds
  <2> HIDE DEF mask, l, snt
  <2>4. Told(inputs, snt) /\ \E k \in Nat : DOMAIN inputs = 1 .. k
    BY <2>2, <2>3, ToldTwo
  <2>5. Sized({Read(out, MD * Places)})
    BY <2>1, SizedOne
  <2>6. Sized(ReadFeatures({2}))
    <3>1. {2} \subseteq 0 .. 2
      OBVIOUS
    <3> QED BY <1>2, <3>1, ReadsFit
  <2>7. Sized(read')
    BY <1>1, <2>5, <2>6, SizedTwo
  <2> QED BY <2>4, <2>7, TransferredIs DEF snt
<1>8. graph # "none"
  BY <1>1
<1> QED BY <1>1, <1>2, <1>6, <1>7, <1>8, RunKeeps

-----------------------------------------------------------------------------
\* edgetam_perceiver_forward keeps the invariant: the start on the latents of the whole
\* image,
LEMMA BeginLatentsKeeps == ASSUME IInv, BeginLatents PROVE IInv'
<1> DEFINE latents == T3(MD, NumLatents, 1)
           x == T3(MD, Places, 1)
           tensors == [x |-> latents, feats |-> x]
           ins == <<In("lat_1d_in", latents), In("feat_1d_in", x), In("pos_1d_in", x)>>
<1>1. Encoded /\ job.model = "edgetam" /\ PerceiverTakes(Grid) /\ UNCHANGED job /\ Start("latents", tensors, ins)
  BY DEF BeginLatents, HasPerceiver
<1>2. JobFits(job, Grid) /\ FeatsFit(feats, Grid)
  BY <1>1, EncodedIs
<1>3. job' \in JobSet /\ job'.model = job.model /\ job'.size = job.size
  BY <1>1, SameJob
<1>4. latents = T4(64, 256, 1, 1) /\ x = T4(64, Grid * Grid, 1, 1)
  BY T3Is, MemorySizes DEF Places
<1>5. Exists(latents) /\ Exists(x)
  BY <1>2, <1>4, JobFacts, IsThere, Numbers, Small
<1> HIDE DEF latents, x
<1>6. Intact(tensors)
  BY <1>5, IntactFeats
<1>7. Builds("latents", job', Grid, 0, tensors, ins)
  <2>1. 0 \in 0 .. 2
    OBVIOUS
  <2>2. LatentsBuilds(Grid, 0, tensors, ins)
    BY <1>4, <2>1 DEF LatentsBuilds
  <2> HIDE DEF tensors, ins
  <2> QED BY <2>2 DEF Builds
<1>8. "latents" \in Graphs \ {"none"}
  BY DEF Graphs
<1> HIDE DEF tensors, ins
<1> QED BY <1>1, <1>2, <1>3, <1>6, <1>7, <1>8, StartKeeps

\* the layers,
LEMMA LatentsLayerKeeps == ASSUME IInv, LatentsLayer PROVE IInv'
<1>1. /\ graph = "latents" /\ ~ran /\ layer < 2 /\ layer' = layer + 1
      /\ UNCHANGED <<job, graph, ran, sent, read, feats>> /\ inputs' = inputs
      /\ t' = [t EXCEPT !.x = PerceiverForward(@, t.feats, t.feats, Perceiver)]
  BY MemorySizes DEF LatentsLayer, Layer
<1>2. LatentsBuilds(Grid, layer, t, inputs) /\ JobFits(job, Grid)
  BY <1>1, BuiltIs DEF Builds
<1>3. PerceiverForward(t.x, t.feats, t.feats, Perceiver) = t.x
  <2> DEFINE p == Grid * Grid
             n == 256
             b == 1
  <2>1. t.x = T4(64, n, b, 1) /\ t.feats = T4(64, p, b, 1)
    BY <1>2 DEF LatentsBuilds
  <2>2. n \in Pos /\ p \in Pos /\ b \in Pos
    BY <1>2, JobFacts, Numbers, Small
  <2> HIDE DEF n, p, b
  <2>3. PositionsFit(t.feats, p, b)
    BY <2>1 DEF PositionsFit
  <2> QED BY <2>1, <2>2, <2>3, PerceiverForwardOf
<1>4. t' = t
  BY <1>1, <1>2, <1>3 DEF LatentsBuilds
<1>5. layer + 1 \in 0 .. 2 /\ layer' \in 0 .. 48
  BY <1>1, <1>2 DEF LatentsBuilds
<1>6. Builds(graph, job, Grid, layer', t', inputs')
  <2>1. LatentsBuilds(Grid, layer', t', inputs')
    BY <1>1, <1>2, <1>4, <1>5 DEF LatentsBuilds
  <2> QED BY <1>1, <2>1 DEF Builds
<1>7. Intact(t')
  BY <1>4 DEF IInv
<1> QED BY <1>1, <1>5, <1>6, <1>7, LayerKeeps

\* and the run;
LEMMA RunLatentsKeeps == ASSUME IInv, RunLatents PROVE IInv'
<1> DEFINE out == LayerNorm(t.x, Perceiver.norm)
           a == T4(64, 256, 1, 1)
           b == T4(64, Grid * Grid, 1, 1)
           snt == sent'
<1>1. /\ graph = "latents" /\ ~ran /\ ran' = TRUE /\ t' = [x |-> out]
      /\ sent' = {Send("lat_1d_in", MD * NumLatents), Send("feat_1d_in", MD * Places), Send("pos_1d_in", MD * Places)}
      /\ read' = {Read(out, MD * NumLatents)}
      /\ UNCHANGED <<job, graph, layer, inputs>> /\ feats' = feats
  BY DEF RunLatents, Run
<1>2. LatentsBuilds(Grid, layer, t, inputs) /\ JobFits(job, Grid) /\ FeatsFit(feats, Grid)
  BY <1>1, BuiltIs DEF Builds, Encoders
<1>3. t.x = a /\ inputs = <<In("lat_1d_in", a), In("feat_1d_in", b), In("pos_1d_in", b)>>
  BY <1>2 DEF LatentsBuilds
<1>4. out = a
  BY <1>3, LayerNormOf, PerceiverIs, Numbers, Small
<1>5. Exists(a)
  BY IsThere, Numbers, Small
<1>6. Elements(a) = MD * NumLatents /\ Elements(b) = MD * Places
  <2> DEFINE p == Grid * Grid
  <2>1. p \in Int
    BY <1>2, JobFacts, PosInt
  <2> HIDE DEF p
  <2>2. Elements(T4(64, p, 1, 1)) = 64 * p
    <3>1. 64 * p * 1 * 1 = 64 * p
      BY <2>1
    <3> QED BY <2>1, <3>1, ElementsOf
  <2>3. Elements(a) = 64 * 256
    BY ElementsOf
  <2> QED BY <2>2, <2>3, MemorySizes DEF p, Places
<1> HIDE DEF a, b, out
<1>7. Intact(t')
  BY <1>1, <1>4, <1>5, IntactOne
<1>8. Transferred(graph, TRUE, inputs, sent', read')
  <2>1. Send("lat_1d_in", Elements(a)) \in snt /\ Send("feat_1d_in", Elements(b)) \in snt /\
        Send("pos_1d_in", Elements(b)) \in snt
    BY <1>1, <1>6
  <2> HIDE DEF snt
  <2>2. Told(inputs, snt) /\ \E k \in Nat : DOMAIN inputs = 1 .. k
    BY <1>3, <2>1, ToldThree
  <2>3. Sized(read')
    BY <1>1, <1>4, <1>6, SizedOne
  <2> QED BY <2>2, <2>3, TransferredIs DEF snt
<1>9. graph # "none"
  BY <1>1
<1> QED BY <1>1, <1>2, <1>7, <1>8, <1>9, RunKeeps

-----------------------------------------------------------------------------
\* The windows have places.
LEMMA WindowsFit ==
  ASSUME NEW g, g \in Pos, PerceiverTakes(g)
  PROVE  WindowSize(g) \in Pos /\ WindowSize(g) * WindowSize(g) \in Pos
<1>1. WindowSize(g) >= 1
  BY DEF PerceiverTakes
<1>2. WindowSize(g) \in Int
  BY DEF WindowSize, WindowsPerSide, Pos
<1>3. WindowSize(g) \in Pos
  BY <1>1, <1>2 DEF Pos
<1> QED BY <1>3, PosTimes

\* the start on the latents of the windows,
LEMMA BeginWindowsKeeps == ASSUME IInv, BeginWindows PROVE IInv'
<1> DEFINE ws == WindowSize(Grid)
           latents == T3(MD, 1, NumLatents)
           x == T3(MD, ws * ws, NumLatents)
           tensors == [x |-> latents, feats |-> x]
           ins == <<In("feat_2d_in", x), In("lat_2d_in", latents)>>
<1>1. Encoded /\ graph = "latents" /\ UNCHANGED job /\ Start("windows", tensors, ins)
  BY DEF BeginWindows
<1>2. JobFits(job, Grid) /\ FeatsFit(feats, Grid) /\ job.model = "edgetam" /\ PerceiverTakes(Grid)
  BY <1>1, EncodedIs DEF IInv, Stands
<1>3. job' \in JobSet /\ job'.model = job.model /\ job'.size = job.size
  BY <1>1, SameJob
<1>4. latents = T4(64, 1, 256, 1) /\ x = T4(64, ws * ws, 256, 1)
  BY T3Is, MemorySizes
<1>5. Exists(latents) /\ Exists(x)
  <2>1. ws * ws \in Pos
    BY <1>2, JobFacts, WindowsFit
  <2> QED BY <1>4, <2>1, IsThere, Numbers, Small
<1> HIDE DEF latents, x
<1>6. Intact(tensors)
  BY <1>5, IntactFeats
<1>7. Builds("windows", job', Grid, 0, tensors, ins)
  <2>1. 0 \in 0 .. 2
    OBVIOUS
  <2>2. WindowsBuilds(Grid, 0, tensors, ins)
    BY <1>4, <2>1 DEF WindowsBuilds
  <2> HIDE DEF tensors, ins
  <2> QED BY <2>2 DEF Builds
<1>8. "windows" \in Graphs \ {"none"}
  BY DEF Graphs
<1> HIDE DEF tensors, ins
<1> QED BY <1>1, <1>2, <1>3, <1>6, <1>7, <1>8, StartKeeps

\* the layers,
LEMMA WindowsLayerKeeps == ASSUME IInv, WindowsLayer PROVE IInv'
<1>1. /\ graph = "windows" /\ ~ran /\ layer < 2 /\ layer' = layer + 1
      /\ UNCHANGED <<job, graph, ran, sent, read, feats>> /\ inputs' = inputs
      /\ t' = [t EXCEPT !.x = PerceiverForward(@, t.feats, NoMask, Perceiver)]
  BY MemorySizes DEF WindowsLayer, Layer
<1>2. WindowsBuilds(Grid, layer, t, inputs) /\ JobFits(job, Grid) /\ PerceiverTakes(Grid)
  BY <1>1, BuiltIs DEF Builds
<1>3. PerceiverForward(t.x, t.feats, NoMask, Perceiver) = t.x
  <2> DEFINE p == WindowSize(Grid) * WindowSize(Grid)
             n == 1
             b == 256
  <2>1. t.x = T4(64, n, b, 1) /\ t.feats = T4(64, p, b, 1)
    BY <1>2 DEF WindowsBuilds
  <2>2. n \in Pos /\ p \in Pos /\ b \in Pos
    BY <1>2, JobFacts, WindowsFit, Numbers, Small
  <2> HIDE DEF n, p, b
  <2>3. PositionsFit(NoMask, p, b)
    BY DEF PositionsFit
  <2> QED BY <2>1, <2>2, <2>3, PerceiverForwardOf
<1>4. t' = t
  BY <1>1, <1>2, <1>3 DEF WindowsBuilds
<1>5. layer + 1 \in 0 .. 2 /\ layer' \in 0 .. 48
  BY <1>1, <1>2 DEF WindowsBuilds
<1>6. Builds(graph, job, Grid, layer', t', inputs')
  <2>1. WindowsBuilds(Grid, layer', t', inputs')
    BY <1>1, <1>2, <1>4, <1>5 DEF WindowsBuilds
  <2> QED BY <1>1, <2>1 DEF Builds
<1>7. Intact(t')
  BY <1>4 DEF IInv
<1> QED BY <1>1, <1>5, <1>6, <1>7, LayerKeeps

\* and the run, which sends windows of exactly the size of the tensor.
LEMMA RunWindowsKeeps == ASSUME IInv, RunWindows PROVE IInv'
<1> DEFINE out == LayerNorm(Reshape(t.x, MD, NumLatents, 1, 1), Perceiver.norm)
           p == WindowSize(Grid) * WindowSize(Grid)
           a == T4(64, 1, 256, 1)
           b == T4(64, p, 256, 1)
           c == T4(64, 256, 1, 1)
           snt == sent'
<1>1. /\ graph = "windows" /\ ~ran /\ ran' = TRUE /\ t' = [x |-> out]
      /\ sent' = {Send("feat_2d_in", WindowsSent), Send("lat_2d_in", MD * NumLatents)}
      /\ read' = {Read(out, MD * NumLatents)}
      /\ UNCHANGED <<job, graph, layer, inputs>> /\ feats' = feats
  BY DEF RunWindows, Run
<1>2. WindowsBuilds(Grid, layer, t, inputs) /\ JobFits(job, Grid) /\ FeatsFit(feats, Grid)
      /\ PerceiverTakes(Grid) /\ job.model = "edgetam"
  BY <1>1, BuiltIs DEF Builds, Encoders
<1>3. t.x = a /\ inputs = <<In("feat_2d_in", b), In("lat_2d_in", a)>>
  BY <1>2 DEF WindowsBuilds
<1>4. out = c /\ Exists(c)
  <2>1. Reshape(a, 64, 256, 1, 1) = c
    <3>1. 64 * 1 * 256 * 1 = 64 * 256 * 1 * 1
      OBVIOUS
    <3> QED BY <3>1, ReshapeOf, Numbers, Small, PosInt
  <2>2. LayerNorm(c, Perceiver.norm) = c
    BY LayerNormOf, PerceiverIs, Numbers, Small
  <2> QED BY <1>3, <2>1, <2>2, MemorySizes, IsThere, Numbers, Small
<1>5. Elements(a) = MD * NumLatents /\ Elements(b) = WindowsSent /\ Elements(c) = MD * NumLatents
  <2>1. p \in Int /\ WindowSize(Grid) \in Int
    BY <1>2, JobFacts, WindowsFit, PosInt
  <2>2. PerceiverWindows(Grid) = 256
    BY <1>2, MemorySizes DEF JobFits, GridFits
  <2>3. Elements(a) = 64 * 256 /\ Elements(c) = 64 * 256
    BY ElementsOf
  <2>4. WindowsSent = 64 * p * 256 * 1
    <3> DEFINE ws == WindowSize(Grid)
    <3>1. WindowsSent = 64 * ws * ws * 256
      BY <2>2, MemorySizes DEF WindowsSent
    <3>2. ws \in Int
      BY <2>1
    <3> HIDE DEF ws
    <3>3. 64 * ws * ws * 256 = 64 * (ws * ws) * 256 * 1
      BY <3>2
    <3> QED BY <3>1, <3>3 DEF ws
  <2> HIDE DEF p
  <2>5. Elements(b) = 64 * p * 256 * 1
    BY <2>1, ElementsOf
  <2> QED BY <2>3, <2>4, <2>5, MemorySizes
<1> HIDE DEF a, b, c, out
<1>6. Intact(t')
  BY <1>1, <1>4, IntactOne
<1>7. Transferred(graph, TRUE, inputs, sent', read')
  <2>1. Send("feat_2d_in", Elements(b)) \in snt /\ Send("lat_2d_in", Elements(a)) \in snt
    BY <1>1, <1>5
  <2> HIDE DEF snt
  <2>2. Told(inputs, snt) /\ \E k \in Nat : DOMAIN inputs = 1 .. k
    BY <1>3, <2>1, ToldTwo
  <2>3. Sized(read')
    BY <1>1, <1>4, <1>5, SizedOne
  <2> QED BY <2>2, <2>3, TransferredIs DEF snt
<1>8. graph # "none"
  BY <1>1
<1> QED BY <1>1, <1>2, <1>6, <1>7, <1>8, RunKeeps

-----------------------------------------------------------------------------
(* Propagation. *)

\* A memory makes some tokens,
LEMMA SlotTokensFit ==
  ASSUME NEW g, NEW b, g \in Pos, b \in BOOLEAN PROVE SlotTokens(g, b) \in Pos
<1>1. g * g \in Pos /\ 2 * 256 \in Pos
  BY PosTimes DEF Pos
<1> QED BY <1>1, MemorySizes DEF SlotTokens

\* and so do the memories and pointers of a job.
LEMMA TokensFit ==
  ASSUME NEW j, NEW g, JobFits(j, g), j.slots \in Pos
  PROVE  Spatial(j, g) \in Pos /\ Pointed(j) \in Nat /\ Spatial(j, g) + Pointed(j) \in Pos
<1>1. Spatial(j, g) \in Pos
  <2>1. g \in Pos
    BY JobFacts
  <2>2. SlotTokens(g, j.model = "edgetam") \in Pos
    BY <2>1, SlotTokensFit
  <2> QED BY <2>2, PosTimes DEF Spatial
<1>2. Pointed(j) \in Nat
  <2>1. j.pointers \in Nat
    BY JobFacts
  <2> QED BY <2>1, MemorySizes DEF Pointed
<1> DEFINE a == Spatial(j, g)
           b == Pointed(j)
<1> HIDE DEF a, b
<1>3. a \in Pos /\ b \in Nat => a + b \in Pos
  BY DEF Pos
<1> QED BY <1>1, <1>2, <1>3 DEF a, b

\* The rotations of so many tokens.
LEMMA RopeFits ==
  ASSUME NEW n, n \in Pos
  PROVE  Exists(T3(2, 128, n)) /\ Elements(T3(2, 128, n)) = D * n
<1>1. n \in Int /\ 2 * 128 * n * 1 = 256 * n
  BY DEF Pos
<1>2. Elements(T4(2, 128, n, 1)) = 256 * n
  BY <1>1, ElementsOf
<1> QED BY <1>2, IsThere, T3Is, Numbers, Small, MemorySizes

\* The names of a propagation's own inputs.
PropagateNames == {"prop_curr", "src_pos", "prompt", "prompt_pos", "rope_q", "rope_k"}

\* What a propagation sends before the decoder's inputs.
LEMMA PropagateListed ==
  ASSUME JobFits(job, Grid), job.slots \in Pos, NEW snt,
         {Send("prop_curr", D * Places), Send("src_pos", D * Places),
          Send("prompt", MD * AllTokens), Send("prompt_pos", MD * AllTokens),
          Send("rope_q", D * Places), Send("rope_k", D * SpatialTokens)} \subseteq snt
  PROVE  Listed(PropagateIns(job, Grid), snt, PropagateNames)
<1> DEFINE p == Grid * Grid
           n == Spatial(job, Grid)
           m == n + Pointed(job)
           x == Row(p)
           prompt == T4(MD, m, 1, 1)
           rq == T3(2, 128, p)
           rk == T3(2, 128, n)
<1>1. p \in Pos /\ n \in Pos /\ m \in Pos
  BY JobFacts, TokensFit
<1>2. Places = p /\ SpatialTokens = n /\ AllTokens = m
  BY DEF Places, SpatialTokens, AllTokens, PointerTokensOf, Spatial, Pointed, HasPerceiver
<1>3. PropagateIns(job, Grid) = <<In("prop_curr", x), In("src_pos", x), In("prompt", prompt),
                                  In("prompt_pos", prompt), In("rope_q", rq), In("rope_k", rk)>>
  BY DEF PropagateIns
<1> HIDE DEF p, n, m
<1>4. Elements(x) = D * p /\ Elements(rq) = D * p /\ Elements(rk) = D * n
  BY <1>1, RowSize, RopeFits
<1>5. Elements(prompt) = MD * m
  <2>1. 64 * m * 1 * 1 = 64 * m /\ m \in Int
    BY <1>1 DEF Pos
  <2> QED BY <2>1, ElementsOf, MemorySizes
<1> HIDE DEF x, prompt, rq, rk
<1>6. /\ Send("prop_curr", Elements(x)) \in snt /\ Send("src_pos", Elements(x)) \in snt
      /\ Send("prompt", Elements(prompt)) \in snt /\ Send("prompt_pos", Elements(prompt)) \in snt
      /\ Send("rope_q", Elements(rq)) \in snt /\ Send("rope_k", Elements(rk)) \in snt
  BY <1>2, <1>4, <1>5
<1>7. Listed(<<In("prop_curr", x), In("src_pos", x), In("prompt", prompt),
               In("prompt_pos", prompt), In("rope_q", rq), In("rope_k", rk)>>, snt,
             {"prop_curr", "src_pos", "prompt", "prompt_pos", "rope_q", "rope_k"})
  BY <1>6, ListedSix
<1> QED BY <1>3, <1>7 DEF PropagateNames

-----------------------------------------------------------------------------
\* sam3_propagate_single keeps the invariant: the start,
LEMMA BeginPropagationKeeps ==
  ASSUME IInv, NEW s \in Slots, NEW p \in Pointers, BeginPropagation(s, p) PROVE IInv'
<1> DEFINE n == s * SlotTokens(Grid, HasPerceiver)
           m == n + p * PointerTokens
           curr == T3(D, Places, 1)
           prompt == T3(MD, m, 1)
           rq == T3(2, D \div 2, Places)
           rk == T3(2, D \div 2, n)
           tensors == [x |-> Add(curr, curr), prompt |-> prompt, rope_q |-> rq, rope_k |-> rk]
           ins == <<In("prop_curr", curr), In("src_pos", curr), In("prompt", prompt),
                    In("prompt_pos", prompt), In("rope_q", rq), In("rope_k", rk)>>
<1>1. Encoded /\ job' = [job EXCEPT !.slots = s, !.pointers = p] /\ Start("propagate", tensors, ins)
  BY DEF BeginPropagation
<1>2. JobFits(job, Grid) /\ FeatsFit(feats, Grid)
  BY <1>1, EncodedIs
<1>3. s \in Pos /\ s \in Nat /\ p \in Nat
  BY SizesAssumption DEF SizesFit, Pos
<1>4. /\ job' \in JobSet /\ job'.model = job.model /\ job'.size = job.size /\ job'.scored = job.scored
      /\ job'.slots = s /\ job'.pointers = p
  BY <1>1, <1>2, <1>3 DEF JobFits, JobSet
<1>5. JobFits(job', Grid)
  BY <1>2, <1>4 DEF JobFits
<1>6. n = Spatial(job', Grid) /\ m = Spatial(job', Grid) + Pointed(job')
  BY <1>4 DEF Spatial, Pointed, HasPerceiver
<1>7. n \in Pos /\ m \in Pos
  <2>1. job'.slots \in Pos
    BY <1>3, <1>4
  <2> QED BY <1>5, <1>6, <2>1, TokensFit
<1>8. Places \in Pos /\ Places = Grid * Grid
  BY <1>2, JobFacts DEF Places
<1> HIDE DEF n, m
<1>9. curr = Row(Grid * Grid) /\ prompt = T4(MD, m, 1, 1) /\ rq = T3(2, 128, Grid * Grid) /\ rk = T3(2, 128, n)
  <2>1. D \div 2 = 128
    BY MemorySizes
  <2> QED BY <1>8, <2>1, RowIs, T3Is
<1>10. Add(curr, curr) = curr
  BY <1>8, T3Is, AddSame, MemoryNumbers, Small
<1>11. Exists(curr) /\ Exists(prompt) /\ Exists(rq) /\ Exists(rk)
  BY <1>7, <1>8, <1>9, RowIsThere, RopeFits, IsThere, MemoryNumbers, Small
<1> HIDE DEF curr, prompt, rq, rk
<1>12. tensors = [x |-> curr, prompt |-> prompt, rope_q |-> rq, rope_k |-> rk]
  BY <1>10
<1>13. Intact(tensors)
  BY <1>11, <1>12, IntactRopes
<1>14. Builds("propagate", job', Grid, 0, tensors, ins)
  <2>1. 0 \in 0 .. 4 /\ job'.slots \in Pos
    BY <1>3, <1>4
  <2>2. ins = PropagateIns(job', Grid)
    BY <1>6, <1>9 DEF PropagateIns
  <2>3. tensors = [x |-> Row(Grid * Grid), prompt |-> T4(MD, Spatial(job', Grid) + Pointed(job'), 1, 1),
                   rope_q |-> T3(2, 128, Grid * Grid), rope_k |-> T3(2, 128, Spatial(job', Grid))]
    BY <1>6, <1>9, <1>12
  <2> HIDE DEF tensors, ins
  <2>4. PropagateBuilds(job', Grid, 0, tensors, ins)
    BY <2>1, <2>2, <2>3 DEF PropagateBuilds
  <2> QED BY <2>4 DEF Builds
<1>15. "propagate" \in Graphs \ {"none"} /\ "propagate" \notin {"latents", "windows"}
  BY DEF Graphs
<1> HIDE DEF tensors, ins
<1> QED BY <1>1, <1>2, <1>4, <1>13, <1>14, <1>15, StartKeeps

\* each layer of the memory attention,
LEMMA PropagateLayerKeeps == ASSUME IInv, PropagateLayer PROVE IInv'
<1>1. /\ graph = "propagate" /\ ~ran /\ layer < 4 /\ layer' = layer + 1
      /\ UNCHANGED <<job, graph, ran, sent, read, feats>> /\ inputs' = inputs
      /\ t' = [t EXCEPT !.x = MemoryAttentionForward(@, t.prompt, t.prompt, t.rope_q, t.rope_k,
                                                     PointerTokensOf, MemoryAttention)]
  BY MemorySizes DEF PropagateLayer, Layer
<1>2. PropagateBuilds(job, Grid, layer, t, inputs) /\ JobFits(job, Grid)
  BY <1>1, BuiltIs DEF Builds
<1>3. MemoryAttentionForward(t.x, t.prompt, t.prompt, t.rope_q, t.rope_k, PointerTokensOf, MemoryAttention) = t.x
  <2> DEFINE p == Grid * Grid
             n == Spatial(job, Grid)
             o == Pointed(job)
  <2>1. /\ t.x = T4(D, p, 1, 1) /\ t.prompt = T4(MD, n + o, 1, 1) /\ t.rope_q = T3(2, 128, p) /\
           t.rope_k = T3(2, 128, n)
    BY <1>2 DEF PropagateBuilds, Row
  <2>2. p \in Pos /\ n \in Pos /\ o \in Nat
    BY <1>2, JobFacts, TokensFit DEF PropagateBuilds
  <2>3. PointerTokensOf = o
    BY DEF PointerTokensOf, Pointed
  <2> HIDE DEF p, n, o
  <2> QED BY <2>1, <2>2, <2>3, MemoryAttentionForwardOf
<1>4. t' = t
  BY <1>1, <1>2, <1>3 DEF PropagateBuilds
<1>5. layer + 1 \in 0 .. 4 /\ layer' \in 0 .. 48
  BY <1>1, <1>2 DEF PropagateBuilds
<1>6. Builds(graph, job, Grid, layer', t', inputs')
  <2>1. PropagateBuilds(job, Grid, layer', t', inputs')
    BY <1>1, <1>2, <1>4, <1>5 DEF PropagateBuilds
  <2> QED BY <1>1, <2>1 DEF Builds
<1>7. Intact(t')
  BY <1>4 DEF IInv
<1> QED BY <1>1, <1>5, <1>6, <1>7, LayerKeeps

\* the mask decoder that takes over,
LEMMA DecodeFrameKeeps == ASSUME IInv, DecodeFrame PROVE IInv'
<1> DEFINE x == LayerNorm(t.x, Norm(D))
           sparse == T3(D, 1, 1)
           y == Reshape(x, D, Grid, Grid, 1)
<1>1. /\ graph = "propagate" /\ ~ran /\ graph' = "frame" /\ layer' = 0 /\ ran' = ran
      /\ t' = Decoding(y, sparse) /\ inputs' = inputs \o DecoderInputs(sparse)
      /\ UNCHANGED <<job, sent, read, feats>>
  BY DEF DecodeFrame
<1>2. PropagateBuilds(job, Grid, layer, t, inputs) /\ JobFits(job, Grid) /\ FeatsFit(feats, Grid)
  BY <1>1, BuiltIs DEF Builds, Encoders
<1>3. y = Level(Grid, 1)
  <2> DEFINE g == Grid
             p == g * g
  <2>1. t.x = T4(D, p, 1, 1)
    BY <1>2 DEF PropagateBuilds, Row
  <2>2. g \in Pos /\ p \in Pos
    BY <1>2, JobFacts
  <2>3. D * p * 1 * 1 = D * g * g * 1 /\ g * 1 = g
    <3> HIDE DEF g
    <3> QED BY <2>2, HeadSizes DEF Pos
  <2> HIDE DEF p, g
  <2>4. x = T4(D, p, 1, 1)
    BY <2>1, <2>2, LayerNormOf, MemoryNumbers, Small
  <2> HIDE DEF x
  <2>5. Reshape(x, D, g, g, 1) = T4(D, g, g, 1)
    BY <2>2, <2>3, <2>4, ReshapeOf, PosInt, MemoryNumbers, Small
  <2> QED BY <2>3, <2>5 DEF Level, g
<1> HIDE DEF y
<1>4. sparse = Row(1) /\ 1 \in Pos
  BY RowIs, Small
<1>5. t' = Decodes(job.scored, 1, Grid)
  BY <1>1, <1>2, <1>3, <1>4, DecodingIs
<1>6. inputs' = PropagateIns(job, Grid) \o DecodeIns(job.scored, 1, Grid)
  BY <1>1, <1>2, <1>4, DecoderInputsAre DEF PropagateBuilds
<1>7. Intact(t')
  BY <1>2, <1>4, <1>5, DecodesIs
<1>8. Grid' = Grid
  BY <1>1 DEF Grid
<1>9. Builds(graph', job', Grid', layer', t', inputs')
  <2>1. 0 \in 0 .. 2 /\ job.slots \in Pos
    BY <1>2 DEF PropagateBuilds
  <2>2. FrameBuilds(job, Grid, 0, t', inputs')
    BY <1>5, <1>6, <2>1 DEF FrameBuilds
  <2> QED BY <1>1, <1>8, <2>2 DEF Builds
<1>10. Stands(graph', ran', feats', job', Grid')
  <2>1. ran' \in BOOLEAN
    BY <1>1 DEF IInv, Stands
  <2> QED BY <1>1, <1>2, <1>8, <2>1 DEF Stands, Graphs
<1>11. Transferred(graph', ran', inputs', sent', read')
  BY <1>1 DEF IInv, Transferred
<1>12. JobFits(job', Grid') /\ layer' \in 0 .. 48 /\ (~ran' => sent' = {} /\ read' = {})
  BY <1>1, <1>2, <1>8 DEF IInv
<1> QED BY <1>7, <1>9, <1>10, <1>11, <1>12 DEF IInv

\* its layers,
LEMMA FrameLayerKeeps == ASSUME IInv, FrameLayer PROVE IInv'
<1>1. /\ graph = "frame" /\ ~ran /\ layer < 2 /\ layer' = layer + 1
      /\ UNCHANGED <<job, graph, ran, sent, read, feats>> /\ inputs' = inputs /\ t' = TwoWay
  BY MemorySizes DEF FrameLayer, Layer
<1>2. FrameBuilds(job, Grid, layer, t, inputs) /\ JobFits(job, Grid)
  BY <1>1, BuiltIs DEF Builds
<1>3. t' = t
  BY <1>1, <1>2, TwoWayIs, Small DEF FrameBuilds
<1>4. layer + 1 \in 0 .. 2 /\ layer' \in 0 .. 48
  BY <1>1, <1>2 DEF FrameBuilds
<1>5. Builds(graph, job, Grid, layer', t', inputs')
  <2>1. FrameBuilds(job, Grid, layer', t', inputs')
    BY <1>1, <1>2, <1>3, <1>4 DEF FrameBuilds
  <2> QED BY <1>1, <2>1 DEF Builds
<1>6. Intact(t')
  BY <1>3 DEF IInv
<1> QED BY <1>1, <1>4, <1>5, <1>6, LayerKeeps

\* A memory is read into a buffer of the size of its tensor.
LEMMA SlotFits ==
  ASSUME JobFits(job, Grid) PROVE Elements(SlotTensor) = MD * SlotTokens(Grid, HasPerceiver)
<1>1. Grid \in Int
  BY JobFacts DEF Pos
<1>2. CASE HasPerceiver
  <2>1. T2(64, 2 * 256) = T4(64, 512, 1, 1)
    BY T2Is
  <2>2. Elements(T4(64, 512, 1, 1)) = 64 * (2 * 256)
    BY ElementsOf
  <2> QED BY <1>2, <2>1, <2>2, MemorySizes DEF SlotTensor, SlotTokens
<1>3. CASE ~HasPerceiver
  <2> DEFINE g == Grid
  <2> HIDE DEF g
  <2>1. g \in Int /\ 64 * g * g * 1 = 64 * (g * g)
    BY <1>1 DEF g
  <2>2. Elements(T4(64, g, g, 1)) = 64 * (g * g)
    BY <2>1, ElementsOf
  <2> QED BY <1>3, <2>2, MemorySizes DEF SlotTensor, SlotTokens, g
<1> QED BY <1>2, <1>3

\* and the run, which sends the inputs of both parts.
LEMMA RunFrameKeeps == ASSUME IInv, RunFrame PROVE IInv'
<1> DEFINE sends == {Send("prop_curr", D * Places), Send("src_pos", D * Places),
                     Send("prompt", MD * AllTokens), Send("prompt_pos", MD * AllTokens),
                     Send("rope_q", D * Places), Send("rope_k", D * SpatialTokens)}
           slot == {Read(SlotTensor, MD * SlotTokens(Grid, HasPerceiver))}
<1>1. /\ graph = "frame" /\ ~ran /\ ran' = TRUE /\ t' = DecodedMasks
      /\ sent' = DecoderSends(1) \cup sends
      /\ read' = DecoderReads(DecodedMasks) \cup slot
      /\ UNCHANGED <<job, graph, layer, inputs>> /\ feats' = feats
  BY DEF RunFrame, FrameRan, Run
<1>2. FrameBuilds(job, Grid, layer, t, inputs) /\ JobFits(job, Grid) /\ FeatsFit(feats, Grid)
  BY <1>1, BuiltIs DEF Builds, Encoders
<1>3. /\ job.slots \in Pos /\ 1 \in Pos /\ t = Decodes(job.scored, 1, Grid)
      /\ inputs = PropagateIns(job, Grid) \o DecodeIns(job.scored, 1, Grid)
  BY <1>2, Small DEF FrameBuilds
<1>4. Intact(DecodedMasks) /\ Sized(DecoderReads(DecodedMasks))
  BY <1>2, <1>3, DecodedFits
<1>5. Sized(read')
  <2>1. Sized(slot)
    BY <1>2, SlotFits, SizedOne
  <2> HIDE DEF slot
  <2> QED BY <1>1, <1>4, <2>1, SizedTwo
<1>6. Transferred(graph, TRUE, inputs, sent', read')
  <2> DEFINE p == PropagateIns(job, Grid)
             q == DecodeIns(job.scored, 1, Grid)
             snt == sent'
  <2>1. DecoderSends(1) \subseteq snt /\ sends \subseteq snt
    <3> HIDE DEF sends
    <3> QED BY <1>1
  <2> HIDE DEF snt
  <2>2. Listed(p, snt, PropagateNames)
    BY <1>2, <1>3, <2>1, PropagateListed
  <2>3. Listed(q, snt, DecodeNames)
    BY <1>2, <1>3, <2>1, DecoderListed
  <2>4. PropagateNames \cap DecodeNames = {}
    BY DEF PropagateNames, DecodeNames
  <2>5. inputs = p \o q
    BY <1>3
  <2> HIDE DEF p, q
  <2>6. Listed(inputs, snt, PropagateNames \cup DecodeNames)
    BY <2>2, <2>3, <2>4, <2>5, ListedConcat
  <2>7. Told(inputs, snt) /\ \E n \in Nat : DOMAIN inputs = 1 .. n
    BY <2>6, ListedTold
  <2> QED BY <1>5, <2>7, TransferredIs DEF snt
<1>7. graph # "none" /\ Intact(t')
  BY <1>1, <1>4
<1> QED BY <1>1, <1>2, <1>6, <1>7, RunKeeps

-----------------------------------------------------------------------------
(* The theorems. *)

\* Every step keeps the invariant: of the encoders,
LEMMA EncoderStepKeeps == ASSUME IInv, EncoderStep PROVE IInv'
<1>1. CASE EncodeSam3
  BY <1>1, EncodeSam3Keeps
<1>2. CASE VitLayer
  BY <1>2, VitLayerKeeps
<1>3. CASE RunVit
  BY <1>3, RunVitKeeps
<1>4. CASE EncodeSam2
  BY <1>4, EncodeSam2Keeps
<1>5. CASE HieraLayer
  BY <1>5, HieraLayerKeeps
<1>6. CASE RunHiera
  BY <1>6, RunHieraKeeps
<1>7. CASE EncodeEdgeTam
  BY <1>7, EncodeEdgeTamKeeps
<1>8. CASE RepVitLayer
  BY <1>8, RepVitLayerKeeps
<1>9. CASE RepVitStage
  BY <1>9, RepVitStageKeeps
<1>10. CASE RunRepVit
  BY <1>10, RunRepVitKeeps
<1> QED BY <1>1, <1>2, <1>3, <1>4, <1>5, <1>6, <1>7, <1>8, <1>9, <1>10 DEF EncoderStep

\* of a prompt in words,
LEMMA PcsStepKeeps == ASSUME IInv, PcsStep PROVE IInv'
<1>1. ASSUME NEW n \in Exemplars, BeginText(n) PROVE IInv'
  BY <1>1, BeginTextKeeps
<1>2. CASE TextLayer
  BY <1>2, TextLayerKeeps
<1>3. CASE RunText
  BY <1>3, RunTextKeeps
<1>4. CASE BeginGeometry
  BY <1>4, BeginGeometryKeeps
<1>5. CASE GeometryLayer
  BY <1>5, GeometryLayerKeeps
<1>6. CASE RunGeometry
  BY <1>6, RunGeometryKeeps
<1>7. CASE BeginFusion
  BY <1>7, BeginFusionKeeps
<1>8. CASE FusionLayers
  BY <1>8, FusionLayersKeeps
<1>9. CASE RunFusion
  BY <1>9, RunFusionKeeps
<1>10. CASE BeginDecoder
  BY <1>10, BeginDecoderKeeps
<1>11. CASE DecoderStep
  BY <1>11, DecoderStepKeeps
<1>12. CASE RunDecoder
  BY <1>12, RunDecoderKeeps
<1>13. CASE BeginMasks
  BY <1>13, BeginMasksKeeps
<1>14. CASE RunMasks
  BY <1>14, RunMasksKeeps
<1> QED BY <1>1, <1>2, <1>3, <1>4, <1>5, <1>6, <1>7, <1>8, <1>9, <1>10, <1>11, <1>12, <1>13, <1>14 DEF PcsStep

\* of a visual prompt,
LEMMA PvsStepKeeps == ASSUME IInv, PvsStep PROVE IInv'
<1>1. ASSUME NEW n \in SparseTokens, BeginPvs(n) PROVE IInv'
  BY <1>1, BeginPvsKeeps
<1>2. CASE PvsLayer
  BY <1>2, PvsLayerKeeps
<1>3. CASE RunPvs
  BY <1>3, RunPvsKeeps
<1> QED BY <1>1, <1>2, <1>3 DEF PvsStep

\* of the memory,
LEMMA MemoryStepKeeps == ASSUME IInv, MemoryStep PROVE IInv'
<1>1. CASE BeginMemory
  BY <1>1, BeginMemoryKeeps
<1>2. CASE MemoryLayer
  BY <1>2, MemoryLayerKeeps
<1>3. CASE RunMemory
  BY <1>3, RunMemoryKeeps
<1>4. CASE BeginLatents
  BY <1>4, BeginLatentsKeeps
<1>5. CASE LatentsLayer
  BY <1>5, LatentsLayerKeeps
<1>6. CASE RunLatents
  BY <1>6, RunLatentsKeeps
<1>7. CASE BeginWindows
  BY <1>7, BeginWindowsKeeps
<1>8. CASE WindowsLayer
  BY <1>8, WindowsLayerKeeps
<1>9. CASE RunWindows
  BY <1>9, RunWindowsKeeps
<1> QED BY <1>1, <1>2, <1>3, <1>4, <1>5, <1>6, <1>7, <1>8, <1>9 DEF MemoryStep

\* of a propagation,
LEMMA PropagationStepKeeps == ASSUME IInv, PropagationStep PROVE IInv'
<1>1. ASSUME NEW s \in Slots, NEW p \in Pointers, BeginPropagation(s, p) PROVE IInv'
  BY <1>1, BeginPropagationKeeps
<1>2. CASE PropagateLayer
  BY <1>2, PropagateLayerKeeps
<1>3. CASE DecodeFrame
  BY <1>3, DecodeFrameKeeps
<1>4. CASE FrameLayer
  BY <1>4, FrameLayerKeeps
<1>5. CASE RunFrame
  BY <1>5, RunFrameKeeps
<1> QED BY <1>1, <1>2, <1>3, <1>4, <1>5 DEF PropagationStep

\* and any step at all.
LEMMA NextKeeps == ASSUME IInv, [Next]_vars PROVE IInv'
<1>1. CASE EncoderStep
  BY <1>1, EncoderStepKeeps
<1>2. CASE PcsStep
  BY <1>2, PcsStepKeeps
<1>3. CASE PvsStep
  BY <1>3, PvsStepKeeps
<1>4. CASE MemoryStep
  BY <1>4, MemoryStepKeeps
<1>5. CASE PropagationStep
  BY <1>5, PropagationStepKeeps
<1>6. CASE UNCHANGED vars
  <2>1. UNCHANGED <<job, graph, ran, layer, t, inputs, sent, read, feats>>
    BY <1>6 DEF vars
  <2>2. Grid' = Grid
    BY <2>1 DEF Grid
  <2> QED BY <2>1, <2>2 DEF IInv
<1> QED BY <1>1, <1>2, <1>3, <1>4, <1>5, <1>6 DEF Next

\* The graphs of SAM 3, SAM 2 and EdgeTAM are built as the invariant says, for every
\* image size that fits, every prompt and every number of memories and pointers,
\* whichever attention kernel the device has.
THEOREM NetworksInvariant == Spec => []IInv
<1>1. Init => IInv
  BY InitKeeps
<1>2. IInv /\ [Next]_vars => IInv'
  BY NextKeeps
<1> QED BY <1>1, <1>2, PTL DEF Spec

\* The job keeps its model, no graph has more layers than the longest network, and only
\* a graph that ran has been sent and read anything.
THEOREM NetworksTypeOK == Spec => []TypeOK
BY NetworksInvariant, Implied, PTL

\* No assertion of ggml fails while a graph is built: every product, sum, view, reshape,
\* convolution and attention of the networks gets operands whose extents fit.
THEOREM NetworksNothingAborts == Spec => []NothingAborts
BY NetworksInvariant, Implied, PTL

\* The features that an encoder leaves have the extents that sam3_effective_feat_size
\* works out from the image size alone, and that every later graph relies on.
THEOREM NetworksFeaturesFit == Spec => []FeaturesFitTheState
BY NetworksInvariant, Implied, PTL

\* Whoever runs a graph has sent each of its inputs, all of it and no more, under a name
\* that finds that input (the decoder's own inputs apart), and every tensor is read into
\* a buffer of its size.
THEOREM NetworksTransfersFit == Spec => []TransfersFit
BY NetworksInvariant, Implied, PTL
=============================================================================
