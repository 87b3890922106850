---------------------------- MODULE OnnxTensor ----------------------------
(***************************************************************************)
(* The tensor helpers of onnxruntime-utils/onnxruntime-tensor.h and .cc.   *)
(* A tensor is its elements in row-major order and a shape. Products are   *)
(* accumulated in an int, from -IntLimit on, because the initial value of  *)
(* std::accumulate is the literal 1. Not in the model: tensors of type     *)
(* other than the four of GetTensorElementByteSize, which throws for them, *)
(* and TopK for k < 1, which reads the top of an empty queue.              *)
(* ComputeStrides has no value for a shape without dimensions.             *)
(***************************************************************************)
EXTENDS Integers, Sequences, FiniteSets, SequencesExt

CONSTANT IntLimit   \* one more than the greatest int
ASSUME TensorAssumption == IntLimit \in Nat \ {0}

Product(shape) == FoldLeft(LAMBDA acc, d : acc * d, 1, shape)

\* The value of an int variable to which n is assigned.
ToInt(n) == ((n + IntLimit) % (2 * IntLimit)) - IntLimit
Accumulated(shape) == FoldLeft(LAMBDA acc, d : ToInt(acc * d), 1, shape)

-----------------------------------------------------------------------------
(* Shapes. An axis counts from 0.                                          *)

UnsqueezeThrows(shape, axis) == axis < 0 \/ axis > Len(shape)

Unsqueeze(shape, axis) ==
  [n \in 1..Len(shape) + 1 |->
     IF n = axis + 1 THEN 1 ELSE IF n <= axis THEN shape[n] ELSE shape[n - 1]]

\* strides[shape_size - 1] = 1 writes in front of the array.
StridesOverrun(shape) == shape = <<>>

ComputeStrides(shape) ==
  LET stride[i \in 1..Len(shape)] ==
        IF i = Len(shape) THEN 1 ELSE stride[i + 1] * shape[i + 1]
  IN  CASE ~StridesOverrun(shape) -> stride

\* Ort::Value::CreateTensor over memory that is there already throws unless
\* the memory is large enough for elements of the type.
ElementSize == [bool |-> 1, int32 |-> 4, float |-> 4, int64 |-> 8]
CreateTensorThrows(bytes, shape, type) == bytes < Product(shape) * ElementSize[type]

GetTensorElementByteSize(type) ==
  CASE type = "bool" -> 1 [] type = "int64" -> 8 [] type \in {"int32", "float"} -> 4

ViewThrows(count, type, shape) ==
  \/ \E i \in DOMAIN shape : shape[i] <= 0
  \/ Accumulated(shape) # count
  \/ CreateTensorThrows(count * GetTensorElementByteSize(type), shape, type)

-----------------------------------------------------------------------------
(* Repeat. repeat_factors_size - 1 is unsigned: a tensor without           *)
(* dimensions is refused.                                                  *)

OutputShape(input_shape, repeat_factors) ==
  [d \in DOMAIN input_shape |-> input_shape[d] * repeat_factors[d]]

Ones(repeat_factors) == Cardinality({ d \in DOMAIN repeat_factors : repeat_factors[d] = 1 })

RepeatThrows(input, input_shape, repeat_factors) ==
  \/ Len(input_shape) # Len(repeat_factors)
  \/ Product(OutputShape(input_shape, repeat_factors)) < 0
  \/ Accumulated(input_shape) # Len(input)
  \/ Accumulated(OutputShape(input_shape, repeat_factors))
       # Product(OutputShape(input_shape, repeat_factors))
  \/ repeat_factors = <<>> \/ Ones(repeat_factors) < Len(repeat_factors) - 1

\* The elements from which a block is copied; not the code: the dimension
\* that is repeated counts as an outer one.
BlockOfInner(input_shape, r) == SubSeq(input_shape, r + 1, Len(input_shape))
Block(input_shape, r) == SubSeq(input_shape, r, Len(input_shape))

Repeat(input, input_shape, repeat_factors) ==
  LET r == SelectInSeq(repeat_factors, LAMBDA f : f # 1)
      copy_count == Accumulated(SubSeq(input_shape, 1, r - 1))
      block == Accumulated(Block(input_shape, r))
      copied(n) == SubSeq(input, n * block + 1, (n + 1) * block)
  IN  CASE r = 0 -> input
        [] r # 0 /\ (copy_count <= 0 \/ repeat_factors[r] <= 0) -> <<>>
        [] OTHER -> FlattenSeq([n \in 1..copy_count * repeat_factors[r] |->
                                  copied((n - 1) \div repeat_factors[r])])

-----------------------------------------------------------------------------
(* TopK: pairs of a value and an index in a queue whose top is the worst.  *)

ValueComp(lhs, rhs) == lhs[1] > rhs[1] \/ (lhs[1] = rhs[1] /\ lhs[2] < rhs[2])

TopK(values, k) ==
  LET pair(i) == <<values[i], i - 1>>
      top(pq) == CHOOSE p \in pq : \A q \in pq \ {p} : ValueComp(q, p)
      first == IF k < Len(values) THEN k ELSE Len(values)
      pushed(pq, i) == IF top(pq)[1] < values[i]
                       THEN (pq \ {top(pq)}) \cup {pair(i)} ELSE pq
      heap == FoldLeft(pushed, { pair(i) : i \in 1..first },
                       [i \in 1..Len(values) - first |-> first + i])
      drained[pq \in SUBSET heap] ==
        IF pq = {} THEN <<>> ELSE Append(drained[pq \ {top(pq)}], top(pq))
  IN  drained[heap]

-----------------------------------------------------------------------------
(* What they are for.                                                      *)

\* An inserted dimension changes no stride of the others, if there are others
\* (without them ComputeStrides corrupts memory), and the tensor can be made
\* over the same memory, whatever its type; a view that is made has exactly
\* the elements of the tensor: the products of what is refused are in an int.
ShapesKeepElements(shape, axis, other) ==
  /\ ~UnsqueezeThrows(shape, axis) =>
       LET new == Unsqueeze(shape, axis)
       IN  /\ Product(new) = Product(shape)
           /\ RemoveAt(new, axis + 1) = shape
           /\ ~StridesOverrun(shape) =>
                RemoveAt(ComputeStrides(new), axis + 1) = ComputeStrides(shape)
           /\ \A type \in DOMAIN ElementSize :
                ~CreateTensorThrows(Product(shape) * GetTensorElementByteSize(type), new, type)
  /\ \A type \in DOMAIN ElementSize :
       ~ViewThrows(Product(shape), type, other) => Product(other) = Product(shape)

Sum(terms) == FoldLeft(LAMBDA acc, n : acc + n, 0, terms)

\* Repeat is torch.repeat: the element of the output at an index is the one of
\* the input at that index modulo the input's shape. That holds of every
\* call that does not throw, overflow of the products included.
RepeatIsTorchRepeat(input, input_shape, repeat_factors) ==
  ~RepeatThrows(input, input_shape, repeat_factors) =>
    LET shape == OutputShape(input_shape, repeat_factors)
        output == Repeat(input, input_shape, repeat_factors)
        index(o, d) == (o \div ComputeStrides(shape)[d]) % shape[d]
        source(o) == Sum([d \in DOMAIN shape |->
                            (index(o, d) % input_shape[d]) * ComputeStrides(input_shape)[d]])
    IN  /\ Len(output) = Product(shape)
        /\ \A o \in 0..Len(output) - 1 : output[o + 1] = input[source(o) + 1]

\* TopK is a stable sort, largest first, cut off after k: the pairs are in
\* order, and those that are not there would come after them.
TopKIsStable(values, k) ==
  LET best == TopK(values, k)
      pairs == { <<values[i], i - 1>> : i \in DOMAIN values }
      before(p, q) == p[1] > q[1] \/ (p[1] = q[1] /\ p[2] < q[2])
  IN  /\ Len(best) = (IF k < Len(values) THEN k ELSE Len(values))
      /\ ToSet(best) \subseteq pairs
      /\ \A m, n \in DOMAIN best : m < n => before(best[m], best[n])
      /\ \A n \in DOMAIN best, p \in pairs \ ToSet(best) : before(best[n], p)
=============================================================================
