------------------------------- MODULE GgmlTensor -------------------------------
(***************************************************************************)
(* Tensors of the tensor library (whisper/src/ggml.c): shapes, strides,    *)
(* views, and the questions the library asks of them.                      *)
(*                                                                         *)
(* A tensor is a record:                                                   *)
(*   type        F32, F16, I32 or Q8_0 (blocks of 32 values in 34 bytes)   *)
(*   ne, nb      elements and bytes to the next element, per dimension     *)
(*   root, room  the tensor whose storage it lies in (itself, or what it   *)
(*               is a view of) and the bytes that storage has              *)
(*   offs        where it starts in that storage                           *)
(*   op          the operation that computes it                            *)
(*   par         the numbers its operation keeps in op_params              *)
(*   grad        a gradient is kept for it                                 *)
(*   sound       it and everything it is computed from can be computed:    *)
(*               see Accepts in GgmlOps                                    *)
(* A failed GGML_ASSERT ends the program: the result is ABORT.             *)
(***************************************************************************)
EXTENDS Integers, Sequences

Dims == 0 .. 3
Ne(a, b, c, d) == [i \in Dims |-> <<a, b, c, d>>[i + 1]]

TypeSize == [F32 |-> 4, F16 |-> 2, I32 |-> 4, Q8_0 |-> 34]
BlckSize == [F32 |-> 1, F16 |-> 1, I32 |-> 1, Q8_0 |-> 32]
is_quantized(type) == BlckSize[type] > 1

ABORT == [type |-> "F32", ne |-> Ne(1, 1, 1, 1), nb |-> Ne(4, 4, 4, 4), root |-> "none", room |-> 4,
          offs |-> 0, op |-> "ABORT", par |-> <<>>, grad |-> FALSE, sound |-> FALSE]
Aborted(t) == t.op = "ABORT"

\* GGML_ASSERT(cond), and an operand that was never built
Must(cond, t) == IF cond THEN t ELSE ABORT

----------------------------------------------------------------------------
nelements(t) == t.ne[0] * t.ne[1] * t.ne[2] * t.ne[3]
nrows(t) == t.ne[1] * t.ne[2] * t.ne[3]
row_size(type, n) == (TypeSize[type] * n) \div BlckSize[type]

\* From the first byte of a tensor to its last.
nbytes(t) ==
    LET first == IF BlckSize[t.type] = 1 THEN TypeSize[t.type] + (t.ne[0] - 1) * t.nb[0]
                                         ELSE (t.ne[0] * t.nb[0]) \div BlckSize[t.type]
    IN  first + (t.ne[1] - 1) * t.nb[1] + (t.ne[2] - 1) * t.nb[2] + (t.ne[3] - 1) * t.nb[3]

\* Strides of a tensor without gaps.
Strides(nb0, nb1, ne) == Ne(nb0, nb1, nb1 * ne[1], nb1 * ne[1] * ne[2])
Packed(type, ne) == Strides(TypeSize[type], TypeSize[type] * (ne[0] \div BlckSize[type]), ne)

is_scalar(t) == \A i \in Dims : t.ne[i] = 1
is_vector(t) == \A i \in 1 .. 3 : t.ne[i] = 1
is_matrix(t) == \A i \in 2 .. 3 : t.ne[i] = 1
is_transposed(t) == t.nb[0] > t.nb[1]
is_contiguous(t) ==
    /\ t.nb[0] = TypeSize[t.type]
    /\ t.nb[1] = (t.nb[0] * t.ne[0]) \div BlckSize[t.type]
    /\ \A i \in 2 .. 3 : t.nb[i] = t.nb[i - 1] * t.ne[i - 1]
is_padded_1d(t) ==
    /\ t.nb[0] = TypeSize[t.type]
    /\ \A i \in 2 .. 3 : t.nb[i] = t.nb[i - 1] * t.ne[i - 1]
are_same_shape(a, b) == a.ne = b.ne
can_repeat(a, b) == \A i \in Dims : b.ne[i] % a.ne[i] = 0
can_repeat_rows(a, b) == a.ne[0] = b.ne[0] /\ can_repeat(a, b)
Broadcasts(a, b) == \A i \in 2 .. 3 : b.ne[i] % a.ne[i] = 0
can_mul_mat(a, b) == a.ne[0] = b.ne[0] /\ Broadcasts(a, b)
can_out_prod(a, b) == a.ne[1] = b.ne[1] /\ Broadcasts(a, b)

----------------------------------------------------------------------------
\* ggml_new_tensor: storage of its own.
Stored(t) == [t EXCEPT !.room = nbytes(t)]
new_tensor(type, ne) ==
    Stored([type |-> type, ne |-> ne, nb |-> Packed(type, ne), root |-> "new", room |-> 0,
            offs |-> 0, op |-> "NONE", par |-> <<>>, grad |-> FALSE, sound |-> TRUE])

\* A view of src, ne elements from offs on; it must fit, if it has no gaps,
\* into the storage src lies in.
InStorage(t, src, end, offs) ==
    Must(t.room + end <= src.room, [t EXCEPT !.root = src.root, !.room = src.room, !.offs = src.offs + offs])
\* Mutant: the view counts its offset from the tensor it is taken of, though
\* that one starts somewhere in its storage.
view_of_self(src, ne, offs) == InStorage(new_tensor(src.type, ne), src, offs, offs)
view_of(src, ne, offs) == InStorage(new_tensor(src.type, ne), src, src.offs + offs, offs)

dup_tensor(t) == new_tensor(t.type, t.ne)

\* A view that keeps the strides.
Strided(t, nb) == IF Aborted(t) THEN ABORT ELSE [t EXCEPT !.nb = nb]
view_tensor(src) == Strided(view_of(src, src.ne, 0), src.nb)

Same(a, inplace) == IF inplace THEN view_tensor(a) ELSE dup_tensor(a)

----------------------------------------------------------------------------
(* Elements and where they are *)

\* The coordinates of the i-th element.
unravel_index(t, i) ==
    LET n1 == t.ne[0]
        n2 == n1 * t.ne[1]
        n3 == n2 * t.ne[2]
        i3 == i \div n3
        i2 == (i - i3 * n3) \div n2
        i1 == (i - i3 * n3 - i2 * n2) \div n1
    IN  Ne(i - i3 * n3 - i2 * n2 - i1 * n1, i1, i2, i3)

\* Its byte, in the storage the tensor lies in.
At(t, c) == t.offs + c[0] * t.nb[0] + c[1] * t.nb[1] + c[2] * t.nb[2] + c[3] * t.nb[3]

\* ggml_get_f32_1d and its kind: straight through a tensor without gaps,
\* by coordinates through any other.
Flat(t, i) == IF is_contiguous(t) THEN t.offs + i * TypeSize[t.type] ELSE At(t, unravel_index(t, i))

\* Where ggml_set_i32 and ggml_set_f32 write: row after row, nb[1] apart.
Filled(t) == {t.offs + i * t.nb[1] + c * TypeSize[t.type] : i \in 0 .. nrows(t) - 1, c \in 0 .. t.ne[0] - 1}

\* Every element lies in the storage.
Inside(t) == 0 <= t.offs /\ t.offs + nbytes(t) <= t.room
=============================================================================
