------------------------------ MODULE Trampolines ------------------------------
(***************************************************************************)
(* The layouts of internal/runtime/libffi: how a C signature becomes a     *)
(* descriptor (components/libffi-wasi-bridge), what a descriptor lowers to,*)
(* and where the two kinds of trampoline put arguments in memory.          *)
(*                                                                         *)
(* A type is a tag and, for a struct, the tags of its fields.  Every width *)
(* here is a multiple of four, so memory is a function from multiples of   *)
(* four to words, and a value is the sequence of its words.                *)
(***************************************************************************)
EXTENDS Integers, Sequences, SequencesExt

Scalar(tag) == [tag |-> tag, fields |-> <<>>]
Struct(tags) == [tag |-> "struct", fields |-> tags]
Fields(t) == [i \in DOMAIN t.fields |-> Scalar(t.fields[i])]

alignUp(n, align) == ((n + align - 1) \div align) * align

-----------------------------------------------------------------------------
(* C types: the tags are those of ffi_type, by width.  Integers of one and *)
(* two bytes are left out: the descriptor has an i32 for them, and the     *)
(* trampoline loads four bytes.                                            *)

ScalarTags == {"int", "int64", "float", "double", "longdouble"}
CTypes == [tag : ScalarTags \union {"void"}, fields : {<<>>}]
            \union [tag : {"struct"}, fields : Seq(ScalarTags)]

Width(tag) ==
  CASE tag = "void" -> 0
    [] tag \in {"int", "float"} -> 4
    [] tag \in {"int64", "double"} -> 8
    [] tag = "longdouble" -> 16

\* The C ABI's: a scalar is aligned to its width, a long double to 16 (naturalAlign, which
\* says "C natural alignment", has 8 for it), a struct as its most aligned field.
CAlign(t) ==
  LET Of(tag) == IF Width(tag) <= 4 THEN 4 ELSE Width(tag)
      Has(n)  == \E i \in DOMAIN t.fields : Of(t.fields[i]) = n
  IN IF t.tag # "struct" THEN Of(t.tag) ELSE IF Has(16) THEN 16 ELSE IF Has(8) THEN 8 ELSE 4

\* Where each of a sequence of things ends, the first after nothing, and where each
\* goes, given their alignments and sizes.
Ends(extents) ==
  LET end[i \in 0..Len(extents)] ==
        IF i = 0 THEN 0 ELSE alignUp(end[i - 1], extents[i].align) + extents[i].size
  IN end

Place(extents) ==
  [at  |-> [i \in DOMAIN extents |-> alignUp(Ends(extents)[i - 1], extents[i].align)],
   end |-> Ends(extents)[Len(extents)]]

CFields(t) ==
  [i \in DOMAIN t.fields |-> [align |-> CAlign(Scalar(t.fields[i])), size |-> Width(t.fields[i])]]

CSize(t) ==
  IF t.tag # "struct" THEN Width(t.tag)
  ELSE alignUp(Place(CFields(t)).end, CAlign(t))

CExtents(ts) == [i \in DOMAIN ts |-> [align |-> CAlign(ts[i]), size |-> CSize(ts[i])]]

\* The scalars of a C value: their offset and size in it.  A long double, alone or as
\* the only field, is two.
CPieces(t) ==
  IF t.tag = "longdouble" \/ t.fields = <<"longdouble">>
    THEN <<[at |-> 0, size |-> 8], [at |-> 8, size |-> 8]>>
  ELSE CASE t.tag = "void" -> <<>>
         [] t.tag = "struct" ->
              LET at == Place(CFields(t)).at
              IN [i \in DOMAIN t.fields |-> [at |-> at[i], size |-> Width(t.fields[i])]]
         [] OTHER -> <<[at |-> 0, size |-> Width(t.tag)]>>

-----------------------------------------------------------------------------
(* encode_type: a C type to a type of the descriptor.                      *)

ValType(tag) ==
  CASE tag = "int" -> "i32" [] tag = "int64" -> "i64"
    [] tag = "float" -> "f32" [] tag = "double" -> "f64" [] OTHER -> tag

\* A struct of one field is that field; one of none is void.
unbox_single_struct(t) ==
  IF t.tag # "struct" \/ CSize(t) > 16 \/ Len(t.fields) > 1 THEN t
  ELSE IF t.fields = <<>> THEN Scalar("void") ELSE Scalar(t.fields[1])

encode_type(t) ==
  LET u == unbox_single_struct(t)
  IN IF u.tag # "struct" THEN Scalar(ValType(u.tag))
     ELSE IF CSize(u) > 16 THEN Scalar("i32")
     ELSE Struct([i \in DOMAIN u.fields |-> ValType(u.fields[i])])

\* "struct-flat: nested aggregate or unknown field type": build_sig refuses.
Encodable(t) == CSize(t) > 16 \/ Len(t.fields) < 2 \/ "longdouble" \notin Range(t.fields)

build_sig(cif) ==
  [Varargs |-> cif.varargs, NFixedArgs |-> cif.nfixed, Return |-> encode_type(cif.rtype),
   Params |-> [i \in DOMAIN cif.args |-> encode_type(cif.args[i])]]

-----------------------------------------------------------------------------
(* ParsedType of sig.go.                                                   *)

LoweredValtypes(p) ==
  CASE p.tag = "void" -> <<>>
    [] p.tag = "longdouble" -> <<"i64", "i64">>
    [] p.tag = "struct" -> p.fields
    [] OTHER -> <<p.tag>>

naturalAlign(p) ==
  LET Of(tag) == IF tag \in {"i32", "f32"} THEN 4 ELSE 8
  IN IF p.tag = "struct"
       THEN IF \E i \in DOMAIN p.fields : Of(p.fields[i]) = 8 THEN 8 ELSE 4
     ELSE IF p.tag = "void" THEN 1 ELSE Of(p.tag)

\* "For struct-flat, this is the sum of the field sizes (no padding ...)".
ByteSize(p) ==
  LET Of(tag) == CASE tag = "void" -> 0 [] tag \in {"i32", "f32"} -> 4
                   [] tag = "longdouble" -> 16 [] OTHER -> 8
  IN IF p.tag = "struct" THEN Place([i \in DOMAIN p.fields |-> [align |-> 1, size |-> Of(p.fields[i])]]).end
     ELSE Of(p.tag)

IsAggregate(p) == p.tag \in {"longdouble", "struct"}
HasResult(p)   == p.tag # "void" /\ ~IsAggregate(p)

Extents(ps) == [i \in DOMAIN ps |-> [align |-> naturalAlign(ps[i]), size |-> ByteSize(ps[i])]]

\* The pieces a trampoline moves one by one: their offset and size in the value.
\* Field offsets are rounded up to the field's alignment.
Pieces(p) ==
  CASE p.tag = "void" -> <<>>
    [] p.tag = "longdouble" -> <<[at |-> 0, size |-> 8], [at |-> 8, size |-> 8]>>
    [] p.tag = "struct" ->
         LET at == Place(Extents(Fields(p))).at
         IN [i \in DOMAIN p.fields |-> [at |-> at[i], size |-> ByteSize(Scalar(p.fields[i]))]]
    [] OTHER -> <<[at |-> 0, size |-> ByteSize(p)]>>

FixedParams(sig) == IF sig.Varargs THEN SubSeq(sig.Params, 1, sig.NFixedArgs) ELSE sig.Params

\* The type call_indirect checks.
loweredTargetSig(sig) ==
  [params  |-> (IF IsAggregate(sig.Return) THEN <<"i32">> ELSE <<>>)
               \o FlattenSeq([i \in DOMAIN FixedParams(sig) |->
                                LoweredValtypes(FixedParams(sig)[i])])
               \o (IF sig.Varargs THEN <<"i32">> ELSE <<>>),
   results |-> IF HasResult(sig.Return) THEN LoweredValtypes(sig.Return) ELSE <<>>]

\* Mutant: the buffer without the gaps alignment leaves.
VarargsPacked(sig) ==
  LET variadic == SubSeq(sig.Params, sig.NFixedArgs + 1, Len(sig.Params))
      placed   == Place([j \in DOMAIN variadic |-> [align |-> 4, size |-> ByteSize(variadic[j])]])
  IN [at |-> placed.at, size |-> alignUp(placed.end, 16)]

\* The variadic arguments in their buffer, and its size.
VarargsLayout(sig) ==
  LET variadic == SubSeq(sig.Params, sig.NFixedArgs + 1, Len(sig.Params))
      placed   == Place(Extents(variadic))
  IN [at |-> placed.at, size |-> alignUp(placed.end, 16)]

\* The frame of a closure trampoline: arguments, avalue array, result.
ClosureFrame(sig) ==
  LET placed == Place(Extents(sig.Params))
      avalue == alignUp(placed.end, 4)
      end    == avalue + 4 * Len(sig.Params)
      ret    == IF HasResult(sig.Return) THEN alignUp(end, naturalAlign(sig.Return)) ELSE end
  IN [args |-> placed.at, avalue |-> avalue, ret |-> ret,
      size |-> alignUp(IF HasResult(sig.Return) THEN ret + ByteSize(sig.Return) ELSE end, 16)]

-----------------------------------------------------------------------------
(* Memory.                                                                 *)

Load(mem, at, size) == [k \in 1..(size \div 4) |-> mem[at + 4 * (k - 1)]]

Store(mem, at, words) ==
  [a \in DOMAIN mem |->
     IF a \in at..(at + 4 * Len(words) - 1) THEN words[((a - at) \div 4) + 1] ELSE mem[a]]

\* What the pieces of a value at an address hold.
Read(mem, at, pieces) == [i \in DOMAIN pieces |-> Load(mem, at + pieces[i].at, pieces[i].size)]

\* Stores of whole values, one after the other: a later one wins.
StoreAll(mem, stores) ==
  [a \in DOMAIN mem |->
     LET here == {i \in DOMAIN stores : a \in stores[i].at..(stores[i].at + 4 * Len(stores[i].words) - 1)}
         s    == stores[Max(here)]
     IN IF here = {} THEN mem[a] ELSE s.words[((a - s.at) \div 4) + 1]]
=============================================================================
