-------------------------- MODULE MCPythonParticle --------------------------
(* Every program, and C signatures of each kind: scalars of both widths, a     *)
(* struct returned and passed, one with padding, a single-field one, no result,*)
(* no fixed argument, variadic with a long double where va_arg looks for it    *)
(* and with one where it does not.                                             *)
EXTENDS PythonParticle

AllPrograms == [command: {"boot", "build"}, runtime: {"js", "python", "wasm"}]

CInt    == Scalar("int")
CInt64  == Scalar("int64")
Pair   == Struct(<<"int", "int">>)
Padded == Struct(<<"int", "int64">>)
Boxed  == Struct(<<"int64">>)
Void   == Scalar("void")
LongDouble == Scalar("longdouble")

Cif(args, rtype) == [args |-> args, rtype |-> rtype, varargs |-> FALSE, nfixed |-> Len(args)]
Variadic(nfixed, args, rtype) == [args |-> args, rtype |-> rtype, varargs |-> TRUE, nfixed |-> nfixed]

Signatures ==
  { Cif(<<CInt, CInt64, Boxed>>, CInt64),
    Cif(<<Pair, LongDouble>>, Pair),
    Cif(<<Padded, CInt>>, Void),
    Variadic(1, <<CInt64, CInt, CInt64, LongDouble, Pair>>, CInt),
    Variadic(0, <<CInt64, LongDouble>>, Void) }
=============================================================================
