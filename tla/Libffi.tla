-------------------------------- MODULE Libffi --------------------------------
(***************************************************************************)
(* The libffi adapter of internal/runtime/libffi and the guest that uses   *)
(* it through components/libffi-wasi-bridge: trampolines are made, cached  *)
(* and placed in the guest's function table, calls go out through them to  *)
(* C functions and come back in through closures, and the code a closure   *)
(* runs calls out again.  The guest has one thread, so calls nest.         *)
(* A C function takes and returns structs the way the bridge says it does  *)
(* ("ABI lowering rules", encode_type and its tests): field by field up to *)
(* 16 bytes.  That is the repository's convention, taken as it is.         *)
(*                                                                         *)
(* The shadow stack grows down from StackTop.  What lies below the stack   *)
(* pointer is dead, and kept at Dead.                                      *)
(***************************************************************************)
EXTENDS Trampolines, FiniteSets

CONSTANTS
  Cifs,       \* C signatures: [args, rtype, varargs, nfixed]
  Closures,   \* closure structs
  MaxSlots,   \* bound: entries of the function table
  MaxDepth,   \* bound: calls inside calls
  StackTop    \* bound: bytes of shadow stack; a call that does not fit is not made

ASSUME BoundsAssumption ==
  MaxSlots \in Nat /\ MaxDepth \in Nat /\ StackTop \in Nat /\ StackTop % 16 = 0

\* Results larger than 16 bytes, which the descriptor takes for an i32, are left out.
ASSUME CifsAssumption ==
  /\ Cifs \subseteq [args : Seq(CTypes), rtype : CTypes, varargs : BOOLEAN, nfixed : Nat]
  /\ \A c \in Cifs : CSize(c.rtype) <= 16 /\ c.nfixed <= Len(c.args)

VARIABLES
  table,      \* __indirect_function_table from the first slot the guest grew
  callCache,  \* descriptor -> table slot, 0 if there is none
  closure,    \* closure struct -> its slot (0 before closure_alloc) and its cif
  mem, sp,    \* the shadow stack
  calls       \* ffi_calls in progress, outermost first

ffiVars == <<table, callCache, closure, mem, sp, calls>>

Sigs   == {build_sig(c) : c \in {d \in Cifs : \A i \in DOMAIN d.args : Encodable(d.args[i])}}
NoSig  == [Varargs |-> FALSE, NFixedArgs |-> 0, Return |-> Scalar("void"), Params |-> <<>>]
Entry(kind, sig, k) == [kind |-> kind, sig |-> sig, closure |-> k]
Null   == Entry("null", NoSig, "none")
\* No C signature: none fixes more arguments than it has.
NoCif  == [args |-> <<>>, rtype |-> Scalar("void"), varargs |-> FALSE, nfixed |-> 1]

Dead == 0
Top  == calls[Len(calls)]
GuestRuns == calls # <<>> => Top.state = "running"

-----------------------------------------------------------------------------
(* Making trampolines.                                                     *)

\* Mutant: the slot is remembered before the trampoline is in it.
PrepCachedEarly(sig, works) ==
  /\ GuestRuns /\ callCache[sig] = 0 /\ Len(table) < MaxSlots
  /\ table' = Append(table, IF works THEN Entry("call", sig, "none") ELSE Null)
  /\ callCache' = [callCache EXCEPT ![sig] = Len(table) + 1]
  /\ UNCHANGED <<closure, mem, sp, calls>>

\* prep_trampoline on a descriptor not in the cache: the slot is taken, then the
\* module is built and instantiated, then the slot is remembered.
PrepTrampoline(sig, works) ==
  /\ GuestRuns /\ callCache[sig] = 0 /\ Len(table) < MaxSlots
  /\ table' = Append(table, IF works THEN Entry("call", sig, "none") ELSE Null)
  /\ callCache' = IF works THEN [callCache EXCEPT ![sig] = Len(table) + 1] ELSE callCache
  /\ UNCHANGED <<closure, mem, sp, calls>>

ClosureAlloc(k) ==
  /\ GuestRuns /\ closure[k].slot = 0 /\ Len(table) < MaxSlots
  /\ table' = Append(table, Null)
  /\ closure' = [closure EXCEPT ![k].slot = Len(table) + 1]
  /\ UNCHANGED <<callCache, mem, sp, calls>>

\* ffi_prep_closure_loc: the struct is filled in, then the host places the
\* trampoline in the slot the struct was given.
PrepClosure(k, c, works) ==
  /\ GuestRuns /\ closure[k].slot # 0 /\ closure[k].cif = NoCif /\ build_sig(c) \in Sigs
  /\ closure' = [closure EXCEPT ![k].cif = c]
  /\ table' = IF works
                THEN [table EXCEPT ![closure[k].slot] = Entry("closure", build_sig(c), k)]
                ELSE table
  /\ UNCHANGED <<callCache, mem, sp, calls>>

-----------------------------------------------------------------------------
(* A call.                                                                 *)

Word(depth, i, k) == 1000 * depth + 50 * i + k
ResultIndex == 15

\* The C caller of ffi_call has the values, the array of pointers to them and room
\* for the result in its own frame.
CallerFrame(c) ==
  LET placed == Place(CExtents(c.args))
      avalue == alignUp(placed.end, 4)
      rvalue == alignUp(avalue + 4 * Len(c.args), 16)
  IN [args |-> placed.at, avalue |-> avalue, rvalue |-> rvalue,
      size |-> alignUp(rvalue + 16, 16)]

CallerStores(c, base, depth) ==
  LET f == CallerFrame(c)
  IN [i \in DOMAIN c.args |->
        [at |-> base + f.args[i],
         words |-> [k \in 1..(CSize(c.args[i]) \div 4) |-> Word(depth, i, k)]]]
     \o [i \in DOMAIN c.args |->
           [at |-> base + f.avalue + 4 * (i - 1), words |-> <<base + f.args[i]>>]]

\* appendLoadFixedArg: through avalue[i] to each piece of the value.
LoadArg(m, avalue, i, p) == Read(m, m[avalue + 4 * (i - 1)], Pieces(p))

\* appendVarargsPack: each variadic value, piece by piece, into the buffer.
PackStores(m, avalue, sig, buffer) ==
  LET layout == VarargsLayout(sig)
      Of(j) ==
        LET p == sig.Params[sig.NFixedArgs + j]
            values == LoadArg(m, avalue, sig.NFixedArgs + j, p)
        IN [n \in DOMAIN values |->
              [at |-> buffer + layout.at[j] + Pieces(p)[n].at, words |-> values[n]]]
  IN FlattenSeq([j \in DOMAIN layout.at |-> Of(j)])

\* buildCallTrampBody up to call_indirect: the operands, memory and stack pointer.
CallTrampoline(sig, m, base, avalue, rvalue) ==
  LET buffer == base - VarargsLayout(sig).size
      fixed  == FlattenSeq([i \in DOMAIN FixedParams(sig) |->
                              LoadArg(m, avalue, i, sig.Params[i])])
  IN [operands |-> (IF IsAggregate(sig.Return) THEN << <<rvalue>> >> ELSE <<>>) \o fixed
                   \o (IF sig.Varargs THEN << <<buffer>> >> ELSE <<>>),
      mem |-> IF sig.Varargs THEN StoreAll(m, PackStores(m, avalue, sig, buffer)) ELSE m,
      sp  |-> IF sig.Varargs THEN buffer ELSE base]

\* buildClosureTrampBody up to the call of closure->fun: each operand into the slot of
\* its argument, then the pointers.
ClosureStores(sig, operands, base) ==
  LET f == ClosureFrame(sig)
      args == FlattenSeq([i \in DOMAIN sig.Params |->
                [n \in DOMAIN Pieces(sig.Params[i]) |-> base + f.args[i] + Pieces(sig.Params[i])[n].at]])
      first == IF IsAggregate(sig.Return) THEN 1 ELSE 0
  IN [n \in DOMAIN args |-> [at |-> args[n], words |-> operands[first + n]]]
     \o [i \in DOMAIN sig.Params |->
           [at |-> base + f.avalue + 4 * (i - 1), words |-> <<base + f.args[i]>>]]

\* __wasi_libffi_call: prep_trampoline answers from the cache, and dispatch enters the
\* trampoline.  The target is a C function, or a closure of the same signature; a
\* variadic closure traps.  funAvalue and funRvalue are what a closure's function is given.
Dispatch(c, k) ==
  LET sig    == build_sig(c)
      depth  == Len(calls) + 1
      base   == sp - CallerFrame(c).size
      avalue == base + CallerFrame(c).avalue
      rvalue == base + CallerFrame(c).rvalue
      m      == StoreAll(mem, CallerStores(c, base, depth))
      out    == CallTrampoline(sig, m, base, avalue, rvalue)
      frame  == out.sp - ClosureFrame(sig).size
      call   == [cif |-> c, target |-> k, base |-> base, operands |-> out.operands,
                 saved |-> out.sp, avalue |-> avalue, rvalue |-> rvalue,
                 funAvalue |-> frame + ClosureFrame(sig).avalue,
                 funRvalue |-> IF IsAggregate(sig.Return) THEN out.operands[1][1]
                               ELSE frame + ClosureFrame(sig).ret,
                 state |-> "running"]
  IN /\ GuestRuns /\ depth <= MaxDepth
     /\ sig \in Sigs /\ callCache[sig] # 0 /\ table[callCache[sig]] = Entry("call", sig, "none")
     /\ (IF k = "c" THEN out.sp ELSE frame) >= 0
     /\ calls' = Append(calls, call)
     /\ IF k = "c"
          THEN mem' = out.mem /\ sp' = out.sp
          ELSE /\ closure[k].cif = c /\ ~c.varargs /\ table[closure[k].slot].kind = "closure"
               /\ mem' = StoreAll(out.mem, ClosureStores(sig, out.operands, frame))
               /\ sp' = frame
     /\ UNCHANGED <<table, callCache, closure>>

Result(c, depth) ==
  [n \in DOMAIN CPieces(c.rtype) |->
     [k \in 1..(CPieces(c.rtype)[n].size \div 4) |-> Word(depth, ResultIndex, 4 * n + k)]]

ResultStores(c, depth, at) ==
  [n \in DOMAIN CPieces(c.rtype) |->
     [at |-> at + CPieces(c.rtype)[n].at, words |-> Result(c, depth)[n]]]

\* Mutant: the buffer of the variadic arguments is not given back.
BufferKept(call) == call.saved

\* The stack pointer once both trampolines are done.
Restored(call) == IF call.cif.varargs THEN call.base ELSE call.saved

Below(m, bound) == [a \in DOMAIN m |-> IF a < bound THEN Dead ELSE m[a]]

\* The target returns and the trampolines unwind: a closure's loads the result from
\* its frame and restores the stack pointer it saved; the call's stores it at rvalue
\* and restores what it saved if it made a buffer.
TargetReturns ==
  LET c    == Top.cif
      sig  == build_sig(c)
      to   == IF Top.target # "c" THEN Top.funRvalue
              ELSE IF IsAggregate(sig.Return) THEN Top.operands[1][1] ELSE Top.rvalue
      m    == StoreAll(mem, ResultStores(c, Len(calls), to))
      back == IF Top.target # "c" /\ HasResult(sig.Return)
                THEN Store(m, Top.rvalue, Load(m, to, ByteSize(sig.Return))) ELSE m
      restored == Restored(Top)
  IN /\ calls # <<>> /\ Top.state = "running"
     /\ sp' = restored /\ mem' = Below(back, restored)
     /\ calls' = [calls EXCEPT ![Len(calls)].state = "back"]
     /\ UNCHANGED <<table, callCache, closure>>

\* The caller has its result and pops its own frame.
CallerGoesOn ==
  LET popped == Top.base + CallerFrame(Top.cif).size
  IN /\ calls # <<>> /\ Top.state = "back"
     /\ sp' = popped /\ mem' = Below(mem, popped)
     /\ calls' = SubSeq(calls, 1, Len(calls) - 1)
     /\ UNCHANGED <<table, callCache, closure>>

NoSlots    == [s \in Sigs |-> 0]
NoClosures == [k \in Closures |-> [slot |-> 0, cif |-> NoCif]]
NoStack    == [a \in {4 * n : n \in 0..(StackTop \div 4 - 1)} |-> Dead]

FfiInit ==
  /\ table = <<>> /\ callCache = NoSlots /\ closure = NoClosures
  /\ mem = NoStack /\ sp = StackTop /\ calls = <<>>

\* The instance and its adapter are gone.
FfiGone ==
  /\ calls = <<>>
  /\ table' = <<>> /\ callCache' = NoSlots /\ closure' = NoClosures
  /\ mem' = NoStack /\ sp' = StackTop /\ UNCHANGED calls

FfiNext ==
  \/ \E sig \in Sigs, works \in BOOLEAN : PrepTrampoline(sig, works)
  \/ \E k \in Closures : ClosureAlloc(k)
  \/ \E k \in Closures, c \in Cifs, works \in BOOLEAN : PrepClosure(k, c, works)
  \/ \E c \in Cifs, k \in Closures \union {"c"} : Dispatch(c, k)
  \/ TargetReturns \/ CallerGoesOn

-----------------------------------------------------------------------------
\* A slot in the cache holds the trampoline of that descriptor, and a closure's slot
\* holds a trampoline bound to it or none: whatever failed in between, no two of them
\* ever share a slot.
SlotsAreServed ==
  /\ \A s \in Sigs : callCache[s] # 0 => table[callCache[s]] = Entry("call", s, "none")
  /\ \A k \in Closures :
       closure[k].slot # 0 =>
         table[closure[k].slot] \in {Null, Entry("closure", build_sig(closure[k].cif), k)}

\* What the caller put in its frame, one word sequence per scalar.
Sent(call) ==
  FlattenSeq([i \in DOMAIN call.cif.args |->
    Read(mem, call.base + CallerFrame(call.cif).args[i], CPieces(call.cif.args[i]))])

\* What the target finds: a closure's function through its avalue, a C function in its
\* operands and, for what the prototype does not name, by va_arg in the buffer.
Received(call) ==
  LET c == call.cif
      first == IF IsAggregate(build_sig(c).Return) THEN 2 ELSE 1
      variadic == SubSeq(c.args, c.nfixed + 1, Len(c.args))
      at == Place(CExtents(variadic)).at
      buffer == call.operands[Len(call.operands)][1]
  IN IF call.target # "c"
       THEN FlattenSeq([i \in DOMAIN c.args |->
              Read(mem, mem[call.funAvalue + 4 * (i - 1)], CPieces(c.args[i]))])
     ELSE IF ~c.varargs THEN SubSeq(call.operands, first, Len(call.operands))
     ELSE SubSeq(call.operands, first, Len(call.operands) - 1)
          \o FlattenSeq([j \in DOMAIN variadic |-> Read(mem, buffer + at[j], CPieces(variadic[j]))])

\* The descriptor keeps the size of an argument that has no padding and, above 16 bytes,
\* is not passed by pointer.
ByPointer(c) == \E i \in DOMAIN c.args : CSize(c.args[i]) > 16
NoPadding(t) ==
  LET packed == [i \in DOMAIN t.fields |-> [align |-> 1, size |-> Width(t.fields[i])]]
  IN t.tag = "struct" => CSize(t) = Place(packed).end
SizesKept(c) == ~ByPointer(c) /\ \A i \in DOMAIN c.args : NoPadding(c.args[i])

\* Alignment to 8 at most, which is all naturalAlign gives, puts the variadic arguments
\* where C's alignment does: not when a long double, alone or in a struct, comes to lie
\* on an odd multiple of 8.
EightAtMost(extents) ==
  [j \in DOMAIN extents |-> [extents[j] EXCEPT !.align = IF @ > 8 THEN 8 ELSE @]]
AlignKept(c) ==
  LET extents == CExtents(SubSeq(c.args, c.nfixed + 1, Len(c.args)))
  IN c.varargs => Place(EightAtMost(extents)).at = Place(extents).at

\* Every call in progress, at any depth, still finds the arguments that were sent, and
\* nothing the calls inside it do disturbs them.  A struct the descriptor shrinks
\* overlaps what follows it in a buffer or in a closure's frame; in the operands of a
\* plain call it does not.  A variadic long double that C aligns to 16 and the trampoline
\* does not is looked for elsewhere.
TargetsGetArguments ==
  \A d \in DOMAIN calls :
    LET call == calls[d]
    IN /\ call.state = "running"
       /\ (SizesKept(call.cif) /\ AlignKept(call.cif))
          \/ (call.target = "c" /\ ~call.cif.varargs /\ ~ByPointer(call.cif))
       => Received(call) = Sent(call)

\* When a call comes back the caller has its result, and the stack pointer is where
\* the caller left it.
CallsComeBack ==
  calls # <<>> /\ Top.state = "back" =>
    /\ Read(mem, Top.rvalue, CPieces(Top.cif.rtype)) = Result(Top.cif, Len(calls))
    /\ sp = Top.base
=============================================================================
