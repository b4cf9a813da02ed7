------------------------------- MODULE HostABI -------------------------------
(***************************************************************************)
(* One call of a guest to a host function through the generated bindings.  *)
(*                                                                         *)
(* The guest lowers the arguments as the canonical ABI says; the binding   *)
(* lifts them with its own literals (HostBindings), calls the              *)
(* implementation, asks the guest for a block for the result and writes    *)
(* the result into it.  A string or a list needs a block of its own, so    *)
(* guest code (realloc) runs, and may trap, between any two writes.  At     *)
(* last the guest reads the result as the canonical ABI says.  Both sides   *)
(* write by the same steps, each with its own layout.                      *)
(*                                                                         *)
(* A byte is a pair: the number stored and the place of the byte in it, so  *)
(* a read that does not match a write yields nothing sensible.             *)
(***************************************************************************)
EXTENDS HostBindings

CONSTANTS
  MemSize,   \* bytes of guest memory
  Texts,     \* strings: sequences of characters, which are numbers
  Numbers,   \* values of bytes and words
  MaxLen,    \* elements of a list
  MaxLoads   \* bound: libraries opened

ASSUME SizesAssumption == MemSize \in Nat /\ MaxLen \in Nat /\ MaxLoads \in Nat
ASSUME ValuesAssumption == Numbers \subseteq Nat /\ Texts \subseteq Seq(Nat)

VARIABLES
  mem,      \* guest memory: the bytes written, by address
  free,     \* the guest's allocator: the first address not given out
  blocks,   \* what the side that writes was given: <<address, length>>
  touched,  \* the addresses it wrote
  fn, args, \* the call, and the arguments the guest passes
  stack,    \* their flat form: core values, by slot
  lifted,   \* the arguments the implementation got
  result,   \* what the implementation returned
  out,      \* the block of the result
  todo,     \* what is still to be written, in order
  got,      \* what the guest read
  extern,   \* registered resources: representation -> library
  handles,  \* the guest's handle table: handle -> representation
  phase

vars == <<mem, free, blocks, touched, fn, args, stack, lifted, result, out, todo,
          got, extern, handles, phase>>

Invalid == <<"invalid">>
Nothing == <<>>
Codec   == HostFunctions[fn]
First   == 1     \* address 0 is the null pointer

-----------------------------------------------------------------------------
(* Memory.                                                                 *)

IntBytes(v, width) == [i \in 1..width |-> <<v, i>>]
\* The number stored at an address, or 0 if no number of that width is.
Stored(m, at, width) ==
  LET cells == at..at + width - 1 IN
  IF cells \subseteq DOMAIN m /\ \A a \in cells : m[a] = <<m[at][1], a - at + 1>>
    THEN m[at][1] ELSE 0
Byte(m, at) == Stored(m, at, 1)
Word(m, at) == Stored(m, at, 4)

Put(m, at, bytes) ==
  [a \in DOMAIN m \union at..at + Len(bytes) - 1 |->
     IF a \in at..at + Len(bytes) - 1 THEN bytes[a - at + 1] ELSE m[a]]

\* All a reader depends on.
Now == [mem |-> mem, handles |-> handles, extern |-> extern]

\* What a reader finds at an address that holds a t: the guest, or the binding (the
\* host), each with its own layout.  f is what it finds of the components.
Elements(side, f, t, at, n) ==
  IF at + n * t[side].stride > MemSize \/ (side = "guest" /\ at % t[side].align # 0)
    THEN Invalid
    ELSE [i \in 1..n |-> f[t.elem][at + (i - 1) * t[side].stride]]
Chosen(side, f, t, d, at) ==
  IF d + 1 \in DOMAIN t.payloads
    THEN <<d, f[t.payloads[d + 1]][at + t[side].at]>> ELSE Invalid
\* The library that an owned handle stands for.
Owned(w, h) ==
  IF h \in DOMAIN w.handles /\ w.handles[h] \in DOMAIN w.extern
    THEN w.extern[w.handles[h]] ELSE 0
Found(side, f, t, w, at) ==
  IF t.k = "byte" THEN Byte(w.mem, at)
  ELSE IF t.k = "word" THEN Word(w.mem, at)
  ELSE IF t.k = "own" THEN Owned(w, Word(w.mem, at))
  ELSE IF t.k \in {"string", "list"}
       THEN Elements(side, f, t, Word(w.mem, at), Word(w.mem, at + t[side].lenAt))
  ELSE IF t.k = "case" THEN Chosen(side, f, t, Byte(w.mem, at), at)
  ELSE IF t.k = "record"
       THEN [i \in DOMAIN t.fields |-> f[t.fields[i]][at + t[side].offsets[i]]]
  ELSE Nothing
Finds(side, w) ==
  LET f[t \in Codecs] == [at \in Nat |-> Found(side, f, t, w, at)] IN f

-----------------------------------------------------------------------------
(* The values calls are tried with.                                        *)

\* No declaration has more than three parameters or fields.
Product(S) ==
  IF Len(S) = 0 THEN {<<>>}
  ELSE IF Len(S) = 1 THEN {<<x>> : x \in S[1]}
  ELSE IF Len(S) = 2 THEN S[1] \X S[2]
  ELSE S[1] \X S[2] \X S[3]

Library(n) == 100 + n       \* the n-th library opened
OpenHandles == 2..Len(handles)

\* f is the values of the components.
ValuesBy(libraries, open, f, t) ==
  IF t.k \in {"byte", "word"} THEN Numbers
  ELSE IF t.k = "string" THEN Texts
  ELSE IF t.k = "own" THEN libraries
  ELSE IF t.k = "borrow" THEN open
  ELSE IF t.k = "list" THEN UNION {[1..n -> f[t.elem]] : n \in 0..MaxLen}
  ELSE IF t.k = "case"
       THEN UNION {{<<d - 1, x>> : x \in f[t.payloads[d]]} : d \in DOMAIN t.payloads}
  ELSE IF t.k = "record" THEN Product([i \in DOMAIN t.fields |-> f[t.fields[i]]])
  ELSE {Nothing}
ValuesOf(libraries, open) ==
  LET f[t \in Codecs] == ValuesBy(libraries, open, f, t) IN f
Values ==
  ValuesOf({Library(n) : n \in {Len(extern) + 1} \intersect 1..MaxLoads}, OpenHandles)

\* What the implementation should get for what the guest passed.
Meant(t, v) == IF t.k = "borrow" THEN extern[handles[v]] ELSE v

-----------------------------------------------------------------------------
\* Handle 1 of an instance is of another resource.
Init ==
  /\ mem = <<>> /\ free = First /\ blocks = {} /\ touched = {}
  /\ fn = "none" /\ args = Nothing /\ stack = Nothing /\ lifted = Nothing
  /\ result = Nothing /\ out = 0 /\ todo = <<>> /\ got = Nothing
  /\ extern = <<>> /\ handles = <<0>>
  /\ phase = "idle"

\* What is to be written: into memory at an address, or onto the stack at a slot.
Item(t, in, at, v) == [t |-> t, in |-> in, at |-> at, v |-> v]

\* The guest calls; every argument is to be lowered into its canonical slots.
Call ==
  /\ phase = "idle"
  /\ \E f \in DOMAIN HostFunctions :
       LET codecs == [i \in DOMAIN HostFunctions[f].params |-> HostFunctions[f].params[i].codec]
       IN \E v \in Product([i \in DOMAIN codecs |-> Values[codecs[i]]]) :
            /\ fn' = f /\ args' = v
            /\ todo' = [i \in DOMAIN codecs |->
                          Item(codecs[i], "stack", FirstSlots(codecs)[i], v[i])]
  /\ phase' = "lowering"
  /\ UNCHANGED <<mem, free, blocks, touched, stack, lifted, result, out, got, extern, handles>>

\* toGoFlat of a parameter, from its slots.
LiftParam(p) ==
  IF p.codec.k \in {"byte", "word"} THEN stack[p.from]
  ELSE IF p.codec.k = "borrow" THEN extern[stack[p.from]]
  ELSE Elements("host", Finds("host", Now), p.codec, stack[p.from], stack[p.to - 1])

\* The call reaches the host, which has been given no block yet and has written nothing.
Lift ==
  /\ phase = "lowering" /\ todo = <<>>
  /\ lifted' = [i \in DOMAIN Codec.params |-> LiftParam(Codec.params[i])]
  /\ blocks' = {} /\ touched' = {}
  /\ phase' = "implementation"
  /\ UNCHANGED <<mem, free, fn, args, stack, result, out, todo, got, extern, handles>>

\* The implementation returns a value, or an error, which traps the guest.
Implementation ==
  /\ phase = "implementation"
  /\ \/ /\ \E v \in Values[Codec.result] : result' = v
        /\ phase' = IF Codec.result = NoPayload THEN "returned" ELSE "answered"
     \/ phase' = "trapped" /\ UNCHANGED result
  /\ UNCHANGED <<mem, free, blocks, touched, fn, args, stack, lifted, out, todo, got,
                 extern, handles>>

-----------------------------------------------------------------------------
(* Writing arguments and results.                                          *)

\* The address and length of a string or list, written after its elements.
Header(i, block, n) == Item([k |-> "header"], i.in, i.at, <<block, n>>)

Side == IF phase = "lowering" THEN "guest" ELSE "host"
Writing(kinds) ==
  phase \in {"lowering", "writing"} /\ todo # <<>> /\ Head(todo).t.k \in kinds

\* Write bytes at an address and go on with more, then the rest.
Write(at, bytes, more) ==
  /\ mem' = Put(mem, at, bytes)
  /\ touched' = touched \union at..at + Len(bytes) - 1
  /\ todo' = more \o Tail(todo)

\* The guest's allocator: n bytes, aligned.  For the host it is realloc, guest code.
Realloc(n, align) ==
  LET at == AlignUp(free, align) IN
  /\ at + n <= MemSize
  /\ free' = at + n
  /\ blocks' = blocks \union {<<at, n>>}

\* Where it fails, the call is over and the instance has trapped.
ReallocFails ==
  /\ phase = "answered" \/ Writing({"string", "list"})
  /\ phase' = "trapped"
  /\ UNCHANGED <<mem, free, blocks, touched, fn, args, stack, lifted, result, out, todo,
                 got, extern, handles>>

AllocateOut ==
  /\ phase = "answered"
  /\ Realloc(Codec.size, Codec.align)
  /\ out' = AlignUp(free, Codec.align)
  /\ todo' = <<Item(Codec.result, "memory", out', result)>>
  /\ phase' = "writing"
  /\ UNCHANGED <<mem, touched, fn, args, stack, lifted, result, got, extern, handles>>

Outer == <<fn, args, lifted, result, out, got, phase>>

\* A core value, or the two of a string or list, onto the stack.  A borrowed handle
\* reaches the component that defines the resource as its representation.
Push ==
  LET i == Head(todo) IN
  /\ Writing({"byte", "word", "borrow", "header"}) /\ i.in = "stack"
  /\ stack' = Put(stack, i.at, IF i.t.k = "header" THEN i.v
                              ELSE IF i.t.k = "borrow" THEN <<handles[i.v]>> ELSE <<i.v>>)
  /\ todo' = Tail(todo)
  /\ UNCHANGED <<mem, touched, free, blocks, extern, handles, Outer>>

WriteNumber ==
  LET i == Head(todo) IN
  /\ Writing({"byte", "word"}) /\ i.in = "memory"
  /\ Write(i.at, IntBytes(i.v, i.t.size), <<>>)
  /\ UNCHANGED <<free, blocks, stack, extern, handles, Outer>>

WriteCase ==
  LET i == Head(todo) IN
  /\ Writing({"case"})
  /\ LET t == i.t.payloads[i.v[1] + 1] IN
     Write(i.at, IntBytes(i.v[1], 1),
           IF t = NoPayload THEN <<>> ELSE <<Item(t, "memory", i.at + i.t[Side].at, i.v[2])>>)
  /\ UNCHANGED <<free, blocks, stack, extern, handles, Outer>>

WriteRecord ==
  LET i == Head(todo) IN
  /\ Writing({"record"})
  /\ todo' = [f \in DOMAIN i.t.fields |->
                Item(i.t.fields[f], "memory", i.at + i.t[Side].offsets[f], i.v[f])] \o Tail(todo)
  /\ UNCHANGED <<mem, touched, free, blocks, stack, extern, handles, Outer>>

\* A string is copied in one write; the elements of a list one by one.
WriteString ==
  LET i  == Head(todo) IN
  /\ Writing({"string"})
  /\ LET at == AlignUp(free, i.t[Side].align) IN
     /\ Realloc(Len(i.v), i.t[Side].align)
     /\ Write(at, [c \in 1..Len(i.v) |-> <<i.v[c], 1>>], <<Header(i, at, Len(i.v))>>)
  /\ UNCHANGED <<stack, extern, handles, Outer>>

WriteList ==
  LET i == Head(todo) IN
  /\ Writing({"list"})
  /\ LET at     == AlignUp(free, i.t[Side].align)
         stride == i.t[Side].stride
     IN /\ Realloc(Len(i.v) * stride, i.t[Side].align)
        /\ todo' = [e \in 1..Len(i.v) |->
                      Item(i.t.elem, "memory", at + (e - 1) * stride, i.v[e])]
                   \o <<Header(i, at, Len(i.v))>> \o Tail(todo)
  /\ UNCHANGED <<mem, touched, stack, extern, handles, Outer>>

WriteHeader ==
  LET i == Head(todo) IN
  /\ Writing({"header"}) /\ i.in = "memory"
  /\ Write(i.at, IntBytes(i.v[1], 4) \o IntBytes(i.v[2], 4), <<>>)
  /\ UNCHANGED <<free, blocks, stack, extern, handles, Outer>>

\* Mutant: the guest is given the representation.
HandleIsRep == Len(extern) + 1
HandleID == Len(handles) + 1

\* An owned handle: the resource is registered, a handle issued to the guest,
\* and its number written.
BindHandle ==
  LET i == Head(todo) IN
  /\ Writing({"own"})
  /\ extern' = Append(extern, i.v)
  /\ handles' = Append(handles, Len(extern) + 1)
  /\ Write(i.at, IntBytes(HandleID, 4), <<>>)
  /\ UNCHANGED <<free, blocks, stack, Outer>>

Return ==
  /\ phase = "writing" /\ todo = <<>>
  /\ got' = Finds("guest", Now)[Codec.result][out]
  /\ phase' = "returned"
  /\ UNCHANGED <<mem, free, blocks, touched, fn, args, stack, lifted, result, out, todo,
                 extern, handles>>

\* The guest frees what the call used.
Forget ==
  /\ mem' = <<>> /\ free' = First /\ blocks' = {} /\ touched' = {}
  /\ fn' = "none" /\ args' = Nothing /\ stack' = Nothing /\ lifted' = Nothing
  /\ result' = Nothing /\ out' = 0 /\ todo' = <<>> /\ got' = Nothing
  /\ phase' = "idle"

Finish == phase = "returned" /\ Forget /\ UNCHANGED <<extern, handles>>

\* After a trap only another instance serves calls.
Instantiate == phase = "trapped" /\ Forget /\ extern' = <<>> /\ handles' = <<0>>

Next ==
  \/ Call \/ Lift \/ Implementation
  \/ AllocateOut \/ ReallocFails
  \/ Push \/ WriteNumber \/ WriteCase \/ WriteRecord \/ WriteString \/ WriteList
  \/ WriteHeader \/ BindHandle
  \/ Return \/ Finish \/ Instantiate

Spec == Init /\ [][Next]_vars

-----------------------------------------------------------------------------
\* The implementation gets what the guest passed: each parameter is lifted from
\* its own slots, and the strides and field offsets agree with the guest's.
ArgumentsArrive ==
  phase = "implementation" =>
    \A i \in DOMAIN Codec.params : lifted[i] = Meant(Codec.params[i].codec, args[i])

\* The guest reads what the implementation returned, whatever guest code ran for
\* the blocks in between; a handle it gets denotes the library just opened.
ResultArrives ==
  phase = "returned" /\ Codec.result # NoPayload => got = result

\* Every byte a side writes lies in a block it was given: for the host, that the constant
\* sizes of the result blocks and of list elements are enough.
WritesStayInBlocks ==
  touched \subseteq UNION {b[1]..b[1] + b[2] - 1 : b \in blocks}

\* The flat forms are as wide as the canonical ones, those of the components included.
Components(t) ==
  IF t.k \in {"string", "list"} THEN {t.elem}
  ELSE IF t.k = "case" THEN ToSet(t.payloads)
  ELSE IF t.k = "record" THEN ToSet(t.fields)
  ELSE {}
FlatFits ==
  LET f[t \in Codecs] == t.host.slots = t.guest.slots /\ \A c \in Components(t) : f[c] IN f
FlatFormsFit == phase = "answered" => FlatFits[Codec.result]
=============================================================================
